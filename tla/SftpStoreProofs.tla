-------------------------- MODULE SftpStoreProofs ---------------------------
(***************************************************************************)
(* The credentials of SftpStore, for any handlers, usernames and           *)
(* containers.  That what was answered is on disk rests on the handler     *)
(* that nobody disturbed: its copy is the map of the store, and the        *)
(* temporary file is its own until it renames it.                          *)
(***************************************************************************)
EXTENDS SftpStore, FiniteSetTheorems, TLAPS

Data == Maps \cup {Torn, Empty}

json == disk.name["sftp-users.json"]
tmp  == disk.name["tmp"]

Shape ==
  /\ users \in Maps
  /\ disk.name \in [Names -> Inodes \cup {None}]
  /\ disk.data \in [Inodes -> Data]
  /\ pc \in [Handlers -> {"idle", "marshal", "create", "write", "rename"}]
  /\ copy \in [Handlers -> Maps]
  /\ fd \in [Handlers -> Inodes \cup {None}]
  /\ \A h \in Handlers : fd[h] # None <=> pc[h] = "write"
  /\ life \in 0..MaxRestarts
  /\ open \subseteq Usernames
  /\ sole \in Handlers \cup {None}
  /\ settled \in BOOLEAN

\* Nobody but the undisturbed handler is at work; what it saves is the store, and
\* the temporary file is its own.
Undisturbed ==
  \A h \in Handlers : sole = h =>
    /\ \A g \in Handlers : g # h => pc[g] = "idle"
    /\ pc[h] \in {"create", "write", "rename"} => copy[h] = users
    /\ pc[h] = "write" => fd[h] = tmp /\ disk.data[tmp] = Empty
    /\ pc[h] = "rename" => tmp # None /\ disk.data[tmp] = copy[h]

\* While no saves overlapped the two names stand for two files.
Apart ==
  settled => /\ \A h \in Handlers : pc[h] # "idle" => sole = h
             /\ json # None => json # tmp

StoreInv == Shape /\ Undisturbed /\ Apart /\ AnsweredIsSaved

-----------------------------------------------------------------------------
\* No credentials at all is a map.
LEMMA NoCopyIsMap == NoCopy \in Maps /\ loaded(disk) \in Maps
<1>1. NoCopy \in Maps
  BY DEF NoCopy, Maps
<1> QED
  BY <1>1 DEF loaded

\* Every handler may have a file open and both names may stand for one, and a
\* file is left.
LEMMA OneIsUnused ==
  ASSUME Shape
  PROVE  LET i == unused(disk, openFds)
         IN i \in Inodes /\ i \notin openFds /\ \A n \in Names : disk.name[n] # i
<1> DEFINE n == Cardinality(Handlers)
           used == openFds \cup {json, tmp}
<1>1. n \in Nat /\ IsFiniteSet(Handlers)
  BY BoundsAssumption, FS_CardinalityType
<1>2. IsFiniteSet(openFds) /\ Cardinality(openFds) <= n
  <2> DEFINE f == [h \in Handlers |-> fd[h]]
  <2>1. f \in Surjection(Handlers, openFds)
    BY DEF openFds, Surjection
  <2> QED
    BY <1>1, <2>1, FS_Surjection
<1>3. IsFiniteSet({json, tmp}) /\ Cardinality({json, tmp}) <= 2
  <2>1. IsFiniteSet({json}) /\ Cardinality({json}) = 1
    BY FS_Singleton
  <2>2. {json, tmp} = {json} \cup {tmp}
    OBVIOUS
  <2> QED
    BY <2>1, <2>2, FS_AddElement
<1>4. IsFiniteSet(used) /\ Cardinality(used) <= n + 2
  <2>1. /\ IsFiniteSet(used)
        /\ Cardinality(used) = Cardinality(openFds) + Cardinality({json, tmp})
                                 - Cardinality(openFds \cap {json, tmp})
    BY <1>2, <1>3, FS_Union
  <2>2. Cardinality(openFds \cap {json, tmp}) \in Nat
    BY <1>2, FS_Intersection, FS_CardinalityType
  <2>3. Cardinality(openFds) \in Nat /\ Cardinality({json, tmp}) \in Nat
    BY <1>2, <1>3, FS_CardinalityType
  <2> QED
    BY <1>1, <1>2, <1>3, <2>1, <2>2, <2>3
<1>5. IsFiniteSet(Inodes) /\ Cardinality(Inodes) = n + 3
  BY <1>1, FS_Interval DEF Inodes
<1>6. \E i \in Inodes : i \notin used
  <2>1. ASSUME Inodes \subseteq used PROVE FALSE
    <3>1. Cardinality(Inodes) <= Cardinality(used)
      BY <1>4, <2>1, FS_Subset
    <3>2. Cardinality(used) \in Nat
      BY <1>4, FS_CardinalityType
    <3> QED
      BY <1>1, <1>4, <1>5, <3>1, <3>2
  <2> QED
    BY <2>1
<1>7. \E i \in Inodes : i \notin openFds /\ \A m \in Names : disk.name[m] # i
  BY <1>6 DEF Names, json, tmp
<1> QED
  BY <1>7 DEF unused

\* What a store loads depends on the file the name stands for.
LEMMA LoadedStays ==
  ASSUME NEW fs, NEW gs, gs.name["sftp-users.json"] = fs.name["sftp-users.json"],
         fs.name["sftp-users.json"] # None =>
           gs.data[fs.name["sftp-users.json"]] = fs.data[fs.name["sftp-users.json"]]
  PROVE  loaded(gs) = loaded(fs)
BY DEF loaded

\* Files that a name stands for are not freed.
LEMMA FreedFacts ==
  ASSUME NEW fs, NEW o
  PROVE  /\ freed(fs, o).name = fs.name
         /\ fs.data \in [Inodes -> Data] => freed(fs, o).data \in [Inodes -> Data]
         /\ \A n \in Names : fs.name[n] \in Inodes =>
              freed(fs, o).data[fs.name[n]] = fs.data[fs.name[n]]
BY DEF freed, Data

LEMMA Start == Init => StoreInv
<1> SUFFICES ASSUME Init PROVE StoreInv
  OBVIOUS
<1>1. None \notin Handlers /\ None \notin Inodes
  BY NoneAssumption
<1>2. disk.name = [n \in Names |-> None] /\ disk.data = [i \in Inodes |-> Empty] /\ json = None
  BY DEF Init, json, Names
<1>3. loaded(disk) = NoCopy
  BY <1>2 DEF loaded, json
<1>4. Shape
  <2>1. disk.name \in [Names -> Inodes \cup {None}] /\ disk.data \in [Inodes -> Data]
    BY <1>2 DEF Data
  <2>2. users \in Maps /\ copy \in [Handlers -> Maps]
    BY NoCopyIsMap DEF Init
  <2> QED
    BY <1>1, <2>1, <2>2, BoundsAssumption DEF Init, Shape
<1> QED
  BY <1>1, <1>2, <1>3, <1>4 DEF Init, StoreInv, Undisturbed, Apart, AnsweredIsSaved

\* The critical section of a change: what it changes is not answered yet.
LEMMA PutStep ==
  ASSUME StoreInv, NEW h \in Handlers, NEW S \in SUBSET Usernames,
         NEW c \in Containers \cup {None}, put(h, S, c)
  PROVE  StoreInv'
<1> Shape /\ Undisturbed /\ Apart /\ AnsweredIsSaved
  BY DEF StoreInv
<1>1. /\ pc[h] = "idle" /\ pc' = [pc EXCEPT ![h] = "marshal"]
      /\ users' = [u \in Usernames |-> IF u \in S THEN c ELSE users[u]]
      /\ open' = open \cup S /\ disk' = disk /\ copy' = copy /\ fd' = fd /\ life' = life
      /\ sole' = IF others(h) = {} THEN h ELSE None
      /\ settled' = (settled /\ others(h) = {})
  BY DEF put, goto
<1>2. users' \in Maps
  BY <1>1 DEF Shape, Maps
<1>3. settled' \in BOOLEAN
  BY <1>1
<1>4. pc' \in [Handlers -> {"idle", "marshal", "create", "write", "rename"}]
  BY <1>1 DEF Shape
<1>5. Shape'
  BY <1>1, <1>2, <1>3, <1>4 DEF Shape
<1>6. None \notin Handlers
  BY NoneAssumption
<1>7. sole' = h \/ sole' = None
  BY <1>1
<1>8. sole' = h => \A g \in Handlers : g # h => pc[g] = "idle"
  BY <1>1, <1>6 DEF others
<1>9. pc'[h] = "marshal" /\ \A g \in Handlers : g # h => pc'[g] = pc[g]
  BY <1>1 DEF Shape
<1>10. Undisturbed'
  BY <1>6, <1>7, <1>8, <1>9 DEF Undisturbed
<1>11. settled' => settled /\ sole' = h
  BY <1>1
<1>12. Apart'
  BY <1>1, <1>8, <1>9, <1>11 DEF Apart, json, tmp
<1>13. AnsweredIsSaved'
  BY <1>1, <1>11 DEF AnsweredIsSaved, loaded, NoCopy
<1> QED
  BY <1>5, <1>10, <1>12, <1>13 DEF StoreInv

LEMMA MarshalStep ==
  ASSUME StoreInv, NEW h \in Handlers, Marshal(h)
  PROVE  StoreInv'
<1> Shape /\ Undisturbed /\ Apart /\ AnsweredIsSaved
  BY DEF StoreInv
<1>1. /\ pc[h] = "marshal" /\ pc' = [pc EXCEPT ![h] = "create"]
      /\ copy' = [copy EXCEPT ![h] = users]
      /\ users' = users /\ disk' = disk /\ fd' = fd /\ life' = life
      /\ open' = open /\ sole' = sole /\ settled' = settled
  BY DEF Marshal, goto, ghosts
<1>2. /\ pc'[h] = "create" /\ copy'[h] = users
      /\ \A g \in Handlers : g # h => pc'[g] = pc[g] /\ copy'[g] = copy[g]
  BY <1>1 DEF Shape
<1>3. Shape'
  BY <1>1 DEF Shape
<1>4. Undisturbed'
  BY <1>1, <1>2 DEF Undisturbed, tmp
<1>5. Apart'
  BY <1>1, <1>2 DEF Apart, json, tmp
<1>6. AnsweredIsSaved'
  BY <1>1 DEF AnsweredIsSaved, loaded, NoCopy
<1> QED
  BY <1>3, <1>4, <1>5, <1>6 DEF StoreInv

-----------------------------------------------------------------------------
\* A handler that cannot go on is answered, and its copy is dropped.
LEMMA Answered ==
  ASSUME Shape, NEW h \in Handlers, reply(h)
  PROVE  /\ pc' \in [Handlers -> {"idle", "marshal", "create", "write", "rename"}]
         /\ copy' \in [Handlers -> Maps]
         /\ pc'[h] = "idle"
         /\ \A g \in Handlers : g # h => pc'[g] = pc[g] /\ copy'[g] = copy[g]
BY NoCopyIsMap DEF Shape, reply, goto

\* os.WriteFile opens the temporary file: it is the one that is there, or a new
\* one, and never the one the credentials are in.
LEMMA CreateStep ==
  ASSUME StoreInv, NEW h \in Handlers, Create(h)
  PROVE  StoreInv'
<1> Shape /\ Undisturbed /\ Apart /\ AnsweredIsSaved
  BY DEF StoreInv
<1> None \notin Handlers /\ None \notin Inodes
  BY NoneAssumption
<1>1. /\ pc[h] = "create" /\ users' = users /\ life' = life
      /\ open' = open /\ sole' = sole /\ settled' = settled
  BY DEF Create, ghosts
<1>2. CASE reply(h) /\ UNCHANGED <<disk, fd>>
  <2>1. Shape'
    BY <1>1, <1>2, Answered DEF Shape
  <2>2. Undisturbed'
    BY <1>1, <1>2, Answered DEF Undisturbed, tmp
  <2>3. Apart'
    BY <1>1, <1>2, Answered DEF Apart, json, tmp
  <2>4. AnsweredIsSaved'
    BY <1>1, <1>2 DEF AnsweredIsSaved, loaded, NoCopy
  <2> QED
    BY <2>1, <2>2, <2>3, <2>4 DEF StoreInv
<1>3. CASE /\ disk' = create(disk, target, unused(disk, openFds))
           /\ fd' = [fd EXCEPT ![h] = disk'.name[target]]
           /\ goto(h, "write") /\ copy' = copy
  <2>1. PICK i \in Inodes : /\ i = unused(disk, openFds)
                            /\ \A n \in Names : disk.name[n] # i
    BY OneIsUnused
  <2>2. PICK k \in Inodes : /\ k = IF tmp # None THEN tmp ELSE i
                            /\ json # None => json # k \/ json = tmp
    BY <2>1 DEF Shape, Names, tmp, json
  <2>3. disk' = [name |-> [disk.name EXCEPT !["tmp"] = k], data |-> [disk.data EXCEPT ![k] = Empty]]
    BY <1>3, <2>1, <2>2 DEF create, exists, target, tmp
  <2>4. /\ disk'.name \in [Names -> Inodes \cup {None}] /\ disk'.data \in [Inodes -> Data]
        /\ tmp' = k /\ disk'.data[k] = Empty /\ json' = json
        /\ \A j \in Inodes : j # k => disk'.data[j] = disk.data[j]
    BY <2>3 DEF Shape, Data, Names, tmp, json
  <2>5. /\ fd' \in [Handlers -> Inodes \cup {None}] /\ fd'[h] = k
        /\ \A g \in Handlers : g # h => fd'[g] = fd[g]
    BY <1>3, <2>4 DEF Shape, target, tmp
  <2>6. /\ pc' \in [Handlers -> {"idle", "marshal", "create", "write", "rename"}]
        /\ pc'[h] = "write" /\ \A g \in Handlers : g # h => pc'[g] = pc[g]
    BY <1>3 DEF Shape, goto
  <2>7. Shape'
    BY <1>1, <1>3, <2>4, <2>5, <2>6 DEF Shape
  <2>8. Undisturbed'
    BY <1>1, <1>3, <2>4, <2>5, <2>6 DEF Undisturbed
  <2>9. settled /\ json # None => json # k
    BY <2>2 DEF Apart
  <2>10. Apart'
    BY <1>1, <2>4, <2>6, <2>9 DEF Apart
  <2>11. json \in Inodes \cup {None}
    BY DEF Shape, json, Names
  <2>12. settled => loaded(disk') = loaded(disk)
    BY <2>4, <2>9, <2>11, LoadedStays DEF json
  <2>13. AnsweredIsSaved'
    BY <1>1, <2>12 DEF AnsweredIsSaved
  <2> QED
    BY <2>7, <2>8, <2>10, <2>13 DEF StoreInv
<1> QED
  BY <1>2, <1>3 DEF Create

\* The write: the undisturbed handler leaves the whole map in its own file.
LEMMA WriteStep ==
  ASSUME StoreInv, NEW h \in Handlers, Write(h)
  PROVE  StoreInv'
<1> Shape /\ Undisturbed /\ Apart /\ AnsweredIsSaved
  BY DEF StoreInv
<1> None \notin Handlers /\ None \notin Inodes
  BY NoneAssumption
<1>1. /\ pc[h] = "write" /\ users' = users /\ life' = life
      /\ open' = open /\ sole' = sole /\ settled' = settled
      /\ fd' = [fd EXCEPT ![h] = None]
  BY DEF Write, ghosts
<1>2. fd[h] \in Inodes
  BY <1>1 DEF Shape
<1>3. PICK d \in Data :
        /\ disk' = freed(write(disk, fd[h], d), openFds')
        /\ \/ d \in written(h) /\ goto(h, "rename") /\ copy' = copy
           \/ reply(h)
  <2>1. written(h) \subseteq Data /\ Torn \in Data
    BY DEF written, Data, Shape
  <2> QED
    BY <2>1 DEF Write
<1>4. /\ disk'.name = disk.name /\ disk'.data \in [Inodes -> Data]
      /\ \A n \in Names : disk.name[n] \in Inodes /\ disk.name[n] # fd[h] =>
           disk'.data[disk.name[n]] = disk.data[disk.name[n]]
      /\ \A n \in Names : disk.name[n] = fd[h] => disk'.data[fd[h]] = d
  <2> DEFINE fs == write(disk, fd[h], d)
  <2>1. /\ fs.name = disk.name /\ fs.data \in [Inodes -> Data] /\ fs.data[fd[h]] = d
        /\ \A j \in Inodes : j # fd[h] => fs.data[j] = disk.data[j]
    BY <1>2 DEF write, Shape
  <2> HIDE DEF fs
  <2>2. /\ freed(fs, openFds').name = fs.name
        /\ freed(fs, openFds').data \in [Inodes -> Data]
        /\ \A n \in Names : fs.name[n] \in Inodes =>
             freed(fs, openFds').data[fs.name[n]] = fs.data[fs.name[n]]
    BY <2>1, FreedFacts
  <2>3. disk' = freed(fs, openFds')
    BY <1>3 DEF fs
  <2> QED
    BY <1>2, <2>1, <2>2, <2>3
<1>5. /\ pc' \in [Handlers -> {"idle", "marshal", "create", "write", "rename"}]
      /\ copy' \in [Handlers -> Maps]
      /\ pc'[h] \in {"rename", "idle"}
      /\ pc'[h] = "rename" => d \in written(h) /\ copy' = copy
      /\ \A g \in Handlers : g # h => pc'[g] = pc[g] /\ copy'[g] = copy[g]
  BY <1>3, Answered DEF Shape, goto
<1>6. /\ fd' \in [Handlers -> Inodes \cup {None}] /\ fd'[h] = None
      /\ \A g \in Handlers : g # h => fd'[g] = fd[g]
  BY <1>1 DEF Shape
<1>7. Shape'
  BY <1>1, <1>4, <1>5, <1>6 DEF Shape
<1>8. json' = json /\ tmp' = tmp /\ json \in Inodes \cup {None}
  BY <1>4 DEF json, tmp, Shape, Names
<1>9. ASSUME sole = h PROVE fd[h] = tmp /\ (d \in written(h) => d = copy[h])
  BY <1>1, <1>9 DEF Undisturbed, written
<1>10. Undisturbed'
  <2>1. ASSUME NEW g \in Handlers, sole = g
        PROVE  /\ \A f \in Handlers : f # g => pc'[f] = "idle"
               /\ pc'[g] \in {"create", "write", "rename"} => copy'[g] = users
               /\ pc'[g] = "write" => fd'[g] = tmp /\ disk'.data[tmp] = Empty
               /\ pc'[g] = "rename" => tmp # None /\ disk'.data[tmp] = copy'[g]
    <3>1. g = h
      BY <1>1, <2>1 DEF Undisturbed
    <3>2. pc'[h] = "rename" => disk'.data[tmp] = copy[h]
      BY <1>4, <1>5, <1>9, <2>1, <3>1 DEF tmp, Names
    <3> QED
      BY <1>1, <1>2, <1>5, <1>9, <2>1, <3>1, <3>2 DEF Undisturbed
  <2> QED
    BY <1>1, <1>8, <2>1 DEF Undisturbed
<1>11. Apart'
  BY <1>1, <1>5, <1>8 DEF Apart
<1>12. settled => loaded(disk') = loaded(disk)
  <2>1. ASSUME settled, json # None PROVE disk'.data[json] = disk.data[json]
    <3>1. sole = h /\ json # tmp
      BY <1>1, <2>1 DEF Apart
    <3> QED
      BY <1>4, <1>8, <1>9, <2>1, <3>1 DEF json, Names
  <2> QED
    BY <1>4, <2>1, LoadedStays DEF json
<1>13. AnsweredIsSaved'
  BY <1>1, <1>12 DEF AnsweredIsSaved
<1> QED
  BY <1>7, <1>10, <1>11, <1>13 DEF StoreInv

\* os.Rename: the undisturbed handler puts the map of the store in place.
LEMMA RenameStep ==
  ASSUME StoreInv, NEW h \in Handlers, Rename(h)
  PROVE  StoreInv'
<1> Shape /\ Undisturbed /\ Apart /\ AnsweredIsSaved
  BY DEF StoreInv
<1> None \notin Handlers /\ None \notin Inodes
  BY NoneAssumption
<1>1. /\ pc[h] = "rename" /\ users' = users /\ life' = life /\ fd' = fd /\ sole' = sole
      /\ reply(h)
  BY DEF Rename
<1>2. /\ pc' \in [Handlers -> {"idle", "marshal", "create", "write", "rename"}]
      /\ copy' \in [Handlers -> Maps] /\ pc'[h] = "idle"
      /\ \A g \in Handlers : g # h => pc'[g] = pc[g] /\ copy'[g] = copy[g]
  BY <1>1, Answered
<1>3. CASE UNCHANGED <<disk, open, settled>>
  <2>1. Shape'
    BY <1>1, <1>2, <1>3 DEF Shape
  <2>2. Undisturbed'
    BY <1>1, <1>2, <1>3 DEF Undisturbed, tmp
  <2>3. Apart'
    BY <1>1, <1>2, <1>3 DEF Apart, json, tmp
  <2>4. AnsweredIsSaved'
    BY <1>1, <1>3 DEF AnsweredIsSaved, loaded, NoCopy
  <2> QED
    BY <2>1, <2>2, <2>3, <2>4 DEF StoreInv
<1>4. CASE /\ exists(disk, target)
           /\ disk' = freed(rename(disk, target, "sftp-users.json"), openFds)
           /\ open' = (IF sole = h THEN {} ELSE open)
           /\ settled' = (settled \/ sole = h)
  <2> DEFINE fs == rename(disk, target, "sftp-users.json")
  <2>1. tmp \in Inodes
    BY <1>4 DEF exists, target, tmp, Shape, Names
  <2>2. /\ fs.name \in [Names -> Inodes \cup {None}] /\ fs.data = disk.data
        /\ fs.name["sftp-users.json"] = tmp /\ fs.name["tmp"] = None
    BY <2>1 DEF rename, target, Shape, tmp, Names
  <2>3. disk' = freed(fs, openFds)
    BY <1>4
  <2> HIDE DEF fs
  <2>4. /\ freed(fs, openFds).name = fs.name
        /\ fs.data \in [Inodes -> Data] => freed(fs, openFds).data \in [Inodes -> Data]
        /\ fs.name["sftp-users.json"] \in Inodes =>
             freed(fs, openFds).data[fs.name["sftp-users.json"]] = fs.data[fs.name["sftp-users.json"]]
    BY FreedFacts DEF Names
  <2>5. /\ disk'.name \in [Names -> Inodes \cup {None}] /\ disk'.data \in [Inodes -> Data]
        /\ json' = tmp /\ tmp' = None /\ disk'.data[tmp] = disk.data[tmp]
    BY <2>1, <2>2, <2>3, <2>4 DEF Shape, json, tmp
  <2>6. settled' \in BOOLEAN
    BY <1>4
  <2>7. Shape'
    BY <1>1, <1>2, <1>4, <2>5, <2>6 DEF Shape
  <2>8. settled => sole = h
    BY <1>1 DEF Apart
  <2>9. settled' = (sole = h)
    BY <1>4, <2>8 DEF Shape
  <2>10. Undisturbed'
    <3>1. ASSUME NEW g \in Handlers, sole = g PROVE g = h
      BY <1>1, <3>1 DEF Undisturbed
    <3>2. sole = h => \A g \in Handlers : g # h => pc'[g] = "idle"
      BY <1>2 DEF Undisturbed
    <3> QED
      BY <1>1, <1>2, <3>1, <3>2 DEF Undisturbed
  <2>11. Apart'
    <3>1. sole = h => \A g \in Handlers : pc'[g] = "idle"
      BY <1>2 DEF Undisturbed
    <3> QED
      BY <2>1, <2>5, <2>9, <3>1 DEF Apart
  <2>12. AnsweredIsSaved'
    <3>1. sole = h => disk.data[tmp] = users /\ users \in Maps
      BY <1>1 DEF Undisturbed, Shape
    <3>2. sole = h => loaded(disk') = users
      BY <2>1, <2>5, <3>1 DEF loaded, json
    <3> QED
      BY <1>1, <2>9, <3>2 DEF AnsweredIsSaved
  <2> QED
    BY <2>7, <2>10, <2>11, <2>12 DEF StoreInv
<1> QED
  BY <1>3, <1>4 DEF Rename

\* A kill, and loadSFTPStore.
LEMMA RestartStep ==
  ASSUME StoreInv, Restart
  PROVE  StoreInv'
<1> Shape /\ Apart
  BY DEF StoreInv
<1> None \notin Handlers /\ None \notin Inodes
  BY NoneAssumption
<1>1. /\ users' = loaded(disk) /\ disk' = freed(disk, {}) /\ open' = {} /\ sole' = None
      /\ settled' = settled
      /\ pc' = [h \in Handlers |-> "idle"] /\ fd' = [h \in Handlers |-> None]
      /\ copy' = [h \in Handlers |-> NoCopy]
      /\ life < MaxRestarts /\ life' = life + 1
  BY DEF Restart
<1>2. /\ disk'.name = disk.name /\ disk'.data \in [Inodes -> Data]
      /\ \A n \in Names : disk.name[n] \in Inodes =>
           disk'.data[disk.name[n]] = disk.data[disk.name[n]]
  BY <1>1, FreedFacts DEF Shape
<1>3. json \in Inodes \cup {None} /\ json' = json /\ tmp' = tmp
  BY <1>2 DEF Shape, Names, json, tmp
<1>4. loaded(disk') = loaded(disk)
  BY <1>2, <1>3, LoadedStays DEF json, Names
<1>5. life' \in 0..MaxRestarts
  BY <1>1, BoundsAssumption DEF Shape
<1>6. Shape'
  BY <1>1, <1>2, <1>5, NoCopyIsMap DEF Shape
<1>7. Undisturbed'
  BY <1>1 DEF Undisturbed
<1>8. Apart'
  BY <1>1, <1>3 DEF Apart
<1>9. AnsweredIsSaved'
  BY <1>1, <1>4 DEF AnsweredIsSaved
<1> QED
  BY <1>6, <1>7, <1>8, <1>9 DEF StoreInv

\* Every step preserves the invariant.
LEMMA Inductive == StoreInv /\ [Next]_vars => StoreInv'
<1> SUFFICES ASSUME StoreInv, [Next]_vars PROVE StoreInv'
  OBVIOUS
<1>1. CASE UNCHANGED vars
  BY <1>1 DEF vars, handler, ghosts, StoreInv, Shape, Undisturbed, Apart, AnsweredIsSaved,
              json, tmp, loaded, NoCopy
<1>2. ASSUME NEW h \in Handlers, NEW c \in Containers, removeAll(h, c) PROVE StoreInv'
  BY <1>2, PutStep DEF removeAll
<1>3. ASSUME NEW h \in Handlers, NEW c \in Containers, NEW u \in Usernames,
             set(h, c, u) \/ removeUser(h, c, u)
      PROVE  StoreInv'
  BY <1>3, PutStep DEF set, removeUser
<1>4. ASSUME NEW h \in Handlers, save(h) PROVE StoreInv'
  BY <1>4, MarshalStep, CreateStep, WriteStep, RenameStep DEF save
<1>5. Restart => StoreInv'
  BY RestartStep
<1> QED
  BY <1>1, <1>2, <1>3, <1>4, <1>5 DEF Next

\* The inductive invariant, for any handlers, usernames and containers.
THEOREM Invariance == Spec => []StoreInv
BY Start, Inductive, PTL DEF Spec

\* The variables keep their types, and a handler has a file open while it writes.
THEOREM TypeCorrect == Spec => []TypeOK
<1>1. StoreInv => TypeOK
  BY DEF StoreInv, Shape, TypeOK, Data
<1> QED
  BY <1>1, Invariance, PTL

\* sftpStore: a kill at any moment costs no credential that was answered, unless
\* saves overlapped and none has gone through undisturbed since.
THEOREM AnswersSurvive == Spec => []AnsweredIsSaved
<1>1. StoreInv => AnsweredIsSaved
  BY DEF StoreInv
<1> QED
  BY <1>1, Invariance, PTL
=============================================================================
