----------------------------- MODULE SftpStore -----------------------------
(***************************************************************************)
(* The SFTP credentials of a node (sftpStore in internal/server/sftp.go),  *)
(* a map under an RWMutex that is saved to sftp-users.json after every     *)
(* change: set, removeUser and remove change the map under the lock, and   *)
(* then, without it, save copies the map under a read lock, writes it to   *)
(* one temporary file and renames that over sftp-users.json.               *)
(*                                                                         *)
(* A handler serves one request at a time.  A save may fail at any of its  *)
(* steps, and the process may be killed between any two; the next one      *)
(* starts with loadSFTPStore.                                              *)
(***************************************************************************)
EXTENDS Naturals, FiniteSets

CONSTANTS Handlers,
          Usernames,
          Containers,
          None,         \* no credential, no handler, no file
          Torn, Empty,  \* data that does not parse
          MaxRestarts   \* bound: number of restarts

Names  == {"sftp-users.json", "tmp"}
Inodes == 1..(Cardinality(Handlers) + 3)
INSTANCE Files WITH NoFile <- None

Maps == [Usernames -> Containers \cup {None}]
NoCopy == [u \in Usernames |-> None]

ASSUME BoundsAssumption == IsFiniteSet(Handlers) /\ MaxRestarts \in Nat
ASSUME NoneAssumption == None \notin Containers \cup Handlers \cup Inodes
ASSUME DataAssumption == {Torn, Empty} \cap Maps = {}

VARIABLES
  users,    \* sftpStore.users: the container of every username
  disk,     \* the data directory
  pc,       \* where a handler is
  copy,     \* the map as its save has marshalled it
  fd,       \* the file its os.WriteFile has open
  life,     \* number of restarts
  open,     \* observer: usernames changed since, and not answered with OK
  sole,     \* observer: the handler that nobody disturbed since it began
  settled   \* observer: the last save that nobody disturbed came after the others

handler == <<pc, copy, fd>>
ghosts  == <<open, sole, settled>>
vars    == <<users, disk, handler, life, ghosts>>

Init ==
  /\ users = NoCopy
  /\ disk = [name |-> [n \in Names |-> None], data |-> [i \in Inodes |-> Empty]]
  /\ pc = [h \in Handlers |-> "idle"]
  /\ copy = [h \in Handlers |-> NoCopy]
  /\ fd = [h \in Handlers |-> None]
  /\ life = 0
  /\ open = {}
  /\ sole = None
  /\ settled = TRUE

goto(h, label) == pc' = [pc EXCEPT ![h] = label]

\* The handler returns.
reply(h) ==
  /\ goto(h, "idle")
  /\ copy' = [copy EXCEPT ![h] = NoCopy]

openFds == {fd[h] : h \in Handlers}

others(h) == {g \in Handlers \ {h} : pc[g] # "idle"}

\* The critical section of a change: S get the container c, or lose theirs.
put(h, S, c) ==
  /\ pc[h] = "idle"
  /\ users' = [u \in Usernames |-> IF u \in S THEN c ELSE users[u]]
  /\ goto(h, "marshal")
  /\ open' = open \cup S
  /\ sole' = IF others(h) = {} THEN h ELSE None
  /\ settled' = (settled /\ others(h) = {})
  /\ UNCHANGED <<disk, copy, fd, life>>

set(h, c, u) == put(h, {u}, c)

removeUser(h, c, u) == put(h, {u} \cap {v \in Usernames : users[v] = c}, None)

\* All users of a container, when it is deleted or reinstalled.
removeAll(h, c) == put(h, {u \in Usernames : users[u] = c}, None)

-----------------------------------------------------------------------------
(* save *)

Marshal(h) ==
  /\ pc[h] = "marshal"
  /\ copy' = [copy EXCEPT ![h] = users]
  /\ goto(h, "create")
  /\ UNCHANGED <<users, disk, fd, life, ghosts>>

\* Mutant: the file itself is opened.
target_InPlace == "sftp-users.json"

\* The name save writes to.
target == "tmp"

\* Mutant: the error of the open is ignored.
Create_Unchecked(h) ==
  /\ pc[h] = "create"
  /\ goto(h, "write")
  /\ \/ /\ disk' = create(disk, target, unused(disk, openFds))
        /\ fd' = [fd EXCEPT ![h] = disk'.name[target]]
     \/ UNCHANGED <<disk, fd>>
  /\ UNCHANGED <<users, copy, life, ghosts>>

\* os.WriteFile opens and truncates the temporary file, or fails.
Create(h) ==
  /\ pc[h] = "create"
  /\ \/ /\ disk' = create(disk, target, unused(disk, openFds))
        /\ fd' = [fd EXCEPT ![h] = disk'.name[target]]
        /\ goto(h, "write")
        /\ UNCHANGED copy
     \/ /\ reply(h)
        /\ UNCHANGED <<disk, fd>>
  /\ UNCHANGED <<users, life, ghosts>>

\* What a file holds after h has written to it from its start: a longer map
\* written by somebody else sticks out at its end.
written(h) ==
  IF disk.data[fd[h]] \in {Empty, copy[h]} THEN {copy[h]} ELSE {copy[h], Torn}

\* ... writes and closes it, or fails half way.
Write(h) ==
  /\ pc[h] = "write"
  /\ fd' = [fd EXCEPT ![h] = None]
  /\ \/ /\ \E d \in written(h) : disk' = freed(write(disk, fd[h], d), openFds')
        /\ goto(h, "rename")
        /\ UNCHANGED copy
     \/ /\ disk' = freed(write(disk, fd[h], Torn), openFds')
        /\ reply(h)
  /\ UNCHANGED <<users, life, ghosts>>

\* os.Rename; the request is answered.  It fails when somebody else has renamed
\* the temporary file.
Rename(h) ==
  /\ pc[h] = "rename"
  /\ reply(h)
  /\ \/ /\ exists(disk, target)
        /\ disk' = freed(rename(disk, target, "sftp-users.json"), openFds)
        /\ open' = IF sole = h THEN {} ELSE open
        /\ settled' = (settled \/ sole = h)
     \/ UNCHANGED <<disk, open, settled>>
  /\ UNCHANGED <<users, fd, life, sole>>

-----------------------------------------------------------------------------
\* loadSFTPStore: data that does not parse is no credentials at all.
loaded(fs) ==
  LET f == fs.name["sftp-users.json"]
  IN IF f # None /\ fs.data[f] \in Maps THEN fs.data[f] ELSE NoCopy

\* The process dies and starts again.
Restart ==
  /\ life < MaxRestarts
  /\ life' = life + 1
  /\ users' = loaded(disk)
  /\ pc' = [h \in Handlers |-> "idle"]
  /\ fd' = [h \in Handlers |-> None]
  /\ copy' = [h \in Handlers |-> NoCopy]
  /\ disk' = freed(disk, {})
  /\ open' = {}
  /\ sole' = None
  /\ UNCHANGED settled

save(h) == Marshal(h) \/ Create(h) \/ Write(h) \/ Rename(h)

Next ==
  \/ \E h \in Handlers, c \in Containers :
       removeAll(h, c) \/ \E u \in Usernames : set(h, c, u) \/ removeUser(h, c, u)
  \/ \E h \in Handlers : save(h)
  \/ Restart

Spec == Init /\ [][Next]_vars
-----------------------------------------------------------------------------
TypeOK ==
  /\ users \in Maps
  /\ disk.name \in [Names -> Inodes \cup {None}]
  /\ \A i \in Inodes : disk.data[i] \in Maps \cup {Torn, Empty}
  /\ pc \in [Handlers -> {"idle", "marshal", "create", "write", "rename"}]
  /\ copy \in [Handlers -> Maps]
  /\ fd \in [Handlers -> Inodes \cup {None}]
  /\ \A h \in Handlers : fd[h] # None <=> pc[h] = "write"
  /\ life \in 0..MaxRestarts
  /\ open \subseteq Usernames
  /\ sole \in Handlers \cup {None}
  /\ settled \in BOOLEAN

\* A restart loads every credential as the running store has it, except those
\* whose change failed or is not answered yet.  A kill in the middle of a save
\* does not undo what was answered before, nor does a save that fails.  Saves
\* that overlap void this until one goes through undisturbed.
AnsweredIsSaved ==
  settled => \A u \in Usernames \ open : loaded(disk)[u] = users[u]
=============================================================================
