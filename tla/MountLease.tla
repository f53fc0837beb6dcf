----------------------------- MODULE MountLease -----------------------------
(***************************************************************************)
(* On-demand mounts of a stopped container's data: the SFTP and backup     *)
(* leases (sftpLeases in internal/server/sftp.go), the file-manager        *)
(* requests (beginFMSession) and the mount work they share                 *)
(* (mountOverlaySession, cleanupMounts in internal/server/filemanager.go). *)
(*                                                                         *)
(* A mount stack has the layers 1..Top in the order they are mounted: the  *)
(* disk image below Overlay, the overlay itself, the volumes above it      *)
(* (a tmpfs volume is never mounted here and is not a layer).              *)
(* fmMountMu serialises mount work; l.mu guards the lease table; a file-   *)
(* manager request holds fmMountMu until its response is written, a lease  *)
(* holder only while it mounts or unmounts.                                *)
(***************************************************************************)
EXTENDS Naturals, FiniteSets

CONSTANTS Sessions,    \* SFTP sessions and backup jobs: users of the leases
          Requests,    \* file-manager requests
          Refs,        \* container names and ids as the callers spell them
          Containers,
          ContainerOf, \* resolveLocalID: the container a ref stands for
          Top,         \* number of layers of a mount stack
          Overlay,     \* the layer of the merged overlay
          Nobody       \* holder of a free mutex

Procs  == Sessions \cup Requests
Layers == 1..Top

ASSUME StackAssumption == Top \in Nat /\ Overlay \in Layers
ASSUME ProcsAssumption ==
  /\ IsFiniteSet(Sessions)
  /\ Sessions \cap Requests = {}
  /\ Nobody \notin Procs
ASSUME RefsAssumption == Refs # {} /\ ContainerOf \in [Refs -> Containers]

VARIABLES
  mounted,   \* the layers present in the host's mount table, by container
  running,   \* containers cardinal has started
  leftover,  \* containers whose bare mount point directory is not empty
  imaged,    \* containers with a disk image that this host has loop devices for
  fm,        \* holder of fmMountMu
  lmu,       \* holder of sftpLeases.mu
  active,    \* the lease table: reference count, the layers to unmount, those under its root
  pc,        \* where a user is in its handler
  ref,       \* the ref a user works on
  at,        \* the next layer mountOverlaySession looks at (1 outside of it)
  own,       \* layers mounted by the fmSession a user has in hand
  under,     \* observer: layers its mount work mounted or found: what its root lies over
  lease,     \* users that hold a release function of acquire
  temporary  \* observer: layers wings mounted and has to unmount itself

users  == <<pc, ref, at, own, under, lease>>
host   == <<leftover, imaged>>
locks  == <<fm, lmu>>
vars   == <<mounted, running, host, locks, active, users, temporary>>

NoLease == [refs |-> 0, own |-> {}, under |-> {}]

Leases == [refs : Nat, own : SUBSET Layers, under : SUBSET Layers]

\* The layers a container has here: without a disk image, or on a host without
\* loop devices, cardinal starts it on a plain overlay.
Stack(c) == IF c \in imaged THEN Layers ELSE {l \in Layers : l >= Overlay}

Init ==
  /\ imaged \in SUBSET Containers
  /\ mounted \in {m \in [Containers -> SUBSET Layers] : \A c \in Containers : m[c] \in {{}, Stack(c)}}
  /\ running = {}
  /\ leftover \in [Containers -> BOOLEAN]
  /\ fm = Nobody
  /\ lmu = Nobody
  /\ active = [r \in Refs |-> NoLease]
  /\ pc = [p \in Procs |-> "idle"]
  /\ ref = [p \in Procs |-> CHOOSE r \in Refs : TRUE]
  /\ at = [p \in Procs |-> 1]
  /\ own = [p \in Procs |-> {}]
  /\ under = [p \in Procs |-> {}]
  /\ lease = {}
  /\ temporary = [c \in Containers |-> {}]

cont(p) == ContainerOf[ref[p]]

goto(p, label) == pc' = [pc EXCEPT ![p] = label]

-----------------------------------------------------------------------------
(* sftpLeases.acquire *)

\* A lease on r is in the table: join it.
join(p, r) ==
  /\ active[r].refs > 0
  /\ active' = [active EXCEPT ![r].refs = @ + 1]
  /\ lease' = lease \cup {p}
  /\ goto(p, "using")

\* The first look at the table, under l.mu alone.
AcquireFast(p, r) ==
  /\ pc[p] = "idle"
  /\ lmu = Nobody
  /\ ref' = [ref EXCEPT ![p] = r]
  /\ \/ join(p, r)
     \/ /\ active[r].refs = 0
        /\ goto(p, "missed")
        /\ UNCHANGED <<active, lease>>
  /\ UNCHANGED <<mounted, running, host, locks, at, own, under, temporary>>

AcquireLock(p) ==
  /\ pc[p] = "missed"
  /\ fm = Nobody
  /\ fm' = p
  /\ goto(p, "recheck")
  /\ UNCHANGED <<mounted, running, host, lmu, active, ref, at, own, under, lease, temporary>>

\* Mutant: the table is not looked at again under fmMountMu.
AcquireRecheck_Blind(p) ==
  /\ pc[p] = "recheck"
  /\ lmu = Nobody
  /\ lmu' = p
  /\ goto(p, "mount")
  /\ UNCHANGED <<fm, active, lease, mounted, running, host, ref, at, own, under, temporary>>

\* The second look, under both locks; l.mu stays held while the mounts are made.
AcquireRecheck(p) ==
  /\ pc[p] = "recheck"
  /\ lmu = Nobody
  /\ \/ /\ join(p, ref[p])
        /\ fm' = Nobody
        /\ UNCHANGED lmu
     \/ /\ active[ref[p]].refs = 0
        /\ lmu' = p
        /\ goto(p, "mount")
        /\ UNCHANGED <<fm, active, lease>>
  /\ UNCHANGED <<mounted, running, host, ref, at, own, under, temporary>>

-----------------------------------------------------------------------------
(* mountOverlaySession and cleanupMounts, one mount(8) call a step *)

\* Mutant: one layer too many.
hasNext_OffByOne(p) == at[p] <= Top + 1

\* There is a layer left to look at.
hasNext(p) == at[p] \in Layers

\* A running container, or somebody served through the bare path, may keep
\* files open below the mount.
mayBeBusy(p) ==
  \/ cont(p) \in running
  \/ \E q \in Procs \ {p} : pc[q] = "using" /\ cont(q) = cont(p)

\* What the mount work does about a layer and goes on: it is in the mount table,
\* left alone and not owned (without a readable state the volumes above a mounted
\* overlay are not even looked at); it is mounted and remembered; or it is the
\* disk image of a host that cannot mount one, and the plain overlay has to do.
passLayer(p, c, l) ==
  \/ /\ l \in mounted[c]
     /\ under' = [under EXCEPT ![p] = @ \cup {l}]
     /\ \/ at' = [at EXCEPT ![p] = l + 1]
        \/ l = Overlay /\ at' = [at EXCEPT ![p] = Top + 1]
     /\ UNCHANGED <<mounted, temporary, own>>
  \/ /\ l \in Stack(c) \ mounted[c]
     /\ mounted' = [mounted EXCEPT ![c] = @ \cup {l}]
     /\ temporary' = [temporary EXCEPT ![c] = @ \cup {l}]
     /\ own' = [own EXCEPT ![p] = @ \cup {l}]
     /\ under' = [under EXCEPT ![p] = @ \cup {l}]
     /\ at' = [at EXCEPT ![p] = l + 1]
  \/ /\ l \notin Stack(c)
     /\ at' = [at EXCEPT ![p] = l + 1]
     /\ UNCHANGED <<mounted, temporary, own, under>>

\* The session fails and is undone: at a layer that cannot be mounted, at any
\* volume (its target is refused before the mount table is read), or because
\* the state is unreadable and the overlay is not mounted.  A volume that was
\* bound and could not be made read-only is unmounted again; when that umount
\* fails, it stays mounted and nobody remembers it.
failLayer(p, c, l) ==
  /\ l \notin mounted[c] \/ l > Overlay \/ Overlay \notin mounted[c]
  /\ \/ UNCHANGED mounted
     \/ /\ l > Overlay
        /\ l \notin mounted[c]
        /\ mayBeBusy(p)
        /\ mounted' = [mounted EXCEPT ![c] = @ \cup {l}]
  /\ goto(p, "undo")
  /\ at' = [at EXCEPT ![p] = 1]
  /\ under' = [under EXCEPT ![p] = {}]
  /\ UNCHANGED <<temporary, own>>

\* One layer of mountOverlaySession, in the order image, overlay, volumes.
MountNext(p) ==
  /\ pc[p] = "mount"
  /\ hasNext(p)
  /\ \/ passLayer(p, cont(p), at[p]) /\ UNCHANGED pc
     \/ failLayer(p, cont(p), at[p])
  /\ UNCHANGED <<running, host, locks, active, ref, lease>>

\* Everything is mounted: acquire stores the session in the table and unlocks,
\* a file-manager request goes on with fmMountMu held.
MountDone(p) ==
  /\ pc[p] = "mount"
  /\ at[p] = Top + 1
  /\ goto(p, "using")
  /\ at' = [at EXCEPT ![p] = 1]
  /\ IF p \in Sessions
       THEN /\ active' = [active EXCEPT ![ref[p]] = [refs |-> 1, own |-> own[p], under |-> under[p]]]
            /\ own' = [own EXCEPT ![p] = {}]
            /\ under' = [under EXCEPT ![p] = {}]
            /\ lease' = lease \cup {p}
            /\ fm' = Nobody
            /\ lmu' = Nobody
       ELSE UNCHANGED <<active, own, under, lease, locks>>
  /\ UNCHANGED <<mounted, running, host, ref, temporary>>

\* umount(8) refuses a layer that something mounted on top of it still uses.
above(l, S) ==
  IF l < Overlay THEN S \cap {Overlay}
  ELSE IF l = Overlay THEN {k \in S : k > Overlay} ELSE {}

\* Mutant: the lowest layer first.
nextToUnmount_Bottom(S) == CHOOSE l \in S : \A k \in S : l <= k

\* cleanupMounts: volumes in reverse order, then the overlay, then the image.
nextToUnmount(S) == CHOOSE l \in S : \A k \in S : k <= l

\* One umount(8) call; the result is ignored and the layer forgotten.
unmountNext(p) ==
  LET c == cont(p)
      l == nextToUnmount(own[p])
      blockers == above(l, mounted[c])
      gone   == /\ blockers = {}
                /\ mounted' = [mounted EXCEPT ![c] = @ \ {l}]
                /\ temporary' = [temporary EXCEPT ![c] = @ \ {l}]
      busy   == /\ blockers = {} => mayBeBusy(p)
                /\ UNCHANGED mounted
                /\ temporary' = IF blockers # {} /\ blockers \subseteq temporary[c]
                                THEN temporary
                                ELSE [temporary EXCEPT ![c] = @ \ {l}]
  IN /\ own[p] # {}
     /\ gone \/ busy
     /\ own' = [own EXCEPT ![p] = @ \ {l}]

\* Mutant: the error return of a request leaves fmMountMu locked.
Undo_Locked(p) ==
  /\ pc[p] = "undo"
  /\ \/ /\ unmountNext(p)
        /\ UNCHANGED <<pc, locks>>
     \/ /\ own[p] = {}
        /\ goto(p, IF p \in Sessions THEN "fallback" ELSE "idle")
        /\ fm' = IF p \in Sessions THEN Nobody ELSE fm
        /\ lmu' = IF p \in Sessions THEN Nobody ELSE lmu
        /\ UNCHANGED <<mounted, temporary, own>>
  /\ UNCHANGED <<running, host, active, ref, at, under, lease>>

\* closeWithError, then the error return: acquire unlocks both mutexes and
\* ensureDataRoot tries the bare path; a request is answered with the error.
Undo(p) ==
  /\ pc[p] = "undo"
  /\ \/ /\ unmountNext(p)
        /\ UNCHANGED <<pc, locks>>
     \/ /\ own[p] = {}
        /\ goto(p, IF p \in Sessions THEN "fallback" ELSE "idle")
        /\ fm' = Nobody
        /\ lmu' = IF p \in Sessions THEN Nobody ELSE lmu
        /\ UNCHANGED <<mounted, temporary, own>>
  /\ UNCHANGED <<running, host, active, ref, at, under, lease>>

\* ensureDataRoot without a lease: containerDataRoot takes any directory that
\* exists and has content, with no lock and nothing to release.
Fallback(p) ==
  /\ pc[p] = "fallback"
  /\ goto(p, IF Overlay \in mounted[cont(p)] \/ leftover[cont(p)] THEN "using" ELSE "idle")
  /\ UNCHANGED <<mounted, running, host, locks, active, ref, at, own, under, lease, temporary>>

-----------------------------------------------------------------------------
(* The end of a session or request *)

\* The SFTP server, the backup or the handler returns.
End(p) ==
  /\ pc[p] = "using"
  /\ goto(p, IF p \in Requests THEN "close" ELSE IF p \in lease THEN "release" ELSE "idle")
  /\ under' = [under EXCEPT ![p] = {}]
  /\ UNCHANGED <<mounted, running, host, locks, active, ref, at, own, lease, temporary>>

ReleaseLock(p) ==
  /\ pc[p] = "release"
  /\ fm = Nobody
  /\ fm' = p
  /\ goto(p, "decref")
  /\ UNCHANGED <<mounted, running, host, lmu, active, ref, at, own, under, lease, temporary>>

\* Mutant: the session is closed at every release.
last_Always(r) == TRUE

\* The reference that is given back is the last one.
last(r) == active[r].refs = 1

\* release under l.mu: drop one reference; the last one takes the session out
\* of the table and closes it, still under fmMountMu.
ReleaseRef(p) ==
  LET r == ref[p] IN
  /\ pc[p] = "decref"
  /\ lmu = Nobody
  /\ lease' = lease \ {p}
  /\ \/ /\ last(r)
        /\ own' = [own EXCEPT ![p] = active[r].own]
        /\ active' = [active EXCEPT ![r] = NoLease]
        /\ goto(p, "close")
        /\ UNCHANGED fm
     \/ /\ active[r].refs # 1
        /\ active' = [active EXCEPT ![r].refs = IF @ > 0 THEN @ - 1 ELSE 0]
        /\ goto(p, "idle")
        /\ fm' = Nobody
        /\ UNCHANGED own
  /\ UNCHANGED <<mounted, running, host, lmu, ref, at, under, temporary>>

\* fmSession.Close: cleanupMounts, then fmMountMu is released.
Close(p) ==
  /\ pc[p] = "close"
  /\ \/ /\ unmountNext(p)
        /\ UNCHANGED <<pc, fm>>
     \/ /\ own[p] = {}
        /\ goto(p, "idle")
        /\ fm' = Nobody
        /\ UNCHANGED <<mounted, temporary, own>>
  /\ UNCHANGED <<running, host, lmu, active, ref, at, under, lease>>

\* beginFMSession.
BeginRequest(p, r) ==
  /\ pc[p] = "idle"
  /\ fm = Nobody
  /\ fm' = p
  /\ ref' = [ref EXCEPT ![p] = r]
  /\ goto(p, "mount")
  /\ UNCHANGED <<mounted, running, host, lmu, active, at, own, under, lease, temporary>>

-----------------------------------------------------------------------------
(* The rest of the host *)

\* cardinal start mounts what is missing; cardinal stop leaves it in place.
CardinalStart(c) ==
  /\ c \notin running
  /\ running' = running \cup {c}
  /\ mounted' = [mounted EXCEPT ![c] = @ \cup Stack(c)]
  /\ UNCHANGED <<host, locks, active, users, temporary>>

CardinalStop(c) ==
  /\ c \in running
  /\ running' = running \ {c}
  /\ UNCHANGED <<mounted, host, locks, active, users, temporary>>

\* The daemon is restarted (the mounts stay) or the host reboots (they go).
\* Wings keeps no record of its temporary mounts.
Restart ==
  /\ \/ UNCHANGED <<mounted, running>>
     \/ mounted' = [c \in Containers |-> {}] /\ running' = {}
  /\ fm' = Nobody
  /\ lmu' = Nobody
  /\ active' = [r \in Refs |-> NoLease]
  /\ pc' = [p \in Procs |-> "idle"]
  /\ at' = [p \in Procs |-> 1]
  /\ own' = [p \in Procs |-> {}]
  /\ under' = [p \in Procs |-> {}]
  /\ lease' = {}
  /\ temporary' = [c \in Containers |-> {}]
  /\ UNCHANGED <<host, ref>>

Acquire(p) == (\E r \in Refs : AcquireFast(p, r)) \/ AcquireLock(p) \/ AcquireRecheck(p)
MountWork(p) == MountNext(p) \/ MountDone(p) \/ Undo(p) \/ Close(p)
Release(p) == ReleaseLock(p) \/ ReleaseRef(p)

Next ==
  \/ \E p \in Sessions : Acquire(p) \/ Fallback(p) \/ Release(p)
  \/ \E p \in Requests, r \in Refs : BeginRequest(p, r)
  \/ \E p \in Procs : MountWork(p) \/ End(p)
  \/ \E c \in Containers : CardinalStart(c) \/ CardinalStop(c)
  \/ Restart

Spec == Init /\ [][Next]_vars

\* Goroutines run, mount(8) returns, a handler that is using the files ends;
\* sync.Mutex hands over to a waiter that has starved (strong fairness).
Fairness ==
  /\ \A p \in Sessions : /\ SF_vars(AcquireLock(p) \/ ReleaseLock(p))
                         /\ WF_vars(AcquireRecheck(p) \/ ReleaseRef(p) \/ Fallback(p))
  /\ \A p \in Procs : WF_vars(MountWork(p))
  /\ \A p \in Requests : WF_vars(End(p))

FairSpec == Spec /\ Fairness
-----------------------------------------------------------------------------
TypeOK ==
  /\ mounted \in [Containers -> SUBSET Layers]
  /\ running \subseteq Containers
  /\ leftover \in [Containers -> BOOLEAN]
  /\ imaged \subseteq Containers
  /\ fm \in Procs \cup {Nobody}
  /\ lmu \in Sessions \cup {Nobody}
  /\ active \in [Refs -> Leases]
  /\ pc \in [Procs -> {"idle", "missed", "recheck", "mount", "undo", "fallback",
                       "using", "release", "decref", "close"}]
  /\ ref \in [Procs -> Refs]
  /\ at \in [Procs -> 1..(Top + 1)]
  /\ own \in [Procs -> SUBSET Layers]
  /\ under \in [Procs -> SUBSET Layers]
  /\ lease \subseteq Sessions
  /\ temporary \in [Containers -> SUBSET Layers]

Holders(r) == {p \in lease : ref[p] = r}

\* Users that were given a root they may rely on: through a lease, or as a
\* file-manager request that holds fmMountMu.
Served(c) == {p \in Procs : pc[p] = "using" /\ cont(p) = c /\ (p \in lease \/ p \in Requests)}

\* What the root a user was given lies over.
rootOf(p) == IF p \in Requests THEN under[p] ELSE active[ref[p]].under

\* The layers no root does without: the overlay and, where there is one that can
\* be mounted, the disk image below it.
Base(c) == {l \in Stack(c) : l <= Overlay}

\* "Concurrent sessions share one mounted overlay; it is unmounted only when the
\* last session ends", "concurrent file-manager requests cannot unmount each
\* other": the overlay and its disk image are mounted under every user that was
\* given a root, and so is every volume that was mounted or found when the root
\* was prepared, whatever the other sessions, requests and failures do meanwhile.
\* (Volumes are passed over while the state of the container is unreadable.)
ServedFromMount ==
  \A c \in Containers : \A p \in Served(c) :
    Base(c) \subseteq rootOf(p) /\ rootOf(p) \subseteq mounted[c]

\* The count in the lease table is the number of release functions outstanding:
\* it never reaches zero early, and no entry stays behind.
RefsCountHolders ==
  \A r \in Refs : active[r].refs = Cardinality(Holders(r))

\* Every layer wings mounted temporarily has an owner that will unmount it: the
\* lease entry, or the session somebody has in hand.  None is lost when a later
\* mount fails, when the table is updated, or by the order of the unmounts.
TemporaryHasOwner ==
  \A c \in Containers : \A l \in temporary[c] :
    \/ \E r \in Refs : ContainerOf[r] = c /\ l \in active[r].own
    \/ \E p \in Procs : cont(p) = c /\ l \in own[p]

\* The leases implement the shared mount of every container: Shared(c)!Spec, with
\* the quantifier inside the box.
Shared(c) == INSTANCE SharedMount WITH
  Users <- Procs, up <- (Overlay \in mounted[c]), users <- Served(c)

ImplementsSharedMount ==
  /\ \A c \in Containers : Shared(c)!Init
  /\ [][\A c \in Containers : Shared(c)!Next \/ UNCHANGED Shared(c)!vars]_vars

\* Nobody waits for ever: a caller that queues for fmMountMu, to acquire or to
\* release, gets its answer (a request ends, and mount work is finite).
WaitersProceed ==
  \A p \in Sessions : pc[p] \in {"missed", "release"} ~> pc[p] \in {"using", "idle"}
=============================================================================
