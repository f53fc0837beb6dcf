----------------------------- MODULE LeaseProofs ----------------------------
(***************************************************************************)
(* The mount leases, and the sessions that start a container.  First the   *)
(* safety of the leases for any number of sessions, requests, containers   *)
(* and layers, under the assumption the lease table makes without saying so: *)
(* a container is always addressed by the same ref.  Then temporary starts: *)
(* they are steps of the leases, so everything proved of the leases holds  *)
(* with them.                                                              *)
(***************************************************************************)
EXTENDS TempStart, FiniteSetTheorems, WellFoundedInduction, TLAPS

\* p is inside a section that fmMountMu protects.
HoldsFm(p) ==
  \/ pc[p] \in {"recheck", "mount", "undo", "decref", "close"}
  \/ p \in Requests /\ pc[p] = "using"

\* Mutual exclusion on fmMountMu.
FmExcludes == \A p \in Procs : HoldsFm(p) => fm = p

\* Where a user may be when it has a lease, mounts of its own, or none of them.
HandlerShape ==
  \A p \in Procs :
    /\ p \in lease => pc[p] \in {"using", "release", "decref"} /\ own[p] = {}
    /\ pc[p] \in {"release", "decref"} => p \in lease
    /\ p \in Requests => pc[p] \in {"idle", "mount", "undo", "using", "close"}
    /\ own[p] # {} => HoldsFm(p) /\ pc[p] \in {"mount", "undo", "close", "using"}

\* The layers a mount call has passed are there, but for a disk image that cannot
\* be mounted and volumes; what it found or mounted is still there.
Progress(p) ==
  /\ pc[p] = "mount" => /\ under[p] \subseteq mounted[cont(p)]
                        /\ \A l \in Base(cont(p)) : l < at[p] => l \in under[p]
  /\ pc[p] # "mount" => at[p] = 1
  /\ p \in Requests /\ pc[p] = "using" => Base(cont(p)) \subseteq under[p]
  /\ under[p] # {} => pc[p] = "mount" \/ (p \in Requests /\ pc[p] = "using")

MountProgress == \A p \in Procs : Progress(p)

\* An entry of the table carries mounts only while it is referenced, and nobody
\* mounts for a ref that is in the table.
TableShape ==
  /\ \A r \in Refs : active[r].refs = 0 => active[r].own = {}
  /\ \A r \in Refs : active[r].refs # 0 => Base(ContainerOf[r]) \subseteq active[r].under
  /\ \A p \in Sessions : pc[p] \in {"mount", "undo"} => active[ref[p]].refs = 0

\* Wings mounts nothing that is not a layer of the container.
OwnLayers ==
  /\ \A p \in Procs : own[p] \subseteq Stack(cont(p))
  /\ \A r \in Refs : active[r].own \subseteq Stack(ContainerOf[r])

Shape == TypeOK /\ FmExcludes /\ HandlerShape /\ MountProgress /\ TableShape /\ OwnLayers

\* The layers a user relies on: those under the root it was given, until it has
\* given its reference back.
relies(p) ==
  IF p \in lease THEN active[ref[p]].under
  ELSE IF p \in Requests /\ pc[p] = "using" THEN under[p] ELSE {}

\* Whatever somebody relies on is mounted.
ReliedUpon == \A p \in Procs : relies(p) \subseteq mounted[cont(p)]

\* Whoever is about to unmount a layer is the only one that relies on it.
OwnersAlone ==
  \A p, q \in Procs : p # q /\ cont(p) = cont(q) => own[p] \cap relies(q) = {}

IInv == Shape /\ RefsCountHolders /\ ReliedUpon /\ OwnersAlone /\ TemporaryHasOwner

\* The container of a user is one of the containers.
LEMMA ContType == ASSUME TypeOK, NEW p \in Procs PROVE cont(p) \in Containers
  BY RefsAssumption DEF TypeOK, cont

\* A set of layers has a highest one, which is unmounted first.
LEMMA HighestFirst ==
  ASSUME NEW S \in SUBSET Layers, S # {}
  PROVE  /\ nextToUnmount(S) \in S
         /\ \A k \in S : k <= nextToUnmount(S)
<1> DEFINE T == {Top - k : k \in S}
           R == {ss \in Nat \X Nat : ss[1] < ss[2]}
<1>1. T \subseteq Nat
  BY StackAssumption DEF Layers
<1>2. PICK n \in T : \A m \in T : n <= m
  <2>1. IsWellFoundedOn(R, Nat)
    BY NatLessThanWellFounded DEF OpToRel
  <2>2. T # {}
    OBVIOUS
  <2> HIDE DEF T, R
  <2>3. \E n \in T : \A m \in T : ~ (<<m, n>> \in R)
    BY <1>1, <2>1, <2>2, WFMin
  <2>4. \A n, m \in T : ~ (<<m, n>> \in R) => n <= m
    BY <1>1 DEF R
  <2> QED
    BY <2>3, <2>4
<1> HIDE DEF T, R
<1>3. PICK l \in S : n = Top - l
  BY <1>2 DEF T
<1>4. \A k \in S : Top - k \in T
  BY DEF T
<1>5. \A k \in S : k <= l
  <2>1. SUFFICES ASSUME NEW k \in S PROVE k <= l
    OBVIOUS
  <2>2. Top - l <= Top - k
    BY <1>2, <1>3, <1>4
  <2>3. k \in Nat /\ l \in Nat /\ Top \in Nat
    BY StackAssumption DEF Layers
  <2> QED
    BY <2>2, <2>3
<1> QED
  BY <1>5 DEF nextToUnmount

\* Unmounting takes layers away, whichever way it goes.
LEMMA UnmountEffect ==
  ASSUME TypeOK, NEW p \in Procs, unmountNext(p)
  PROVE  /\ mounted' \in [Containers -> SUBSET Layers]
         /\ temporary' \in [Containers -> SUBSET Layers]
         /\ own' \in [Procs -> SUBSET Layers]
         /\ own[p] # {} /\ own'[p] \subseteq own[p]
         /\ \A q \in Procs : q # p => own'[q] = own[q]
         /\ \A c \in Containers : c # cont(p) =>
              mounted'[c] = mounted[c] /\ temporary'[c] = temporary[c]
         /\ \A c \in Containers : mounted'[c] \subseteq mounted[c]
         /\ mounted[cont(p)] \subseteq mounted'[cont(p)] \cup own[p]
<1> DEFINE c == cont(p)
           l == nextToUnmount(own[p])
<1>1. c \in Containers
  BY ContType
<1>2. own[p] # {} /\ own' = [own EXCEPT ![p] = own[p] \ {l}]
  BY DEF unmountNext
<1>3. \/ mounted' = mounted
      \/ mounted' = [mounted EXCEPT ![c] = mounted[c] \ {l}]
  BY DEF unmountNext
<1>4. \/ temporary' = temporary
      \/ temporary' = [temporary EXCEPT ![c] = temporary[c] \ {l}]
  BY DEF unmountNext
<1>9. l \in own[p]
  BY <1>2, HighestFirst DEF TypeOK
<1> HIDE DEF c, l
<1>10. /\ \A d \in Containers : mounted'[d] \subseteq mounted[d]
       /\ mounted[c] \subseteq mounted'[c] \cup own[p]
  BY <1>1, <1>3, <1>9 DEF TypeOK
<1>5. mounted' \in [Containers -> SUBSET Layers]
  BY <1>1, <1>3 DEF TypeOK
<1>6. temporary' \in [Containers -> SUBSET Layers]
  BY <1>1, <1>4 DEF TypeOK
<1>7. own' \in [Procs -> SUBSET Layers]
  BY <1>2 DEF TypeOK
<1>8. \A d \in Containers : d # c => mounted'[d] = mounted[d] /\ temporary'[d] = temporary[d]
  BY <1>1, <1>3, <1>4 DEF TypeOK
<1> QED
  BY <1>2, <1>5, <1>6, <1>7, <1>8, <1>10 DEF TypeOK, c

\* What going on with the next layer does.
LEMMA PassEffect ==
  ASSUME TypeOK, NEW p \in Procs, NEW c \in Containers, NEW l \in Layers,
         at[p] = l, passLayer(p, c, l)
  PROVE  /\ at' \in [Procs -> 1..(Top + 1)]
         /\ mounted' \in [Containers -> SUBSET Layers]
         /\ temporary' \in [Containers -> SUBSET Layers]
         /\ own' \in [Procs -> SUBSET Layers] /\ under' \in [Procs -> SUBSET Layers]
         /\ \A q \in Procs : q # p => at'[q] = at[q] /\ own'[q] = own[q] /\ under'[q] = under[q]
         /\ \A d \in Containers : mounted[d] \subseteq mounted'[d]
         /\ own[p] \subseteq own'[p] /\ own'[p] \subseteq own[p] \cup (Stack(c) \ mounted[c])
         /\ under[p] \subseteq under'[p] /\ under'[p] \subseteq under[p] \cup mounted'[c]
         /\ \A k \in Base(c) : k < at'[p] => k < l \/ k \in under'[p]
         /\ \A d \in Containers : d # c => temporary'[d] = temporary[d]
         /\ temporary'[c] \subseteq temporary[c] \cup own'[p]
<1> USE StackAssumption DEF Layers
<1>0. l \in Nat /\ Overlay \in Nat /\ l + 1 \in 1..(Top + 1) /\ Top + 1 \in 1..(Top + 1)
  OBVIOUS
<1>1. CASE l \in mounted[c] /\ UNCHANGED <<mounted, temporary, own>>
            /\ under' = [under EXCEPT ![p] = @ \cup {l}]
            /\ (at' = [at EXCEPT ![p] = l + 1] \/ (l = Overlay /\ at' = [at EXCEPT ![p] = Top + 1]))
  <2>1. under' \in [Procs -> SUBSET Layers] /\ under'[p] = under[p] \cup {l}
        /\ \A q \in Procs : q # p => under'[q] = under[q]
    BY <1>1 DEF TypeOK
  <2>2. at' \in [Procs -> 1..(Top + 1)] /\ \A q \in Procs : q # p => at'[q] = at[q]
    BY <1>0, <1>1 DEF TypeOK
  <2>3. \A k \in Base(c) : k < at'[p] => k < l \/ k \in under'[p]
    <3>1. CASE at' = [at EXCEPT ![p] = l + 1]
      BY <1>0, <2>1, <3>1 DEF TypeOK, Base, Stack
    <3>2. CASE l = Overlay /\ at' = [at EXCEPT ![p] = Top + 1]
      BY <1>0, <2>1, <3>2 DEF TypeOK, Base, Stack
    <3> QED
      BY <1>1, <3>1, <3>2
  <2> QED
    BY <1>1, <2>1, <2>2, <2>3 DEF TypeOK
<1>2. CASE /\ l \in Stack(c) \ mounted[c]
           /\ mounted' = [mounted EXCEPT ![c] = @ \cup {l}]
           /\ temporary' = [temporary EXCEPT ![c] = @ \cup {l}]
           /\ own' = [own EXCEPT ![p] = @ \cup {l}]
           /\ under' = [under EXCEPT ![p] = @ \cup {l}]
           /\ at' = [at EXCEPT ![p] = l + 1]
  <2>1. under' \in [Procs -> SUBSET Layers] /\ under'[p] = under[p] \cup {l}
        /\ \A q \in Procs : q # p => under'[q] = under[q]
    BY <1>2 DEF TypeOK
  <2>2. own' \in [Procs -> SUBSET Layers] /\ own'[p] = own[p] \cup {l}
        /\ \A q \in Procs : q # p => own'[q] = own[q]
    BY <1>2 DEF TypeOK
  <2>3. mounted' \in [Containers -> SUBSET Layers] /\ mounted'[c] = mounted[c] \cup {l}
        /\ \A d \in Containers : d # c => mounted'[d] = mounted[d]
    BY <1>2 DEF TypeOK
  <2>4. temporary' \in [Containers -> SUBSET Layers] /\ temporary'[c] = temporary[c] \cup {l}
        /\ \A d \in Containers : d # c => temporary'[d] = temporary[d]
    BY <1>2 DEF TypeOK
  <2>5. at' \in [Procs -> 1..(Top + 1)] /\ at'[p] = l + 1 /\ \A q \in Procs : q # p => at'[q] = at[q]
    BY <1>0, <1>2 DEF TypeOK
  <2>6. \A k \in Base(c) : k < at'[p] => k < l \/ k \in under'[p]
    BY <1>0, <2>1, <2>5 DEF Base, Stack
  <2>7. \A d \in Containers : mounted[d] \subseteq mounted'[d]
    BY <2>3
  <2> QED
    BY <1>2, <2>1, <2>2, <2>3, <2>4, <2>5, <2>6, <2>7
<1>3. CASE l \notin Stack(c) /\ at' = [at EXCEPT ![p] = l + 1]
           /\ UNCHANGED <<mounted, temporary, own, under>>
  <2>1. at' \in [Procs -> 1..(Top + 1)] /\ at'[p] = l + 1 /\ \A q \in Procs : q # p => at'[q] = at[q]
    BY <1>0, <1>3 DEF TypeOK
  <2>2. \A k \in Base(c) : k < at'[p] => k < l \/ k \in under'[p]
    BY <1>0, <1>3, <2>1 DEF Base, Stack
  <2> QED
    BY <1>3, <2>1, <2>2 DEF TypeOK
<1> QED
  BY <1>1, <1>2, <1>3 DEF passLayer

\* What a layer that fails does: at most a mount that nobody owns stays.
LEMMA FailEffect ==
  ASSUME TypeOK, NEW p \in Procs, NEW c \in Containers, NEW l \in Layers, failLayer(p, c, l)
  PROVE  /\ pc' = [pc EXCEPT ![p] = "undo"]
         /\ at' \in [Procs -> 1..(Top + 1)] /\ under' \in [Procs -> SUBSET Layers]
         /\ mounted' \in [Containers -> SUBSET Layers]
         /\ at'[p] = 1 /\ under'[p] = {}
         /\ \A q \in Procs : q # p => at'[q] = at[q] /\ under'[q] = under[q]
         /\ \A d \in Containers : mounted[d] \subseteq mounted'[d]
         /\ UNCHANGED <<temporary, own>>
<1>1. 1 \in 1..(Top + 1)
  BY StackAssumption DEF Layers
<1>2. mounted' = mounted \/ mounted' = [mounted EXCEPT ![c] = @ \cup {l}]
  BY DEF failLayer
<1>3. mounted' \in [Containers -> SUBSET Layers] /\ \A d \in Containers : mounted[d] \subseteq mounted'[d]
  BY <1>2 DEF TypeOK
<1> QED
  BY <1>1, <1>3 DEF failLayer, goto, TypeOK

\* What looking at the next layer does, either way.
LEMMA MountEffect ==
  ASSUME TypeOK, NEW p \in Procs, MountNext(p)
  PROVE  /\ pc[p] = "mount" /\ at[p] \in Layers /\ cont(p) \in Containers
         /\ at' \in [Procs -> 1..(Top + 1)]
         /\ mounted' \in [Containers -> SUBSET Layers]
         /\ temporary' \in [Containers -> SUBSET Layers]
         /\ own' \in [Procs -> SUBSET Layers] /\ under' \in [Procs -> SUBSET Layers]
         /\ \A q \in Procs : q # p =>
              pc'[q] = pc[q] /\ at'[q] = at[q] /\ own'[q] = own[q] /\ under'[q] = under[q]
         /\ pc' \in {pc, [pc EXCEPT ![p] = "undo"]}
         /\ \/ /\ pc'[p] = "mount" /\ under[p] \subseteq under'[p]
               /\ under'[p] \subseteq under[p] \cup mounted'[cont(p)]
               /\ \A k \in Base(cont(p)) : k < at'[p] => k < at[p] \/ k \in under'[p]
            \/ pc'[p] = "undo" /\ at'[p] = 1 /\ under'[p] = {}
         /\ \A d \in Containers : mounted[d] \subseteq mounted'[d]
         /\ own[p] \subseteq own'[p]
         /\ own'[p] \subseteq own[p] \cup (Stack(cont(p)) \ mounted[cont(p)])
         /\ \A d \in Containers : d # cont(p) => temporary'[d] = temporary[d]
         /\ temporary'[cont(p)] \subseteq temporary[cont(p)] \cup own'[p]
         /\ UNCHANGED <<running, host, locks, active, ref, lease>>
<1>1. /\ pc[p] = "mount" /\ at[p] \in Layers /\ cont(p) \in Containers
      /\ UNCHANGED <<running, host, locks, active, ref, lease>>
  BY ContType DEF MountNext, hasNext
<1>2. CASE passLayer(p, cont(p), at[p]) /\ UNCHANGED pc
  BY <1>1, <1>2, PassEffect
<1>3. CASE failLayer(p, cont(p), at[p])
  <2>1. pc' = [pc EXCEPT ![p] = "undo"]
    BY <1>1, <1>3, FailEffect
  <2>2. pc'[p] = "undo" /\ \A q \in Procs : q # p => pc'[q] = pc[q]
    BY <2>1 DEF TypeOK
  <2> QED
    BY <1>1, <1>3, <2>1, <2>2, FailEffect DEF TypeOK
<1> QED
  BY <1>2, <1>3 DEF MountNext

\* Joining a lease adds one to the count of its entry.
LEMMA JoinEffect ==
  ASSUME TypeOK, NEW p \in Procs, NEW r \in Refs, join(p, r)
  PROVE  /\ active' \in [Refs -> Leases]
         /\ active[r].refs > 0 /\ active'[r].refs = active[r].refs + 1
         /\ active[r].refs # 0 /\ active'[r].refs # 0
         /\ active'[r].own = active[r].own /\ active'[r].under = active[r].under
         /\ \A s \in Refs : s # r => active'[s] = active[s]
         /\ lease' = lease \cup {p}
         /\ pc' = [pc EXCEPT ![p] = "using"]
<1> DEFINE e == [active[r] EXCEPT !.refs = @ + 1]
<1>1. active[r] \in Leases
  BY DEF TypeOK
<1>2. e \in Leases
  BY <1>1 DEF Leases
<1>3. active' = [active EXCEPT ![r] = e]
  BY DEF join
<1>4. /\ e.refs = active[r].refs + 1 /\ e.own = active[r].own /\ e.under = active[r].under
      /\ active[r].refs > 0 => active[r].refs # 0 /\ e.refs # 0
  BY <1>1 DEF Leases
<1> HIDE DEF e
<1>5. active' \in [Refs -> Leases]
  BY <1>2, <1>3 DEF TypeOK
<1>6. active'[r] = e /\ \A s \in Refs : s # r => active'[s] = active[s]
  BY <1>3 DEF TypeOK
<1> QED
  BY <1>4, <1>5, <1>6 DEF join, goto

\* Only the user p moves.
Others(p) ==
  \A q \in Procs : q # p =>
    /\ pc'[q] = pc[q] /\ own'[q] = own[q] /\ at'[q] = at[q] /\ ref'[q] = ref[q]
    /\ under'[q] = under[q]
    /\ q \in lease' <=> q \in lease

\* What the first look at the table does (sftpLeases.acquire).
LEMMA AcquireFastEffect ==
  ASSUME TypeOK, NEW p \in Sessions, NEW r \in Refs, AcquireFast(p, r)
  PROVE  /\ pc[p] = "idle" /\ ref'[p] = r /\ Others(p)
         /\ \/ join(p, r) /\ pc'[p] = "using" /\ p \in lease'
            \/ pc'[p] = "missed" /\ UNCHANGED <<active, lease>>
         /\ \A q \in lease' : q \in lease \/ q = p
         /\ \A s \in Refs : active'[s].own = active[s].own /\ active'[s].under = active[s].under
         /\ \A s \in Refs : active'[s].refs = 0 => active[s].refs = 0
         /\ \A s \in Refs : active[s].refs = 0 => active'[s].refs = 0
         /\ UNCHANGED <<mounted, running, host, locks, at, own, under, temporary>>
<1>1. p \in Procs /\ p \notin Requests
  BY ProcsAssumption DEF Procs
<1>2. CASE join(p, r)
  BY <1>1, <1>2, JoinEffect DEF AcquireFast, TypeOK, Others
<1>3. CASE ~join(p, r)
  BY <1>1, <1>3 DEF AcquireFast, TypeOK, Others, goto
<1> QED
  BY <1>2, <1>3

\* What the second look at the table does (sftpLeases.acquire).
LEMMA AcquireRecheckEffect ==
  ASSUME TypeOK, NEW p \in Sessions, AcquireRecheck(p)
  PROVE  /\ pc[p] = "recheck" /\ Others(p)
         /\ \/ join(p, ref[p]) /\ pc'[p] = "using" /\ p \in lease' /\ fm' = Nobody
            \/ /\ pc'[p] = "mount" /\ active[ref[p]].refs = 0
               /\ UNCHANGED <<active, lease, fm>>
         /\ \A q \in lease' : q \in lease \/ q = p
         /\ \A s \in Refs : active'[s].own = active[s].own /\ active'[s].under = active[s].under
         /\ \A s \in Refs : active'[s].refs = 0 => active[s].refs = 0
         /\ \A s \in Refs : active[s].refs = 0 => active'[s].refs = 0
         /\ UNCHANGED <<mounted, running, host, at, own, under, ref, temporary>>
<1>1. p \in Procs /\ p \notin Requests /\ ref[p] \in Refs
  BY ProcsAssumption DEF Procs, TypeOK
<1>2. CASE join(p, ref[p])
  BY <1>1, <1>2, JoinEffect DEF AcquireRecheck, TypeOK, Others
<1>3. CASE ~join(p, ref[p])
  BY <1>1, <1>3 DEF AcquireRecheck, TypeOK, Others, goto
<1> QED
  BY <1>2, <1>3

\* What giving back a reference does (sftpLeases.release).
LEMMA ReleaseEffect ==
  ASSUME TypeOK, NEW p \in Sessions, ReleaseRef(p)
  PROVE  /\ pc[p] = "decref" /\ Others(p) /\ p \notin lease' /\ ref[p] \in Refs
         /\ lease' = lease \ {p}
         /\ active' \in [Refs -> Leases]
         /\ \/ /\ active[ref[p]].refs = 1 /\ active'[ref[p]] = NoLease
               /\ own'[p] = active[ref[p]].own /\ pc'[p] = "close" /\ fm' = fm
            \/ /\ active[ref[p]].refs # 1 /\ active'[ref[p]].own = active[ref[p]].own
               /\ active'[ref[p]].under = active[ref[p]].under
               /\ active[ref[p]].refs > 0 => active'[ref[p]].refs = active[ref[p]].refs - 1
               /\ active[ref[p]].refs = 0 => active'[ref[p]].refs = 0
               /\ own'[p] = own[p] /\ pc'[p] = "idle" /\ fm' = Nobody
         /\ \A s \in Refs : s # ref[p] => active'[s] = active[s]
         /\ own' \in [Procs -> SUBSET Layers]
         /\ pc' = [pc EXCEPT ![p] = pc'[p]] /\ fm' \in {fm, Nobody}
         /\ UNCHANGED <<mounted, running, host, lmu, ref, at, under, temporary>>
<1> DEFINE r == ref[p]
           n == IF active[r].refs > 0 THEN active[r].refs - 1 ELSE 0
           e == [active[r] EXCEPT !.refs = n]
<1>1. p \in Procs /\ r \in Refs /\ active[r] \in Leases
  BY DEF Procs, TypeOK
<1>2. e \in Leases /\ NoLease \in Leases
  BY <1>1 DEF NoLease, Leases
<1>3. e.own = active[r].own /\ e.refs = n /\ e.under = active[r].under
  BY <1>1 DEF Leases
<1>4. CASE active[r].refs = 1
  <2>1. /\ active' = [active EXCEPT ![r] = NoLease] /\ own' = [own EXCEPT ![p] = active[r].own]
        /\ pc' = [pc EXCEPT ![p] = "close"] /\ fm' = fm
    BY <1>4 DEF ReleaseRef, last, goto
  <2>2. active[r].own \in SUBSET Layers
    BY <1>1 DEF Leases
  <2> QED
    BY <1>1, <1>2, <1>4, <2>1, <2>2 DEF ReleaseRef, TypeOK, Others
<1>5. CASE active[r].refs # 1
  <2>1. /\ active' = [active EXCEPT ![r] = e] /\ own' = own
        /\ pc' = [pc EXCEPT ![p] = "idle"] /\ fm' = Nobody
    BY <1>5 DEF ReleaseRef, last, goto
  <2> HIDE DEF e
  <2>2. active' \in [Refs -> Leases] /\ active'[r] = e
        /\ \A s \in Refs : s # r => active'[s] = active[s]
    BY <1>1, <1>2, <2>1 DEF TypeOK
  <2>3. active[r].refs > 0 => n = active[r].refs - 1
    OBVIOUS
  <2>4. active[r].refs = 0 => n = 0
    OBVIOUS
  <2> HIDE DEF n
  <2> QED
    BY <1>1, <1>3, <1>5, <2>1, <2>2, <2>3, <2>4 DEF ReleaseRef, TypeOK, Others
<1> QED
  BY <1>4, <1>5

\* What storing the mounted session in the table does (sftpLeases.acquire).
LEMMA DoneEffect ==
  ASSUME TypeOK, NEW p \in Procs, MountDone(p)
  PROVE  /\ pc[p] = "mount" /\ at[p] = Top + 1 /\ Others(p) /\ ref[p] \in Refs
         /\ pc'[p] = "using" /\ at'[p] = 1
         /\ \/ /\ p \in Sessions /\ own'[p] = {} /\ lease' = lease \cup {p}
               /\ active'[ref[p]].refs = 1 /\ active'[ref[p]].own = own[p]
               /\ active'[ref[p]].under = under[p] /\ under'[p] = {}
               /\ fm' = Nobody /\ lmu' = Nobody
            \/ p \notin Sessions /\ UNCHANGED <<active, own, under, lease, fm, lmu>>
         /\ \A s \in Refs : s # ref[p] => active'[s] = active[s]
         /\ UNCHANGED <<mounted, running, host, ref, temporary>>
<1>1. ref[p] \in Refs /\ p \in Procs
  BY DEF TypeOK
<1> QED
  BY <1>1 DEF MountDone, TypeOK, Others, locks, goto

\* Every step keeps the variables in their types.
LEMMA TypePreserved == ASSUME TypeOK, [Next]_vars PROVE TypeOK'
<1> USE ProcsAssumption, RefsAssumption, StackAssumption
    DEF users, host, locks, goto, NoLease, Leases
<1>1. ASSUME NEW p \in Sessions, NEW r \in Refs, AcquireFast(p, r) PROVE TypeOK'
  <2>1. active' \in [Refs -> Leases]
    BY <1>1, JoinEffect DEF AcquireFast, TypeOK, Procs
  <2> QED
    BY <1>1, <2>1 DEF AcquireFast, join, TypeOK, Procs
<1>2. ASSUME NEW p \in Sessions, AcquireLock(p) PROVE TypeOK'
  BY <1>2 DEF AcquireLock, TypeOK, Procs
<1>3. ASSUME NEW p \in Sessions, AcquireRecheck(p) PROVE TypeOK'
  <2>1. ref[p] \in Refs
    BY DEF TypeOK, Procs
  <2>2. active' \in [Refs -> Leases]
    BY <1>3, <2>1, JoinEffect DEF AcquireRecheck, TypeOK, Procs
  <2> QED
    BY <1>3, <2>2 DEF AcquireRecheck, join, TypeOK, Procs
<1>4. ASSUME NEW p \in Sessions, Fallback(p) PROVE TypeOK'
  BY <1>4 DEF Fallback, TypeOK, Procs
<1>5. ASSUME NEW p \in Sessions, ReleaseLock(p) PROVE TypeOK'
  BY <1>5 DEF ReleaseLock, TypeOK, Procs
<1>6. ASSUME NEW p \in Sessions, ReleaseRef(p) PROVE TypeOK'
  <2>1. /\ active' \in [Refs -> Leases]
        /\ own' \in [Procs -> SUBSET Layers] /\ fm' \in {fm, Nobody}
        /\ lease' = lease \ {p} /\ pc' = [pc EXCEPT ![p] = pc'[p]]
        /\ pc'[p] \in {"close", "idle"}
        /\ UNCHANGED <<mounted, running, host, lmu, ref, at, under, temporary>>
    BY <1>6, ReleaseEffect
  <2> QED
    BY <2>1 DEF TypeOK
<1>7. ASSUME NEW p \in Requests, NEW r \in Refs, BeginRequest(p, r) PROVE TypeOK'
  BY <1>7 DEF BeginRequest, TypeOK, Procs
<1>8. ASSUME NEW p \in Procs, MountNext(p) PROVE TypeOK'
  <2>1. pc' \in [Procs -> {"idle", "missed", "recheck", "mount", "undo", "fallback",
                           "using", "release", "decref", "close"}]
    BY <1>8, MountEffect DEF TypeOK
  <2> QED
    BY <1>8, <2>1, MountEffect DEF TypeOK
<1>9. ASSUME NEW p \in Procs, MountDone(p) PROVE TypeOK'
  <2>1. ref[p] \in Refs /\ own[p] \in SUBSET Layers /\ under[p] \in SUBSET Layers
    BY DEF TypeOK
  <2>2. active' \in [Refs -> Leases]
    BY <1>9, <2>1 DEF MountDone, TypeOK
  <2>3. /\ pc' = [pc EXCEPT ![p] = "using"] /\ at' = [at EXCEPT ![p] = 1]
        /\ own' \in [Procs -> SUBSET Layers] /\ under' \in [Procs -> SUBSET Layers]
        /\ lease' \subseteq Sessions /\ fm' \in {fm, Nobody} /\ lmu' \in {lmu, Nobody}
        /\ UNCHANGED <<mounted, running, host, ref, temporary>>
    BY <1>9 DEF MountDone, TypeOK
  <2>4. at' \in [Procs -> 1..(Top + 1)]
    BY <2>3 DEF TypeOK
  <2> QED
    BY <2>2, <2>3, <2>4 DEF TypeOK
<1>10. ASSUME NEW p \in Procs, Undo(p) PROVE TypeOK'
  BY <1>10, UnmountEffect DEF Undo, TypeOK
<1>11. ASSUME NEW p \in Procs, Close(p) PROVE TypeOK'
  BY <1>11, UnmountEffect DEF Close, TypeOK
<1>12. ASSUME NEW p \in Procs, End(p) PROVE TypeOK'
  BY <1>12 DEF End, TypeOK
<1>13. ASSUME NEW c \in Containers, CardinalStart(c) PROVE TypeOK'
  <2>1. mounted' = [mounted EXCEPT ![c] = @ \cup Stack(c)] /\ Stack(c) \in SUBSET Layers
    BY <1>13 DEF CardinalStart, Stack
  <2>2. mounted' \in [Containers -> SUBSET Layers]
    BY <2>1 DEF TypeOK
  <2> QED
    BY <1>13, <2>2 DEF CardinalStart, TypeOK
<1>14. ASSUME NEW c \in Containers, CardinalStop(c) PROVE TypeOK'
  BY <1>14 DEF CardinalStop, TypeOK
<1>15. CASE Restart
  BY <1>15 DEF Restart, TypeOK
<1>16. CASE UNCHANGED vars
  BY <1>16 DEF vars, TypeOK
<1> QED
  BY <1>1, <1>2, <1>3, <1>4, <1>5, <1>6, <1>7, <1>8, <1>9, <1>10, <1>11, <1>12,
     <1>13, <1>14, <1>15, <1>16 DEF Next, Acquire, MountWork, Release

\* No step changes what the layers of a container are.
LEMMA SameLayers == ASSUME [Next]_vars PROVE imaged' = imaged
  BY DEF Next, vars, Acquire, Release, MountWork, AcquireFast, AcquireLock, AcquireRecheck, Fallback,
     ReleaseLock, ReleaseRef, BeginRequest, MountNext, MountDone, Undo, Close, End, CardinalStart,
     CardinalStop, Restart, host

\* Every step leaves the mounts wings owns among the layers of their container.
LEMMA OwnLayersPreserved == ASSUME Shape, [Next]_vars PROVE OwnLayers'
<1>0. TypeOK
  BY DEF Shape
<1>i. \A c : Stack(c)' = Stack(c)
  BY SameLayers DEF Stack
<1>f. ASSUME \A q \in Procs : own'[q] = {} \/ (own'[q] \subseteq own[q] /\ ref'[q] = ref[q]),
             \A r \in Refs : active'[r].own \subseteq active[r].own
      PROVE  OwnLayers'
  BY <1>i, <1>f DEF Shape, OwnLayers, cont
<1>1. ASSUME NEW p \in Sessions, NEW r \in Refs, AcquireFast(p, r) PROVE OwnLayers'
  <2>1. own' = own /\ \A q \in Procs : own[q] # {} => ref'[q] = ref[q]
    BY <1>0, <1>1, AcquireFastEffect DEF Shape, HandlerShape, HoldsFm, Others, Procs
  <2>2. \A s \in Refs : active'[s].own = active[s].own
    BY <1>0, <1>1, AcquireFastEffect
  <2> QED
    BY <1>f, <2>1, <2>2
<1>3. ASSUME NEW p \in Sessions, AcquireRecheck(p) PROVE OwnLayers'
  <2>1. own' = own /\ ref' = ref /\ \A s \in Refs : active'[s].own = active[s].own
    BY <1>0, <1>3, AcquireRecheckEffect
  <2> QED
    BY <1>f, <2>1
<1>6. ASSUME NEW p \in Sessions, ReleaseRef(p) PROVE OwnLayers'
  <2>1. /\ p \in Procs /\ ref' = ref /\ ref[p] \in Refs
        /\ \A q \in Procs : q # p => own'[q] = own[q]
        /\ \A s \in Refs : s # ref[p] => active'[s] = active[s]
        /\ active'[ref[p]] = NoLease \/ active'[ref[p]].own = active[ref[p]].own
        /\ own'[p] = active[ref[p]].own \/ own'[p] = own[p]
    BY <1>0, <1>6, ReleaseEffect DEF Others, Procs
  <2>2. cont(p) = ContainerOf[ref[p]] /\ \A q \in Procs : cont(q)' = cont(q)
    BY <2>1 DEF cont
  <2>3. \A s \in Refs : active'[s].own \subseteq active[s].own
    BY <2>1 DEF NoLease
  <2> QED
    BY <1>i, <2>1, <2>2, <2>3 DEF Shape, OwnLayers
<1>7. ASSUME NEW p \in Requests, NEW r \in Refs, BeginRequest(p, r) PROVE OwnLayers'
  <2>1. own' = own /\ active' = active /\ \A q \in Procs : own[q] # {} => ref'[q] = ref[q]
    BY <1>0, <1>7 DEF BeginRequest, TypeOK, Shape, HandlerShape, HoldsFm, Procs
  <2> QED
    BY <1>f, <2>1
<1>8. ASSUME NEW p \in Procs, MountNext(p) PROVE OwnLayers'
  <2>1. /\ ref' = ref /\ active' = active
        /\ own'[p] \subseteq own[p] \cup Stack(cont(p))
        /\ \A q \in Procs : q # p => own'[q] = own[q]
    BY <1>0, <1>8, MountEffect
  <2>2. \A q \in Procs : cont(q)' = cont(q)
    BY <2>1 DEF cont
  <2> QED
    BY <1>i, <2>1, <2>2 DEF Shape, OwnLayers
<1>9. ASSUME NEW p \in Procs, MountDone(p) PROVE OwnLayers'
  <2>1. /\ ref' = ref /\ ref[p] \in Refs
        /\ \A q \in Procs : q # p => own'[q] = own[q]
        /\ \A s \in Refs : s # ref[p] => active'[s] = active[s]
        /\ own'[p] = {} \/ own'[p] = own[p]
        /\ active'[ref[p]].own = own[p] \/ active' = active
    BY <1>0, <1>9, DoneEffect DEF Others
  <2>2. cont(p) = ContainerOf[ref[p]] /\ \A q \in Procs : cont(q)' = cont(q)
    BY <2>1 DEF cont
  <2> QED
    BY <1>i, <2>1, <2>2 DEF Shape, OwnLayers
<1>10. ASSUME NEW p \in Procs, Undo(p) \/ Close(p) PROVE OwnLayers'
  <2>1. /\ UNCHANGED <<ref, active>> /\ own'[p] \subseteq own[p]
        /\ \A q \in Procs : q # p => own'[q] = own[q]
    BY <1>0, <1>10, UnmountEffect DEF Undo, Close
  <2> QED
    BY <1>f, <2>1
<1>11. CASE \/ \E p \in Sessions : AcquireLock(p) \/ Fallback(p) \/ ReleaseLock(p)
            \/ \E p \in Procs : End(p)
            \/ \E c \in Containers : CardinalStart(c) \/ CardinalStop(c)
            \/ UNCHANGED vars
  <2>1. UNCHANGED <<own, ref, active>>
    BY <1>11 DEF AcquireLock, Fallback, ReleaseLock, End, CardinalStart, CardinalStop, vars, users
  <2> QED
    BY <1>f, <2>1
<1>12. CASE Restart
  BY <1>12 DEF Restart, OwnLayers, NoLease
<1> QED
  BY <1>1, <1>3, <1>6, <1>7, <1>8, <1>9, <1>10, <1>11, <1>12 DEF Next, Acquire, MountWork, Release

\* A user that does not move keeps its progress while nothing is unmounted
\* below its mount work.
LEMMA ProgressFrame ==
  ASSUME MountProgress, NEW q \in Procs, imaged' = imaged,
         pc'[q] = pc[q], at'[q] = at[q], under'[q] = under[q], ref'[q] = ref[q],
         pc[q] = "mount" => mounted[cont(q)] \subseteq mounted'[cont(q)]
  PROVE  Progress(q)'
  BY DEF MountProgress, Progress, cont, Base, Stack

\* A user that is not at mount work has made none.
LEMMA ProgressNone ==
  ASSUME NEW q \in Procs, at'[q] = 1, under'[q] = {}, pc'[q] # "mount",
         ~(q \in Requests /\ pc'[q] = "using")
  PROVE  Progress(q)'
  BY DEF Progress

\* A user that starts its mount work has made none yet.
LEMMA ProgressStart ==
  ASSUME NEW q \in Procs, at'[q] = 1, under'[q] = {}, pc'[q] = "mount"
  PROVE  Progress(q)'
<1>1. \A l \in Layers : ~(l < 1)
  BY StackAssumption DEF Layers
<1> QED
  BY <1>1 DEF Progress, Base, Stack

\* Every step keeps what the mount calls have passed.
LEMMA ProgressPreserved == ASSUME Shape, [Next]_vars PROVE MountProgress'
<1>0. TypeOK /\ MountProgress /\ imaged' = imaged /\ \A q \in Procs : cont(q) \in Containers
  BY ContType, SameLayers DEF Shape
<1>n. \A q \in Procs : pc[q] # "mount" /\ ~(q \in Requests /\ pc[q] = "using") => at[q] = 1 /\ under[q] = {}
  BY <1>0 DEF MountProgress, Progress
<1>f. ASSUME NEW p \in Procs, Progress(p)',
             \A q \in Procs : q # p => /\ pc'[q] = pc[q] /\ at'[q] = at[q] /\ under'[q] = under[q]
                                       /\ ref'[q] = ref[q],
             \A q \in Procs : q # p /\ pc[q] = "mount" => mounted[cont(q)] \subseteq mounted'[cont(q)]
      PROVE  MountProgress'
  <2> SUFFICES ASSUME NEW q \in Procs PROVE Progress(q)'
    BY DEF MountProgress
  <2> QED
    BY <1>0, <1>f, ProgressFrame
<1>g. ASSUME UNCHANGED <<pc, at, under, ref>>, \A c \in Containers : mounted[c] \subseteq mounted'[c]
      PROVE  MountProgress'
  <2> SUFFICES ASSUME NEW q \in Procs PROVE Progress(q)'
    BY DEF MountProgress
  <2> QED
    BY <1>0, <1>g, ProgressFrame
<1>1. ASSUME NEW p \in Sessions, NEW r \in Refs, AcquireFast(p, r) PROVE MountProgress'
  <2>1. /\ p \in Procs /\ p \notin Requests /\ pc[p] = "idle" /\ Others(p)
        /\ pc'[p] # "mount" /\ UNCHANGED <<mounted, at, under>>
    BY <1>0, <1>1, AcquireFastEffect, ProcsAssumption DEF Procs
  <2>2. Progress(p)'
    BY <1>n, <2>1, ProgressNone
  <2> QED
    BY <1>f, <2>1, <2>2 DEF Others
<1>2. ASSUME NEW p \in Sessions, AcquireLock(p) \/ Fallback(p) \/ ReleaseLock(p) PROVE MountProgress'
  <2>1. /\ p \in Procs /\ p \notin Requests /\ pc[p] # "mount" /\ pc'[p] # "mount"
        /\ \A q \in Procs : q # p => pc'[q] = pc[q]
        /\ UNCHANGED <<mounted, at, under, ref>>
    BY <1>0, <1>2, ProcsAssumption DEF AcquireLock, Fallback, ReleaseLock, goto, TypeOK, Procs
  <2>2. Progress(p)'
    BY <1>n, <2>1, ProgressNone
  <2> QED
    BY <1>f, <2>1, <2>2
<1>3. ASSUME NEW p \in Sessions, AcquireRecheck(p) PROVE MountProgress'
  <2>1. /\ p \in Procs /\ p \notin Requests /\ pc[p] = "recheck" /\ Others(p)
        /\ pc'[p] = "mount" \/ pc'[p] = "using"
        /\ UNCHANGED <<mounted, at, under>>
    BY <1>0, <1>3, AcquireRecheckEffect, ProcsAssumption DEF Procs
  <2>2. Progress(p)'
    BY <1>n, <2>1, ProgressNone, ProgressStart
  <2> QED
    BY <1>f, <2>1, <2>2 DEF Others
<1>6. ASSUME NEW p \in Sessions, ReleaseRef(p) PROVE MountProgress'
  <2>1. /\ p \in Procs /\ p \notin Requests /\ pc[p] = "decref" /\ Others(p)
        /\ pc'[p] # "mount" /\ UNCHANGED <<mounted, at, under>>
    BY <1>0, <1>6, ReleaseEffect, ProcsAssumption DEF Procs
  <2>2. Progress(p)'
    BY <1>n, <2>1, ProgressNone
  <2> QED
    BY <1>f, <2>1, <2>2 DEF Others
<1>7. ASSUME NEW p \in Requests, NEW r \in Refs, BeginRequest(p, r) PROVE MountProgress'
  <2>1. /\ p \in Procs /\ pc[p] = "idle" /\ pc'[p] = "mount"
        /\ \A q \in Procs : q # p => pc'[q] = pc[q] /\ ref'[q] = ref[q]
        /\ UNCHANGED <<mounted, at, under>>
    BY <1>0, <1>7 DEF BeginRequest, goto, TypeOK, Procs
  <2>2. Progress(p)'
    BY <1>n, <2>1, ProgressStart
  <2> QED
    BY <1>f, <2>1, <2>2
<1>8. ASSUME NEW p \in Procs, MountNext(p) PROVE MountProgress'
  <2>1. /\ pc[p] = "mount" /\ ref' = ref /\ at[p] \in Layers
        /\ \A q \in Procs : q # p => pc'[q] = pc[q] /\ at'[q] = at[q] /\ under'[q] = under[q]
        /\ \A c \in Containers : mounted[c] \subseteq mounted'[c]
    BY <1>0, <1>8, MountEffect
  <2>2. CASE pc'[p] = "undo"
    <3>1. at'[p] = 1 /\ under'[p] = {}
      BY <1>0, <1>8, <2>2, MountEffect
    <3> QED
      BY <1>0, <1>f, <2>1, <2>2, <3>1, ProgressNone
  <2>3. CASE pc'[p] # "undo"
    <3>1. /\ pc'[p] = "mount" /\ under[p] \subseteq under'[p]
          /\ under'[p] \subseteq under[p] \cup mounted'[cont(p)]
          /\ \A k \in Base(cont(p)) : k < at'[p] => k < at[p] \/ k \in under'[p]
      BY <1>0, <1>8, <2>3, MountEffect
    <3>2. under[p] \subseteq mounted[cont(p)] /\ \A k \in Base(cont(p)) : k < at[p] => k \in under[p]
      BY <1>0, <2>1 DEF MountProgress, Progress
    <3>3. under'[p] \subseteq mounted'[cont(p)] /\ \A k \in Base(cont(p)) : k < at'[p] => k \in under'[p]
      BY <1>0, <2>1, <3>1, <3>2
    <3>4. Progress(p)'
      BY <1>0, <2>1, <3>1, <3>3 DEF Progress, cont, Base, Stack
    <3> QED
      BY <1>0, <1>f, <2>1, <3>4
  <2> QED
    BY <2>2, <2>3
<1>9. ASSUME NEW p \in Procs, MountDone(p) PROVE MountProgress'
  <2>1. /\ mounted' = mounted /\ ref' = ref /\ pc[p] = "mount" /\ at[p] = Top + 1
        /\ pc'[p] = "using" /\ at'[p] = 1 /\ Others(p)
        /\ \/ p \in Sessions /\ under'[p] = {}
           \/ p \notin Sessions /\ under'[p] = under[p]
    BY <1>0, <1>9, DoneEffect
  <2>2. Base(cont(p)) \subseteq under[p]
    <3>1. \A l \in Base(cont(p)) : l < Top + 1
      BY StackAssumption DEF Base, Stack, Layers
    <3> QED
      BY <1>0, <2>1, <3>1 DEF MountProgress, Progress
  <2>3. CASE p \in Sessions
    <3>1. p \notin Requests /\ under'[p] = {}
      BY <2>1, <2>3, ProcsAssumption
    <3> QED
      BY <1>f, <2>1, <3>1, ProgressNone DEF Others
  <2>4. CASE p \notin Sessions
    <3>1. p \in Requests /\ under'[p] = under[p]
      BY <2>1, <2>4 DEF Procs
    <3>2. Progress(p)'
      BY <1>0, <2>1, <2>2, <3>1 DEF Progress, cont, Base, Stack
    <3> QED
      BY <1>f, <2>1, <3>2 DEF Others
  <2> QED
    BY <2>3, <2>4
<1>10. ASSUME NEW p \in Procs, Undo(p) \/ Close(p) PROVE MountProgress'
  <2>1. /\ pc[p] \in {"undo", "close"} /\ pc'[p] \in {"undo", "close", "fallback", "idle"}
        /\ UNCHANGED <<at, under, ref>>
        /\ \A q \in Procs : q # p => pc'[q] = pc[q]
    BY <1>0, <1>10 DEF Undo, Close, goto, TypeOK
  <2>2. \A q \in Procs : q # p => pc[q] # "mount"
    BY <2>1 DEF Shape, FmExcludes, HoldsFm
  <2>3. Progress(p)'
    BY <1>n, <2>1, ProgressNone
  <2> QED
    BY <1>f, <2>1, <2>2, <2>3
<1>12. ASSUME NEW p \in Procs, End(p) PROVE MountProgress'
  <2>1. /\ pc[p] = "using" /\ pc'[p] \in {"close", "release", "idle"} /\ under'[p] = {}
        /\ \A q \in Procs : q # p => pc'[q] = pc[q] /\ under'[q] = under[q]
        /\ UNCHANGED <<at, ref, mounted>>
    BY <1>0, <1>12 DEF End, goto, TypeOK
  <2>2. at[p] = 1
    BY <1>0, <2>1 DEF MountProgress, Progress
  <2>3. Progress(p)'
    BY <2>1, <2>2, ProgressNone
  <2> QED
    BY <1>f, <2>1, <2>3
<1>13. ASSUME NEW c \in Containers, CardinalStart(c) \/ CardinalStop(c) PROVE MountProgress'
  <2>1. UNCHANGED <<pc, at, under, ref>>
    BY <1>13 DEF CardinalStart, CardinalStop, users
  <2>2. \A d \in Containers : mounted[d] \subseteq mounted'[d]
    BY <1>0, <1>13 DEF CardinalStart, CardinalStop, TypeOK
  <2> QED
    BY <1>g, <2>1, <2>2
<1>15. CASE Restart
  <2>1. \A q \in Procs : pc'[q] = "idle" /\ at'[q] = 1 /\ under'[q] = {}
    BY <1>15 DEF Restart
  <2> SUFFICES ASSUME NEW q \in Procs PROVE Progress(q)'
    BY DEF MountProgress
  <2> QED
    BY <2>1, ProgressNone
<1>16. CASE UNCHANGED vars
  BY <1>g, <1>16 DEF vars, users
<1> QED
  BY <1>1, <1>2, <1>3, <1>6, <1>7, <1>8, <1>9, <1>10, <1>12, <1>13, <1>15, <1>16
     DEF Next, Acquire, MountWork, Release

\* Every step keeps the shape of the table.
LEMMA TablePreserved == ASSUME Shape, [Next]_vars PROVE TableShape'
<1>0. TypeOK /\ TableShape /\ \A c : Base(c)' = Base(c)
  BY SameLayers DEF Shape, Base, Stack
<1>1. ASSUME \A r \in Refs : active'[r].own = active[r].own /\ active'[r].under = active[r].under,
             \A r \in Refs : active'[r].refs = 0 <=> active[r].refs = 0,
             \A q \in Sessions : pc'[q] \in {"mount", "undo"} =>
               \/ pc[q] \in {"mount", "undo"} /\ ref'[q] = ref[q]
               \/ active[ref[q]].refs = 0 /\ ref'[q] = ref[q]
      PROVE  TableShape'
  <2>1. ASSUME NEW q \in Sessions, pc'[q] \in {"mount", "undo"} PROVE active'[ref'[q]].refs = 0
    <3>1. ref'[q] = ref[q] /\ active[ref[q]].refs = 0 /\ ref[q] \in Refs
      BY <1>0, <1>1, <2>1 DEF TableShape, TypeOK, Procs
    <3> QED
      BY <1>1, <3>1
  <2> QED
    BY <1>0, <1>1, <2>1 DEF TableShape
<1>2. ASSUME NEW p \in Sessions, NEW r \in Refs, AcquireFast(p, r) PROVE TableShape'
  <2>1. /\ \A s \in Refs : active'[s].own = active[s].own /\ active'[s].under = active[s].under
        /\ \A s \in Refs : active'[s].refs = 0 <=> active[s].refs = 0
        /\ pc'[p] \notin {"mount", "undo"} /\ Others(p)
    BY <1>0, <1>2, AcquireFastEffect
  <2> QED
    BY <1>1, <2>1 DEF Others, Procs
<1>3. ASSUME NEW p \in Sessions, AcquireRecheck(p) PROVE TableShape'
  <2>1. /\ \A s \in Refs : active'[s].own = active[s].own /\ active'[s].under = active[s].under
        /\ \A s \in Refs : active'[s].refs = 0 <=> active[s].refs = 0
        /\ pc'[p] \notin {"mount", "undo"} \/ active[ref[p]].refs = 0
        /\ Others(p) /\ ref' = ref
    BY <1>0, <1>3, AcquireRecheckEffect
  <2> QED
    BY <1>1, <2>1 DEF Others, Procs
<1>6. ASSUME NEW p \in Sessions, ReleaseRef(p) PROVE TableShape'
  <2>1. /\ pc[p] = "decref" /\ ref' = ref /\ ref[p] \in Refs /\ pc'[p] \notin {"mount", "undo"}
        /\ \A q \in Sessions : q # p => pc'[q] = pc[q]
        /\ \A s \in Refs : s # ref[p] => active'[s] = active[s]
        /\ \/ active'[ref[p]] = NoLease
           \/ /\ active'[ref[p]].own = active[ref[p]].own
              /\ active'[ref[p]].under = active[ref[p]].under
              /\ active[ref[p]].refs # 1
    BY <1>0, <1>6, ReleaseEffect DEF Others, Procs
  <2>2. \A q \in Sessions : pc[q] \notin {"mount", "undo"}
    <3>1. fm = p /\ p \in Procs
      BY <2>1 DEF Shape, FmExcludes, HoldsFm, Procs
    <3> QED
      BY <2>1, <3>1 DEF Shape, FmExcludes, HoldsFm, Procs
  <2>3. \A q \in Sessions : pc'[q] \notin {"mount", "undo"}
    BY <2>1, <2>2
  <2>4. active'[ref[p]] = NoLease \/ (active[ref[p]].refs = 0 <=> active'[ref[p]].refs = 0)
    <3> DEFINE n == active[ref[p]].refs
               m == active'[ref[p]].refs
    <3>1. n \in Nat
      BY <1>0, <2>1 DEF TypeOK, Leases
    <3>2. \/ active'[ref[p]] = NoLease
          \/ n # 1 /\ (n > 0 => m = n - 1) /\ (n = 0 => m = 0)
      BY <1>0, <1>6, ReleaseEffect
    <3> HIDE DEF n, m
    <3>3. n # 1 /\ (n > 0 => m = n - 1) /\ (n = 0 => m = 0) => (n = 0 <=> m = 0)
      BY <3>1
    <3> QED
      BY <3>2, <3>3 DEF n, m
  <2>5. ASSUME NEW s \in Refs
        PROVE  /\ active'[s].refs = 0 => active'[s].own = {}
               /\ active'[s].refs # 0 => Base(ContainerOf[s]) \subseteq active'[s].under
    <3>1. CASE s # ref[p]
      BY <1>0, <2>1, <3>1 DEF TableShape
    <3>2. CASE s = ref[p] /\ active'[s] = NoLease
      BY <3>2 DEF NoLease
    <3>3. CASE s = ref[p] /\ active'[s] # NoLease
      BY <1>0, <2>1, <2>4, <3>3 DEF TableShape
    <3> QED
      BY <3>1, <3>2, <3>3
  <2> QED
    BY <1>0, <2>3, <2>5 DEF TableShape
<1>7. ASSUME NEW p \in Requests, NEW r \in Refs, BeginRequest(p, r) PROVE TableShape'
  <2>1. active' = active /\ \A q \in Sessions : pc'[q] = pc[q] /\ ref'[q] = ref[q]
    BY <1>0, <1>7, ProcsAssumption DEF BeginRequest, goto, TypeOK, Procs
  <2> QED
    BY <1>1, <2>1
<1>8. ASSUME NEW p \in Procs, MountNext(p) PROVE TableShape'
  <2>1. /\ active' = active /\ ref' = ref /\ pc[p] = "mount"
        /\ \A q \in Procs : q # p => pc'[q] = pc[q]
    BY <1>0, <1>8, MountEffect
  <2> QED
    BY <1>1, <2>1 DEF Procs
<1>9. ASSUME NEW p \in Procs, MountDone(p) PROVE TableShape'
  <2>1. /\ pc[p] = "mount" /\ pc'[p] = "using" /\ ref' = ref /\ ref[p] \in Refs /\ at[p] = Top + 1
        /\ \A q \in Procs : q # p => pc'[q] = pc[q]
        /\ \A s \in Refs : s # ref[p] => active'[s] = active[s]
        /\ \/ active'[ref[p]].refs = 1 /\ active'[ref[p]].under = under[p]
           \/ active' = active
    BY <1>0, <1>9, DoneEffect DEF Others
  <2>2. \A q \in Procs : q # p => pc[q] \notin {"mount", "undo"}
    BY <2>1 DEF Shape, FmExcludes, HoldsFm
  <2>3. \A q \in Sessions : pc'[q] \notin {"mount", "undo"}
    BY <2>1, <2>2 DEF Procs
  <2>4. Base(ContainerOf[ref[p]]) \subseteq under[p]
    <3>1. \A l \in Base(cont(p)) : l < Top + 1
      BY StackAssumption DEF Base, Stack, Layers
    <3>2. Base(cont(p)) \subseteq under[p]
      BY <2>1, <3>1 DEF Shape, MountProgress, Progress
    <3> QED
      BY <3>2 DEF cont
  <2> QED
    BY <1>0, <2>1, <2>3, <2>4 DEF TableShape
<1>10. ASSUME NEW p \in Procs, Undo(p) \/ Close(p) PROVE TableShape'
  <2>1. /\ active' = active /\ ref' = ref
        /\ pc'[p] = pc[p] \/ pc'[p] \in {"idle", "fallback"}
        /\ \A q \in Procs : q # p => pc'[q] = pc[q]
    BY <1>0, <1>10 DEF Undo, Close, goto, TypeOK
  <2> QED
    BY <1>1, <2>1 DEF Procs
<1>11. ASSUME NEW p \in Procs,
              End(p) \/ (p \in Sessions /\ (AcquireLock(p) \/ Fallback(p) \/ ReleaseLock(p)))
       PROVE  TableShape'
  <2>1. /\ active' = active /\ ref' = ref
        /\ pc'[p] \notin {"mount", "undo"}
        /\ \A q \in Procs : q # p => pc'[q] = pc[q]
    BY <1>0, <1>11 DEF End, AcquireLock, Fallback, ReleaseLock, goto, TypeOK
  <2> QED
    BY <1>1, <2>1 DEF Procs
<1>13. CASE (\E c \in Containers : CardinalStart(c) \/ CardinalStop(c)) \/ UNCHANGED vars
  <2>1. active' = active /\ ref' = ref /\ pc' = pc
    BY <1>13 DEF CardinalStart, CardinalStop, vars, users
  <2> QED
    BY <1>1, <2>1
<1>15. CASE Restart
  BY <1>15 DEF Restart, TableShape, NoLease, Procs
<1> QED
  BY <1>2, <1>3, <1>6, <1>7, <1>8, <1>9, <1>10, <1>11, <1>13, <1>15
     DEF Next, Acquire, MountWork, Release, Procs

\* Every step preserves the shape of the locks, the handlers and the table.
LEMMA ShapePreserved == ASSUME Shape, [Next]_vars PROVE Shape'
<1>0. TypeOK /\ TypeOK' /\ OwnLayers'
  BY TypePreserved, OwnLayersPreserved DEF Shape
<1>00. MountProgress' /\ TableShape'
  BY ProgressPreserved, TablePreserved
<1> USE ProcsAssumption, RefsAssumption, StackAssumption DEF HoldsFm, Others
<1>1. ASSUME NEW p \in Sessions, NEW r \in Refs, AcquireFast(p, r) PROVE Shape'
  <2>1. /\ pc[p] = "idle" /\ Others(p)
        /\ pc'[p] = "using" \/ (pc'[p] = "missed" /\ lease' = lease)
        /\ \A q \in lease' : q \in lease \/ q = p
        /\ UNCHANGED <<mounted, fm, own, at>>
    BY <1>0, <1>1, AcquireFastEffect DEF locks
  <2>2. /\ \A s \in Refs : active'[s].own = active[s].own
        /\ \A s \in Refs : active'[s].refs = 0 => active[s].refs = 0
        /\ \A s \in Refs : active[s].refs = 0 => active'[s].refs = 0
    BY <1>0, <1>1, AcquireFastEffect
  <2>3. FmExcludes'
    BY <1>0, <2>1, <2>2 DEF Shape, FmExcludes, HandlerShape, TypeOK, cont, Procs
  <2>4. HandlerShape'
    BY <1>0, <2>1, <2>2 DEF Shape, HandlerShape, FmExcludes, TypeOK, cont, Procs
  <2> QED
    BY <1>0, <1>00, <2>3, <2>4 DEF Shape
<1>2. ASSUME NEW p \in Sessions, AcquireLock(p) PROVE Shape'
  BY <1>0, <1>00, <1>2 DEF Shape, FmExcludes, HandlerShape,
     AcquireLock, goto, cont, Procs, users, locks, NoLease, TypeOK
<1>3. ASSUME NEW p \in Sessions, AcquireRecheck(p) PROVE Shape'
  <2>1. /\ pc[p] = "recheck" /\ Others(p)
        /\ \/ pc'[p] = "using"
           \/ /\ pc'[p] = "mount" /\ active[ref[p]].refs = 0
              /\ lease' = lease /\ fm' = fm
        /\ \A q \in lease' : q \in lease \/ q = p
        /\ UNCHANGED <<mounted, own, at, ref>>
    BY <1>0, <1>3, AcquireRecheckEffect
  <2>2. /\ \A s \in Refs : active'[s].own = active[s].own
        /\ \A s \in Refs : active'[s].refs = 0 => active[s].refs = 0
        /\ \A s \in Refs : active[s].refs = 0 => active'[s].refs = 0
    BY <1>0, <1>3, AcquireRecheckEffect
  <2>4. FmExcludes'
    BY <1>0, <2>1, <2>2 DEF Shape, FmExcludes, HandlerShape, TypeOK, cont, Procs
  <2>5. HandlerShape'
    BY <1>0, <2>1, <2>2 DEF Shape, HandlerShape, FmExcludes, TypeOK, cont, Procs
  <2> QED
    BY <1>0, <1>00, <2>4, <2>5 DEF Shape
<1>4. ASSUME NEW p \in Sessions, Fallback(p) PROVE Shape'
  BY <1>0, <1>00, <1>4 DEF Shape, FmExcludes, HandlerShape,
     Fallback, goto, cont, Procs, users, locks, NoLease, TypeOK
<1>5. ASSUME NEW p \in Sessions, ReleaseLock(p) PROVE Shape'
  BY <1>0, <1>00, <1>5 DEF Shape, FmExcludes, HandlerShape,
     ReleaseLock, goto, cont, Procs, users, locks, NoLease, TypeOK
<1>6. ASSUME NEW p \in Sessions, ReleaseRef(p) PROVE Shape'
  <2>1. /\ pc[p] = "decref" /\ Others(p) /\ p \notin lease'
        /\ \/ pc'[p] = "close" /\ fm' = fm
           \/ pc'[p] = "idle" /\ own'[p] = own[p]
        /\ UNCHANGED <<mounted, at, ref>>
    BY <1>0, <1>6, ReleaseEffect
  <2>3. ref[p] \in Refs /\ p \in Procs
    BY <1>0 DEF TypeOK, Procs
  <2>4. FmExcludes'
    BY <1>0, <2>1, <2>3 DEF Shape, FmExcludes, HandlerShape, TypeOK, cont, Procs
  <2>5. HandlerShape'
    BY <1>0, <2>1, <2>3 DEF Shape, HandlerShape, FmExcludes, TypeOK, cont, Procs
  <2> QED
    BY <1>0, <1>00, <2>4, <2>5 DEF Shape
<1>7. ASSUME NEW p \in Requests, NEW r \in Refs, BeginRequest(p, r) PROVE Shape'
  <2>1. p \in Procs /\ p \notin Sessions
    BY DEF Procs
  <2>2. /\ pc[p] = "idle" /\ pc'[p] = "mount" /\ fm = Nobody /\ fm' = p
        /\ \A q \in Procs : q # p => pc'[q] = pc[q]
        /\ UNCHANGED <<own, lease>>
    BY <1>0, <1>7, <2>1 DEF BeginRequest, goto, TypeOK
  <2>4. FmExcludes'
    BY <1>0, <2>1, <2>2 DEF Shape, FmExcludes, HandlerShape, TypeOK, cont, Procs
  <2>5. HandlerShape'
    BY <1>0, <2>1, <2>2 DEF Shape, HandlerShape, FmExcludes, TypeOK, cont, Procs
  <2> QED
    BY <1>0, <1>00, <2>4, <2>5 DEF Shape
<1>8. ASSUME NEW p \in Procs, MountNext(p) PROVE Shape'
  <2>1. /\ pc[p] = "mount" /\ pc'[p] \in {"mount", "undo"} /\ UNCHANGED <<fm, lease>>
        /\ \A q \in Procs : q # p => pc'[q] = pc[q] /\ own'[q] = own[q]
    BY <1>0, <1>8, MountEffect DEF locks
  <2>2. FmExcludes'
    BY <1>0, <2>1 DEF Shape, FmExcludes, HandlerShape, TypeOK, Procs
  <2>3. HandlerShape'
    BY <1>0, <2>1 DEF Shape, HandlerShape, FmExcludes, TypeOK, Procs
  <2> QED
    BY <1>0, <1>00, <2>2, <2>3 DEF Shape
<1>9. ASSUME NEW p \in Procs, MountDone(p) PROVE Shape'
  <2>1. /\ pc[p] = "mount" /\ Others(p) /\ pc'[p] = "using" /\ at'[p] = 1
        /\ \/ p \in Sessions /\ own'[p] = {} /\ lease' = lease \cup {p}
           \/ p \notin Sessions /\ UNCHANGED <<own, lease, fm>>
        /\ UNCHANGED <<mounted, ref>>
    BY <1>0, <1>9, DoneEffect
  <2>2. \A s \in Refs : active'[s] = active[s] \/ active'[s].refs = 1
    BY <1>0, <1>9, DoneEffect
  <2>3. /\ p \in Sessions => fm' = Nobody
        /\ \A s \in Refs : s # ref[p] => active'[s] = active[s]
        /\ p \notin Sessions => active' = active
    BY <1>0, <1>9, DoneEffect
  <2>4. \A q \in Procs : q # p => pc[q] \notin {"mount", "undo"}
    BY <1>0, <2>1 DEF Shape, FmExcludes
  <2>5. FmExcludes'
    BY <1>0, <2>1, <2>2, <2>3, <2>4 DEF Shape, FmExcludes, HandlerShape, TypeOK, cont, Procs
  <2>6. HandlerShape'
    BY <1>0, <2>1, <2>2, <2>3, <2>4 DEF Shape, HandlerShape, FmExcludes, TypeOK, cont, Procs
  <2> QED
    BY <1>0, <1>00, <2>5, <2>6 DEF Shape
<1>10. ASSUME NEW p \in Procs, Undo(p) PROVE Shape'
  <2>1. /\ pc[p] = "undo" /\ Others(p) /\ own'[p] \subseteq own[p]
        /\ \/ pc'[p] = "undo" /\ fm' = fm
           \/ (pc'[p] = "idle" \/ (pc'[p] = "fallback" /\ p \in Sessions)) /\ own'[p] = {}
        /\ UNCHANGED <<lease, ref, at, active>>
    BY <1>0, <1>10, UnmountEffect DEF Undo, goto, locks, TypeOK, Procs
  <2>2. /\ \A q \in Procs : q # p => pc[q] # "mount"
        /\ fm = p
    BY <1>0, <2>1 DEF Shape, FmExcludes
  <2>3. FmExcludes'
    BY <1>0, <2>1, <2>2 DEF Shape, FmExcludes, HandlerShape, TypeOK, cont, Procs
  <2>4. HandlerShape'
    BY <1>0, <2>1, <2>2 DEF Shape, HandlerShape, FmExcludes, TypeOK, cont, Procs
  <2> QED
    BY <1>0, <1>00, <2>3, <2>4 DEF Shape
<1>11. ASSUME NEW p \in Procs, Close(p) PROVE Shape'
  <2>1. /\ pc[p] = "close" /\ Others(p) /\ own'[p] \subseteq own[p]
        /\ \/ pc'[p] = "close" /\ fm' = fm
           \/ pc'[p] = "idle" /\ own'[p] = {}
        /\ UNCHANGED <<lease, ref, at, active>>
    BY <1>0, <1>11, UnmountEffect DEF Close, goto, locks, TypeOK, Procs
  <2>2. /\ \A q \in Procs : q # p => pc[q] # "mount"
        /\ fm = p
    BY <1>0, <2>1 DEF Shape, FmExcludes
  <2>3. FmExcludes'
    BY <1>0, <2>1, <2>2 DEF Shape, FmExcludes, HandlerShape, TypeOK, cont, Procs
  <2>4. HandlerShape'
    BY <1>0, <2>1, <2>2 DEF Shape, HandlerShape, FmExcludes, TypeOK, cont, Procs
  <2> QED
    BY <1>0, <1>00, <2>3, <2>4 DEF Shape
<1>12. ASSUME NEW p \in Procs, End(p) PROVE Shape'
  BY <1>0, <1>00, <1>12 DEF Shape, FmExcludes, HandlerShape,
     End, goto, cont, Procs, users, locks, NoLease, TypeOK
<1>13. ASSUME NEW c \in Containers, CardinalStart(c) PROVE Shape'
  BY <1>0, <1>00, <1>13 DEF Shape, FmExcludes, HandlerShape,
     CardinalStart, goto, cont, Procs, users, locks, NoLease, TypeOK
<1>14. ASSUME NEW c \in Containers, CardinalStop(c) PROVE Shape'
  BY <1>0, <1>00, <1>14 DEF Shape, FmExcludes, HandlerShape,
     CardinalStop, goto, cont, Procs, users, locks, NoLease, TypeOK
<1>15. CASE Restart
  BY <1>0, <1>00, <1>15 DEF Shape, FmExcludes, HandlerShape,
     Restart, goto, cont, Procs, users, locks, NoLease, TypeOK
<1>16. CASE UNCHANGED vars
  BY <1>0, <1>00, <1>16 DEF Shape, FmExcludes, HandlerShape,
     vars, goto, cont, Procs, users, locks, NoLease, TypeOK
<1> QED
  BY <1>1, <1>2, <1>3, <1>4, <1>5, <1>6, <1>7, <1>8, <1>9, <1>10, <1>11, <1>12,
     <1>13, <1>14, <1>15, <1>16 DEF Next, Acquire, MountWork, Release

\* The holders of a ref are finitely many; an entry with references has one.
LEMMA HoldersFacts ==
  ASSUME Shape, RefsCountHolders, NEW r \in Refs
  PROVE  /\ IsFiniteSet(Holders(r)) /\ Cardinality(Holders(r)) \in Nat
         /\ active[r].refs = 0 => Holders(r) = {}
         /\ active[r].refs # 0 => Holders(r) # {}
         /\ \A p \in Holders(r) : active[r].refs = 1 => Holders(r) = {p}
<1>1. IsFiniteSet(Holders(r))
  BY ProcsAssumption, FS_Subset DEF Shape, TypeOK, Holders
<1>2. active[r].refs = Cardinality(Holders(r))
  BY DEF RefsCountHolders
<1> QED
  BY <1>1, <1>2, FS_CardinalityType, FS_EmptySet, FS_Singleton

\* Counting the holders again after one more, or one less.
LEMMA OneMore ==
  ASSUME Shape, RefsCountHolders, NEW r \in Refs, NEW p, p \notin Holders(r)
  PROVE  Cardinality(Holders(r) \cup {p}) = active[r].refs + 1
<1>1. IsFiniteSet(Holders(r)) /\ active[r].refs = Cardinality(Holders(r))
  BY HoldersFacts DEF RefsCountHolders
<1> QED
  BY <1>1, FS_AddElement

\* ... and one less.
LEMMA OneLess ==
  ASSUME Shape, RefsCountHolders, NEW r \in Refs, NEW p \in Holders(r)
  PROVE  Cardinality(Holders(r) \ {p}) = active[r].refs - 1
  BY HoldersFacts, FS_RemoveElement DEF RefsCountHolders

\* Every step keeps the counts exact: only joining, storing and releasing change
\* a lease or its holders, each by one.
LEMMA CountPreserved ==
  ASSUME Shape, RefsCountHolders, [Next]_vars PROVE RefsCountHolders'
<1>0. TypeOK
  BY DEF Shape
<1>1. ASSUME NEW p \in Sessions, NEW r \in Refs, AcquireFast(p, r) PROVE RefsCountHolders'
  <2>1. /\ p \notin lease /\ p \in Procs /\ r \in Refs /\ ref'[p] = r
        /\ \A q \in lease : ref'[q] = ref[q]
    BY <1>0, <1>1, AcquireFastEffect DEF Shape, HandlerShape, TypeOK, Procs, Others
  <2>2. CASE join(p, r)
    <3>1. /\ lease' = lease \cup {p} /\ active'[r].refs = active[r].refs + 1
          /\ \A s \in Refs : s # r => active'[s] = active[s]
      BY <1>0, <2>1, <2>2, JoinEffect
    <3>2. /\ Holders(r)' = Holders(r) \cup {p} /\ p \notin Holders(r)
          /\ \A s \in Refs : s # r => Holders(s)' = Holders(s)
      BY <2>1, <3>1 DEF Holders
    <3>3. \A s \in Refs : active'[s].refs = Cardinality(Holders(s)')
      <4>1. active'[r].refs = Cardinality(Holders(r)')
        BY <2>1, <3>1, <3>2, OneMore
      <4>2. ASSUME NEW s \in Refs, s # r PROVE active'[s].refs = Cardinality(Holders(s)')
        BY <3>1, <3>2, <4>2 DEF RefsCountHolders
      <4> QED
        BY <4>1, <4>2
    <3> QED
      BY <3>3 DEF RefsCountHolders
  <2>3. CASE ~join(p, r)
    BY <1>0, <1>1, <2>1, <2>3, AcquireFastEffect DEF RefsCountHolders, Holders
  <2> QED
    BY <2>2, <2>3
<1>2. ASSUME NEW p \in Sessions, AcquireLock(p) PROVE RefsCountHolders'
  BY <1>2, <1>0 DEF AcquireLock, users, locks, RefsCountHolders, Holders
<1>3. ASSUME NEW p \in Sessions, AcquireRecheck(p) PROVE RefsCountHolders'
  <2>0. PICK r \in Refs : r = ref[p]
    BY <1>0 DEF TypeOK, Procs
  <2>1. p \notin lease /\ p \in Procs /\ r \in Refs /\ ref' = ref
    BY <1>0, <1>3, <2>0, AcquireRecheckEffect DEF Shape, HandlerShape, TypeOK, Procs
  <2>2. CASE join(p, r)
    <3>1. /\ lease' = lease \cup {p} /\ active'[r].refs = active[r].refs + 1
          /\ \A s \in Refs : s # r => active'[s] = active[s]
      BY <1>0, <2>0, <2>1, <2>2, JoinEffect
    <3>2. /\ Holders(r)' = Holders(r) \cup {p} /\ p \notin Holders(r)
          /\ \A s \in Refs : s # r => Holders(s)' = Holders(s)
      BY <2>0, <2>1, <3>1 DEF Holders
    <3>3. \A s \in Refs : active'[s].refs = Cardinality(Holders(s)')
      <4>1. active'[r].refs = Cardinality(Holders(r)')
        BY <2>1, <3>1, <3>2, OneMore
      <4>2. ASSUME NEW s \in Refs, s # r PROVE active'[s].refs = Cardinality(Holders(s)')
        BY <3>1, <3>2, <4>2 DEF RefsCountHolders
      <4> QED
        BY <4>1, <4>2
    <3> QED
      BY <3>3 DEF RefsCountHolders
  <2>3. CASE ~join(p, r)
    BY <1>0, <1>3, <2>0, <2>1, <2>3, AcquireRecheckEffect DEF RefsCountHolders, Holders
  <2> QED
    BY <2>2, <2>3
<1>4. ASSUME NEW p \in Sessions, Fallback(p) PROVE RefsCountHolders'
  BY <1>4, <1>0 DEF Fallback, users, locks, RefsCountHolders, Holders
<1>5. ASSUME NEW p \in Sessions, ReleaseLock(p) PROVE RefsCountHolders'
  BY <1>5, <1>0 DEF ReleaseLock, users, locks, RefsCountHolders, Holders
<1>6. ASSUME NEW p \in Sessions, ReleaseRef(p) PROVE RefsCountHolders'
  <2>0. PICK r \in Refs : r = ref[p]
    BY <1>0 DEF TypeOK, Procs
  <2>1. p \in lease /\ lease' = lease \ {p} /\ r \in Refs /\ ref' = ref /\ p \in Holders(r)
    BY <1>0, <1>6, <2>0, ReleaseEffect DEF Shape, HandlerShape, Procs, Holders
  <2>2. /\ Holders(r)' = Holders(r) \ {p}
        /\ \A s \in Refs : s # r => Holders(s)' = Holders(s)
    BY <2>0, <2>1 DEF Holders
  <2>3. active[r].refs # 0 /\ active[r].refs \in Nat
    BY <1>0, <2>1, HoldersFacts DEF TypeOK, Leases
  <2>4. /\ active'[r].refs = active[r].refs - 1
        /\ \A s \in Refs : s # r => active'[s] = active[s]
    <3> DEFINE n == active[r].refs
               m == active'[r].refs
    <3>1. /\ \/ n = 1 /\ active'[r] = NoLease
             \/ n # 1 /\ (n > 0 => m = n - 1) /\ (n = 0 => m = 0)
          /\ \A s \in Refs : s # r => active'[s] = active[s]
      BY <1>0, <1>6, <2>0, ReleaseEffect
    <3>2. active'[r] = NoLease => m = 0
      BY DEF NoLease
    <3> HIDE DEF n, m
    <3>3. n # 0 /\ n \in Nat
      BY <2>3 DEF n
    <3>4. m = n - 1
      BY <3>1, <3>2, <3>3
    <3> QED
      BY <3>1, <3>4 DEF n, m
  <2>5. active'[r].refs = Cardinality(Holders(r)')
    BY <2>1, <2>2, <2>4, OneLess
  <2>6. ASSUME NEW s \in Refs, s # r PROVE active'[s].refs = Cardinality(Holders(s)')
    BY <2>2, <2>4, <2>6 DEF RefsCountHolders
  <2> QED
    BY <2>5, <2>6 DEF RefsCountHolders
<1>7. ASSUME NEW p \in Requests, NEW r \in Refs, BeginRequest(p, r) PROVE RefsCountHolders'
  <2>1. p \notin lease /\ active' = active /\ lease' = lease
    BY <1>0, <1>7, ProcsAssumption DEF BeginRequest, TypeOK
  <2>2. \A q \in lease : ref'[q] = ref[q]
    BY <1>0, <1>7, <2>1 DEF BeginRequest, TypeOK, Procs
  <2> QED
    BY <2>1, <2>2 DEF RefsCountHolders, Holders
<1>8. ASSUME NEW p \in Procs, MountNext(p) PROVE RefsCountHolders'
  <2>1. active' = active /\ lease' = lease /\ ref' = ref
    BY <1>0, <1>8, MountEffect
  <2> QED
    BY <1>0, <2>1 DEF RefsCountHolders, Holders
<1>9. ASSUME NEW p \in Procs, MountDone(p) PROVE RefsCountHolders'
  <2>1. CASE p \in Sessions
    <3>0. PICK r \in Refs : r = ref[p]
      BY <1>0 DEF TypeOK
    <3>1. /\ p \notin lease /\ r \in Refs /\ ref' = ref /\ active[r].refs = 0
          /\ p \notin Holders(r)
      BY <1>0, <1>9, <2>1, <3>0, DoneEffect DEF Shape, HandlerShape, TableShape, Holders
    <3>2. /\ lease' = lease \cup {p} /\ active'[r].refs = 1
          /\ \A s \in Refs : s # r => active'[s] = active[s]
      BY <1>0, <1>9, <2>1, <3>0, DoneEffect
    <3>3. /\ Holders(r)' = Holders(r) \cup {p}
          /\ \A s \in Refs : s # r => Holders(s)' = Holders(s)
      BY <3>0, <3>1, <3>2 DEF Holders
    <3>4. active'[r].refs = Cardinality(Holders(r)')
      BY <3>1, <3>2, <3>3, OneMore
    <3>5. ASSUME NEW s \in Refs, s # r PROVE active'[s].refs = Cardinality(Holders(s)')
      BY <3>2, <3>3, <3>5 DEF RefsCountHolders
    <3> QED
      BY <3>4, <3>5 DEF RefsCountHolders
  <2>2. CASE p \notin Sessions
    BY <1>0, <1>9, <2>2, DoneEffect DEF RefsCountHolders, Holders
  <2> QED
    BY <2>1, <2>2
<1>10. ASSUME NEW p \in Procs, Undo(p) PROVE RefsCountHolders'
  BY <1>10, <1>0 DEF Undo, users, locks, RefsCountHolders, Holders
<1>11. ASSUME NEW p \in Procs, Close(p) PROVE RefsCountHolders'
  BY <1>11, <1>0 DEF Close, users, locks, RefsCountHolders, Holders
<1>12. ASSUME NEW p \in Procs, End(p) PROVE RefsCountHolders'
  BY <1>12, <1>0 DEF End, users, locks, RefsCountHolders, Holders
<1>13. ASSUME NEW c \in Containers, CardinalStart(c) PROVE RefsCountHolders'
  BY <1>13, <1>0 DEF CardinalStart, users, locks, RefsCountHolders, Holders
<1>14. ASSUME NEW c \in Containers, CardinalStop(c) PROVE RefsCountHolders'
  BY <1>14, <1>0 DEF CardinalStop, users, locks, RefsCountHolders, Holders
<1>15. CASE Restart
  BY <1>15, FS_EmptySet DEF Restart, RefsCountHolders, Holders, NoLease
<1>16. CASE UNCHANGED vars
  BY <1>16, <1>0 DEF vars, users, locks, RefsCountHolders, Holders
<1> QED
  BY <1>1, <1>2, <1>3, <1>4, <1>5, <1>6, <1>7, <1>8, <1>9, <1>10, <1>11, <1>12,
     <1>13, <1>14, <1>15, <1>16 DEF Next, Acquire, MountWork, Release

\* A container is addressed by one ref only: all callers use its name, or all its id.
OneRefPerContainer ==
  \A r1, r2 \in Refs : ContainerOf[r1] = ContainerOf[r2] => r1 = r2

\* A step that lets nobody rely on more, takes away nothing that is relied upon
\* and gives nobody mounts to own keeps the owners alone.
LEMMA AloneFrame ==
  ASSUME ReliedUpon, OwnersAlone,
         \A q \in Procs : relies(q)' \subseteq relies(q),
         \A q \in Procs : own'[q] \subseteq own[q],
         \A q \in Procs : relies(q)' # {} \/ own'[q] # {} => ref'[q] = ref[q],
         \A q \in Procs : \A l \in relies(q)' : l \in mounted[cont(q)] => l \in mounted'[cont(q)]
  PROVE  ReliedUpon' /\ OwnersAlone'
<1>1. \A q \in Procs : relies(q)' # {} \/ own'[q] # {} => cont(q)' = cont(q)
  BY DEF cont
<1>2. ReliedUpon'
  <2> SUFFICES ASSUME NEW q \in Procs, NEW l \in relies(q)' PROVE l \in (mounted[cont(q)])'
    BY DEF ReliedUpon
  <2>1. l \in mounted'[cont(q)]
    BY DEF ReliedUpon
  <2>2. cont(q)' = cont(q)
    BY <1>1
  <2> QED
    BY <2>1, <2>2
<1>3. OwnersAlone'
  <2> SUFFICES ASSUME NEW p \in Procs, NEW q \in Procs, p # q, cont(p)' = cont(q)',
                      NEW l \in own'[p], l \in relies(q)'
               PROVE  FALSE
    BY DEF OwnersAlone
  <2>1. cont(p) = cont(q) /\ l \in own[p] /\ l \in relies(q)
    BY <1>1
  <2> QED
    BY <2>1 DEF OwnersAlone
<1> QED
  BY <1>2, <1>3

\* What an entry of the table stands on is mounted, and its holders own nothing:
\* nobody else owns a layer of it.
LEMMA Joinable ==
  ASSUME Shape, RefsCountHolders, ReliedUpon, OwnersAlone, NEW r \in Refs, active[r].refs # 0
  PROVE  /\ active[r].under \subseteq mounted[ContainerOf[r]]
         /\ Base(ContainerOf[r]) \subseteq active[r].under
         /\ \A q \in Procs : cont(q) = ContainerOf[r] => own[q] \cap active[r].under = {}
<1>1. PICK h \in lease : ref[h] = r
  BY HoldersFacts DEF Holders
<1>2. h \in Procs /\ own[h] = {} /\ cont(h) = ContainerOf[r]
  BY <1>1 DEF Shape, TypeOK, HandlerShape, Procs, cont
<1>3. relies(h) = active[r].under
  BY <1>1 DEF relies
<1>4. \A q \in Procs : cont(q) = ContainerOf[r] => own[q] \cap active[r].under = {}
  BY <1>2, <1>3 DEF OwnersAlone
<1>5. active[r].under \subseteq mounted[ContainerOf[r]]
  BY <1>2, <1>3 DEF ReliedUpon
<1> QED
  BY <1>4, <1>5 DEF Shape, TableShape

\* Whoever joins an entry relies on what its holders rely on.
LEMMA JoinKeeps ==
  ASSUME Shape, RefsCountHolders, ReliedUpon, OwnersAlone, NEW p \in Sessions, NEW r \in Refs,
         join(p, r), p \notin lease, own[p] = {}, UNCHANGED <<mounted, own, under>>,
         ref'[p] = r, \A q \in Procs : q # p => ref'[q] = ref[q] /\ pc'[q] = pc[q]
  PROVE  ReliedUpon' /\ OwnersAlone'
<1>0. TypeOK /\ p \in Procs /\ p \notin Requests
  BY ProcsAssumption DEF Shape, Procs
<1>1. /\ lease' = lease \cup {p} /\ active[r].refs # 0
      /\ \A s \in Refs : active'[s].under = active[s].under
  BY <1>0, JoinEffect
<1>2. /\ active[r].under \subseteq mounted[ContainerOf[r]]
      /\ \A q \in Procs : cont(q) = ContainerOf[r] => own[q] \cap active[r].under = {}
  BY <1>1, Joinable
<1>3. relies(p)' = active[r].under /\ cont(p)' = ContainerOf[r]
  BY <1>1 DEF relies, cont
<1>4. \A q \in Procs : q # p => relies(q)' = relies(q) /\ cont(q)' = cont(q)
  BY <1>0, <1>1 DEF relies, cont, TypeOK
<1>5. ReliedUpon'
  <2> SUFFICES ASSUME NEW q \in Procs PROVE relies(q)' \subseteq (mounted[cont(q)])'
    BY DEF ReliedUpon
  <2> QED
    BY <1>2, <1>3, <1>4 DEF ReliedUpon
<1>6. OwnersAlone'
  <2> SUFFICES ASSUME NEW u \in Procs, NEW q \in Procs, u # q, cont(u)' = cont(q)'
               PROVE  own'[u] \cap relies(q)' = {}
    BY DEF OwnersAlone
  <2>1. CASE u = p
    BY <2>1
  <2>2. CASE u # p /\ q = p
    BY <1>2, <1>3, <1>4, <2>2
  <2>3. CASE u # p /\ q # p
    BY <1>4, <2>3 DEF OwnersAlone
  <2> QED
    BY <2>1, <2>2, <2>3
<1> QED
  BY <1>5, <1>6

\* Every step keeps the mounts under those who are served.
LEMMA AlonePreserved ==
  ASSUME OneRefPerContainer, Shape, RefsCountHolders, ReliedUpon, OwnersAlone, [Next]_vars
  PROVE  ReliedUpon' /\ OwnersAlone'
<1>0. TypeOK
  BY DEF Shape
<1>c. \A q \in Procs : cont(q) \in Containers
  BY <1>0, ContType
<1> DEFINE Goal == ReliedUpon' /\ OwnersAlone'
<1>1. ASSUME NEW p \in Sessions, NEW r \in Refs, AcquireFast(p, r) PROVE Goal
  <2>1. /\ p \in Procs /\ p \notin Requests /\ p \notin lease /\ own[p] = {}
        /\ UNCHANGED <<mounted, own, under>>
        /\ ref'[p] = r /\ \A q \in Procs : q # p => ref'[q] = ref[q] /\ pc'[q] = pc[q]
    BY <1>0, <1>1, AcquireFastEffect, ProcsAssumption DEF Shape, HandlerShape, HoldsFm, Procs, Others
  <2>2. CASE join(p, r)
    BY <2>1, <2>2, JoinKeeps
  <2>3. CASE ~join(p, r)
    <3>1. lease' = lease /\ active' = active
      BY <1>0, <1>1, <2>3, AcquireFastEffect
    <3>2. \A q \in Procs : relies(q)' \subseteq relies(q)
      BY <1>0, <2>1, <3>1 DEF relies
    <3>3. \A q \in Procs : relies(q)' # {} \/ own'[q] # {} => ref'[q] = ref[q]
      BY <2>1, <3>1 DEF relies
    <3> QED
      BY <2>1, <3>2, <3>3, AloneFrame
  <2> QED
    BY <2>2, <2>3
<1>2. ASSUME NEW p \in Sessions, AcquireLock(p) PROVE Goal
  <2>1. \A q \in Procs : relies(q)' \subseteq relies(q)
    BY <1>0, <1>2, ProcsAssumption DEF AcquireLock, relies, users, host, locks, goto, TypeOK, Procs
  <2>2. \A q \in Procs : ref'[q] = ref[q] /\ own'[q] = own[q]
    BY <1>2 DEF AcquireLock, users
  <2>3. \A c \in Containers : mounted[c] \subseteq mounted'[c]
    BY <1>0, <1>2 DEF AcquireLock, TypeOK
  <2> QED
    BY <1>0, <1>c, <2>1, <2>2, <2>3, AloneFrame
<1>3. ASSUME NEW p \in Sessions, AcquireRecheck(p) PROVE Goal
  <2>0. PICK r \in Refs : r = ref[p]
    BY <1>0 DEF TypeOK, Procs
  <2>1. /\ p \in Procs /\ p \notin Requests /\ p \notin lease /\ own[p] = {}
        /\ UNCHANGED <<mounted, own, under>>
        /\ ref'[p] = r /\ \A q \in Procs : q # p => ref'[q] = ref[q] /\ pc'[q] = pc[q]
    BY <2>0, <1>0, <1>3, AcquireRecheckEffect, ProcsAssumption DEF Shape, HandlerShape, HoldsFm, Procs, Others
  <2>2. CASE join(p, r)
    BY <2>1, <2>2, JoinKeeps
  <2>3. CASE ~join(p, r)
    <3>1. lease' = lease /\ active' = active
      BY <2>0, <1>0, <1>3, <2>3, AcquireRecheckEffect
    <3>2. \A q \in Procs : relies(q)' \subseteq relies(q)
      BY <1>0, <2>1, <3>1 DEF relies
    <3>3. \A q \in Procs : relies(q)' # {} \/ own'[q] # {} => ref'[q] = ref[q]
      BY <2>0, <2>1
    <3> QED
      BY <2>1, <3>2, <3>3, AloneFrame
  <2> QED
    BY <2>2, <2>3
<1>4. ASSUME NEW p \in Sessions, Fallback(p) PROVE Goal
  <2>1. \A q \in Procs : relies(q)' \subseteq relies(q)
    BY <1>0, <1>4, ProcsAssumption DEF Fallback, relies, users, host, locks, goto, TypeOK, Procs
  <2>2. \A q \in Procs : ref'[q] = ref[q] /\ own'[q] = own[q]
    BY <1>4 DEF Fallback, users
  <2>3. \A c \in Containers : mounted[c] \subseteq mounted'[c]
    BY <1>0, <1>4 DEF Fallback, TypeOK
  <2> QED
    BY <1>0, <1>c, <2>1, <2>2, <2>3, AloneFrame
<1>5. ASSUME NEW p \in Sessions, ReleaseLock(p) PROVE Goal
  <2>1. \A q \in Procs : relies(q)' \subseteq relies(q)
    BY <1>0, <1>5, ProcsAssumption DEF ReleaseLock, relies, users, host, locks, goto, TypeOK, Procs
  <2>2. \A q \in Procs : ref'[q] = ref[q] /\ own'[q] = own[q]
    BY <1>5 DEF ReleaseLock, users
  <2>3. \A c \in Containers : mounted[c] \subseteq mounted'[c]
    BY <1>0, <1>5 DEF ReleaseLock, TypeOK
  <2> QED
    BY <1>0, <1>c, <2>1, <2>2, <2>3, AloneFrame
<1>6. ASSUME NEW p \in Sessions, ReleaseRef(p) PROVE Goal
  <2>0. PICK r \in Refs : r = ref[p]
    BY <1>0 DEF TypeOK, Procs
  <2>1. /\ p \in Procs /\ p \notin Requests /\ mounted' = mounted /\ ref' = ref /\ under' = under
        /\ lease' = lease \ {p} /\ pc[p] = "decref" /\ p \in lease /\ fm = p /\ own[p] = {}
        /\ \A q \in Procs : q # p => pc'[q] = pc[q] /\ own'[q] = own[q]
    BY <1>0, <1>6, ReleaseEffect, ProcsAssumption DEF Shape, HandlerShape, FmExcludes, HoldsFm, Others, Procs
  <2>2. /\ \A s \in Refs : s # r => active'[s] = active[s]
        /\ \/ active[r].refs = 1 /\ own'[p] = active[r].own
           \/ active'[r].under = active[r].under /\ own'[p] = own[p]
    BY <1>0, <1>6, <2>0, ReleaseEffect
  <2>3. active[r].refs = 1 => \A q \in lease : q # p => ref[q] # r
    <3>1. p \in Holders(r) /\ r \in Refs
      BY <1>0, <2>0, <2>1 DEF Holders, TypeOK
    <3>2. active[r].refs = 1 => Holders(r) = {p}
      BY <1>0, <3>1, HoldersFacts
    <3> QED
      BY <3>2 DEF Holders
  <2>4. \A q \in Procs : relies(q)' \subseteq relies(q)
    BY <1>0, <2>0, <2>1, <2>2, <2>3 DEF relies, TypeOK
  <2>5. CASE own'[p] = {}
    <3>1. \A q \in Procs : own'[q] \subseteq own[q]
      BY <2>1, <2>5
    <3> QED
      BY <2>1, <2>4, <3>1, AloneFrame
  <2>6. CASE own'[p] # {}
    <3>1. active[r].refs = 1
      BY <2>1, <2>2, <2>6
    <3>2. \A q \in Procs : cont(q) = cont(p) => ref[q] = r
      BY <1>0, <2>0, <2>1 DEF cont, OneRefPerContainer, TypeOK
    <3>3. \A q \in Requests : pc[q] # "using"
      BY <2>1 DEF Shape, FmExcludes, HoldsFm, Procs
    <3>4. \A q \in Procs : q # p /\ cont(q) = cont(p) => relies(q)' = {}
      BY <2>1, <2>3, <3>1, <3>2, <3>3 DEF relies
    <3>5. \A q \in Procs : cont(q)' = cont(q)
      BY <2>1 DEF cont
    <3>6. ReliedUpon'
      BY <2>1, <2>4, <3>5 DEF ReliedUpon
    <3>7. OwnersAlone'
      <4> SUFFICES ASSUME NEW u \in Procs, NEW q \in Procs, u # q, cont(u)' = cont(q)'
                   PROVE  own'[u] \cap relies(q)' = {}
        BY DEF OwnersAlone
      <4>1. cont(u) = cont(q)
        BY <3>5
      <4>2. CASE u = p
        BY <3>4, <4>1, <4>2
      <4>3. CASE u # p
        BY <2>1, <2>4, <4>1, <4>3 DEF OwnersAlone
      <4> QED
        BY <4>2, <4>3
    <3> QED
      BY <3>6, <3>7
  <2> QED
    BY <2>5, <2>6
<1>7. ASSUME NEW p \in Requests, NEW r \in Refs, BeginRequest(p, r) PROVE Goal
  <2>1. p \in Procs /\ p \notin Sessions /\ p \notin lease /\ pc'[p] = "mount" /\ own[p] = {}
    BY <1>0, <1>7, ProcsAssumption DEF BeginRequest, TypeOK, Procs, Shape, HandlerShape, HoldsFm, goto
  <2>2. /\ UNCHANGED <<mounted, own, under, lease, active>>
        /\ \A q \in Procs : q # p => ref'[q] = ref[q] /\ pc'[q] = pc[q]
    BY <1>0, <1>7, <2>1 DEF BeginRequest, TypeOK, goto
  <2>3. \A q \in Procs : relies(q)' \subseteq relies(q)
    BY <2>1, <2>2 DEF relies
  <2>4. relies(p)' = {}
    BY <2>1, <2>2 DEF relies
  <2>5. \A q \in Procs : relies(q)' # {} \/ own'[q] # {} => ref'[q] = ref[q]
    BY <2>1, <2>2, <2>4
  <2> QED
    BY <2>2, <2>3, <2>5, AloneFrame
<1>8. ASSUME NEW p \in Procs, MountNext(p) PROVE Goal
  <2>1. /\ pc[p] = "mount" /\ UNCHANGED <<lease, ref, active>> /\ p \notin lease
        /\ \A q \in Procs : q # p => pc'[q] = pc[q] /\ own'[q] = own[q] /\ under'[q] = under[q]
        /\ pc'[p] # "using"
    BY <1>0, <1>8, MountEffect DEF Shape, HandlerShape
  <2>2. \A q \in Procs : relies(q)' = relies(q) /\ cont(q)' = cont(q)
    BY <2>1 DEF relies, cont
  <2>3. \A c \in Containers : mounted[c] \subseteq mounted'[c]
    BY <1>0, <1>8, MountEffect
  <2>4. own'[p] \cap mounted[cont(p)] \subseteq own[p]
    BY <1>0, <1>8, MountEffect
  <2>5. ReliedUpon'
    BY <1>c, <2>2, <2>3 DEF ReliedUpon
  <2>6. OwnersAlone'
    <3> SUFFICES ASSUME NEW u \in Procs, NEW q \in Procs, u # q, cont(u)' = cont(q)'
                 PROVE  own'[u] \cap relies(q)' = {}
      BY DEF OwnersAlone
    <3>1. cont(u) = cont(q) /\ relies(q)' = relies(q) /\ relies(q) \subseteq mounted[cont(q)]
      BY <2>2 DEF ReliedUpon
    <3>2. own[u] \cap relies(q) = {}
      BY <3>1 DEF OwnersAlone
    <3>3. CASE u = p
      BY <2>4, <3>1, <3>2, <3>3
    <3>4. CASE u # p
      BY <2>1, <3>1, <3>2, <3>4
    <3> QED
      BY <3>3, <3>4
  <2> QED
    BY <2>5, <2>6
<1>9. ASSUME NEW p \in Procs, MountDone(p) PROVE Goal
  <2>0. PICK r \in Refs : r = ref[p]
    BY <1>0 DEF TypeOK
  <2>1. /\ mounted' = mounted /\ ref' = ref /\ fm = p /\ pc[p] = "mount" /\ p \notin lease
        /\ pc'[p] = "using"
        /\ \A q \in Procs : q # p => /\ pc'[q] = pc[q] /\ own'[q] = own[q] /\ under'[q] = under[q]
                                     /\ (q \in lease' <=> q \in lease)
        /\ \A s \in Refs : s # r => active'[s] = active[s]
    BY <1>0, <1>9, <2>0, DoneEffect DEF Shape, FmExcludes, HoldsFm, HandlerShape, Others
  <2>2. \/ /\ p \in Sessions /\ own'[p] = {} /\ p \in lease' /\ active'[r].under = under[p]
           /\ active[r].refs = 0
        \/ /\ p \notin Sessions /\ own'[p] = own[p] /\ under'[p] = under[p] /\ p \notin lease'
           /\ active' = active
    BY <1>0, <1>9, <2>0, <2>1, DoneEffect DEF Shape, TableShape
  <2>3. active[r].refs = 0 => \A q \in lease : ref[q] # r
    BY HoldersFacts DEF Holders
  <2>4. \A q \in Procs : q # p => relies(q)' = relies(q)
    <3> SUFFICES ASSUME NEW q \in Procs, q # p PROVE relies(q)' = relies(q)
      OBVIOUS
    <3>1. ref'[q] = ref[q] /\ ref[q] \in Refs
      BY <1>0, <2>1 DEF TypeOK
    <3>2. q \in lease => active'[ref[q]].under = active[ref[q]].under
      BY <2>1, <2>2, <2>3, <3>1
    <3> QED
      BY <2>1, <3>1, <3>2 DEF relies
  <2>5. relies(p)' \subseteq under[p]
    BY <2>0, <2>1, <2>2 DEF relies
  <2>6. under[p] \subseteq mounted[cont(p)]
    BY <2>1 DEF Shape, MountProgress, Progress
  <2>7. \A q \in Procs : cont(q)' = cont(q)
    BY <2>1 DEF cont
  <2>8. ReliedUpon'
    <3> SUFFICES ASSUME NEW q \in Procs PROVE relies(q)' \subseteq (mounted[cont(q)])'
      BY DEF ReliedUpon
    <3> QED
      BY <2>1, <2>4, <2>5, <2>6, <2>7 DEF ReliedUpon
  <2>9. \A q \in Procs : q # p => own[q] = {}
    BY <2>1 DEF Shape, HandlerShape, FmExcludes
  <2>10. OwnersAlone'
    <3> SUFFICES ASSUME NEW u \in Procs, NEW q \in Procs, u # q, cont(u)' = cont(q)'
                 PROVE  own'[u] \cap relies(q)' = {}
      BY DEF OwnersAlone
    <3>1. CASE u # p
      BY <2>1, <2>9, <3>1
    <3>2. CASE u = p
      <4>1. cont(u) = cont(q) /\ relies(q)' = relies(q) /\ own'[u] \subseteq own[u]
        BY <2>2, <2>4, <2>7, <3>2
      <4> QED
        BY <4>1 DEF OwnersAlone
    <3> QED
      BY <3>1, <3>2
  <2> QED
    BY <2>8, <2>10
<1>10. ASSUME NEW p \in Procs, Undo(p) PROVE Goal
  <2>1. /\ pc[p] = "undo" /\ pc'[p] # "using" /\ UNCHANGED <<lease, ref, active, under>>
        /\ \A q \in Procs : q # p => pc'[q] = pc[q] /\ own'[q] = own[q]
        /\ own'[p] \subseteq own[p]
        /\ \A c \in Containers : c # cont(p) => mounted'[c] = mounted[c]
        /\ mounted[cont(p)] \subseteq mounted'[cont(p)] \cup own[p]
    BY <1>0, <1>10, UnmountEffect DEF Undo, goto, TypeOK
  <2>2. p \notin lease
    BY <2>1 DEF Shape, HandlerShape
  <2>3. relies(p)' = {} /\ \A q \in Procs : relies(q)' \subseteq relies(q)
    BY <2>1, <2>2 DEF relies
  <2>4. ASSUME NEW q \in Procs, NEW l \in relies(q)', l \in mounted[cont(q)]
        PROVE  l \in mounted'[cont(q)]
    <3>1. q # p /\ l \in relies(q)
      BY <2>3, <2>4
    <3>2. cont(q) = cont(p) => l \notin own[p]
      BY <3>1 DEF OwnersAlone
    <3> QED
      BY <1>c, <2>1, <2>4, <3>2
  <2>5. \A q \in Procs : own'[q] \subseteq own[q]
    BY <2>1
  <2> QED
    BY <2>1, <2>3, <2>4, <2>5, AloneFrame
<1>11. ASSUME NEW p \in Procs, Close(p) PROVE Goal
  <2>1. /\ pc[p] = "close" /\ pc'[p] # "using" /\ UNCHANGED <<lease, ref, active, under>>
        /\ \A q \in Procs : q # p => pc'[q] = pc[q] /\ own'[q] = own[q]
        /\ own'[p] \subseteq own[p]
        /\ \A c \in Containers : c # cont(p) => mounted'[c] = mounted[c]
        /\ mounted[cont(p)] \subseteq mounted'[cont(p)] \cup own[p]
    BY <1>0, <1>11, UnmountEffect DEF Close, goto, TypeOK
  <2>2. p \notin lease
    BY <2>1 DEF Shape, HandlerShape
  <2>3. relies(p)' = {} /\ \A q \in Procs : relies(q)' \subseteq relies(q)
    BY <2>1, <2>2 DEF relies
  <2>4. ASSUME NEW q \in Procs, NEW l \in relies(q)', l \in mounted[cont(q)]
        PROVE  l \in mounted'[cont(q)]
    <3>1. q # p /\ l \in relies(q)
      BY <2>3, <2>4
    <3>2. cont(q) = cont(p) => l \notin own[p]
      BY <3>1 DEF OwnersAlone
    <3> QED
      BY <1>c, <2>1, <2>4, <3>2
  <2>5. \A q \in Procs : own'[q] \subseteq own[q]
    BY <2>1
  <2> QED
    BY <2>1, <2>3, <2>4, <2>5, AloneFrame
<1>12. ASSUME NEW p \in Procs, End(p) PROVE Goal
  <2>1. \A q \in Procs : relies(q)' \subseteq relies(q)
    BY <1>0, <1>12, ProcsAssumption DEF End, relies, users, host, locks, goto, TypeOK, Procs
  <2>2. \A q \in Procs : ref'[q] = ref[q] /\ own'[q] = own[q]
    BY <1>12 DEF End, users
  <2>3. \A c \in Containers : mounted[c] \subseteq mounted'[c]
    BY <1>0, <1>12 DEF End, TypeOK
  <2> QED
    BY <1>0, <1>c, <2>1, <2>2, <2>3, AloneFrame
<1>13. ASSUME NEW d \in Containers, CardinalStart(d) PROVE Goal
  <2>1. \A q \in Procs : relies(q)' \subseteq relies(q)
    BY <1>0, <1>13, ProcsAssumption DEF CardinalStart, relies, users, host, locks, goto, TypeOK, Procs
  <2>2. \A q \in Procs : ref'[q] = ref[q] /\ own'[q] = own[q]
    BY <1>13 DEF CardinalStart, users
  <2>3. \A c \in Containers : mounted[c] \subseteq mounted'[c]
    BY <1>0, <1>13 DEF CardinalStart, TypeOK
  <2> QED
    BY <1>0, <1>c, <2>1, <2>2, <2>3, AloneFrame
<1>14. ASSUME NEW d \in Containers, CardinalStop(d) PROVE Goal
  <2>1. \A q \in Procs : relies(q)' \subseteq relies(q)
    BY <1>0, <1>14, ProcsAssumption DEF CardinalStop, relies, users, host, locks, goto, TypeOK, Procs
  <2>2. \A q \in Procs : ref'[q] = ref[q] /\ own'[q] = own[q]
    BY <1>14 DEF CardinalStop, users
  <2>3. \A c \in Containers : mounted[c] \subseteq mounted'[c]
    BY <1>0, <1>14 DEF CardinalStop, TypeOK
  <2> QED
    BY <1>0, <1>c, <2>1, <2>2, <2>3, AloneFrame
<1>15. ASSUME Restart PROVE Goal
  <2>1. \A q \in Procs : relies(q)' = {} /\ own'[q] = {}
    BY <1>15 DEF Restart, relies
  <2> QED
    BY <2>1 DEF ReliedUpon, OwnersAlone
<1>16. ASSUME UNCHANGED vars PROVE Goal
  <2>1. \A q \in Procs : relies(q)' \subseteq relies(q)
    BY <1>0, <1>16, ProcsAssumption DEF vars, relies, users, host, locks, goto, TypeOK, Procs
  <2>2. \A q \in Procs : ref'[q] = ref[q] /\ own'[q] = own[q]
    BY <1>16 DEF vars, users
  <2>3. \A c \in Containers : mounted[c] \subseteq mounted'[c]
    BY <1>0, <1>16 DEF vars, TypeOK
  <2> QED
    BY <1>0, <1>c, <2>1, <2>2, <2>3, AloneFrame
<1> QED
  BY <1>1, <1>2, <1>3, <1>4, <1>5, <1>6, <1>7, <1>8, <1>9, <1>10, <1>11, <1>12,
     <1>13, <1>14, <1>15, <1>16 DEF Next, Acquire, MountWork, Release

\* No umount is refused because of a mount wings made itself: whatever is
\* mounted above the layer was made by somebody else.
LEMMA BlockersForeign ==
  ASSUME Shape, RefsCountHolders, OwnersAlone, TemporaryHasOwner,
         NEW p \in Procs, own[p] # {},
         NEW b \in above(nextToUnmount(own[p]), mounted[cont(p)])
  PROVE  b \notin temporary[cont(p)]
<1>1. SUFFICES ASSUME b \in temporary[cont(p)] PROVE FALSE
  OBVIOUS
<1> DEFINE l == nextToUnmount(own[p])
<1>2. own[p] \in SUBSET Layers /\ mounted[cont(p)] \subseteq Layers /\ cont(p) \in Containers
  BY ContType DEF Shape, TypeOK
<1>3. l \in own[p] /\ \A k \in own[p] : k <= l
  BY <1>2, HighestFirst
<1>4. l < b /\ l \in Nat /\ b \in Nat
  <2>1. l \in Nat /\ Overlay \in Nat /\ b \in mounted[cont(p)]
    BY <1>2, <1>3, StackAssumption DEF Layers, above
  <2> HIDE DEF l
  <2>2. b \in above(l, mounted[cont(p)])
    BY DEF l
  <2> QED
    BY <1>2, <2>1, <2>2, StackAssumption DEF above, Layers
<1>8. above(l, mounted[cont(p)]) # {}
  OBVIOUS
<1>5. b \notin own[p]
  BY <1>3, <1>4
<1> HIDE DEF l
<1>6. CASE \E q \in Procs : cont(q) = cont(p) /\ b \in own[q]
  BY <1>5, <1>6 DEF Shape, HandlerShape, FmExcludes
<1>7. CASE \E r \in Refs : ContainerOf[r] = cont(p) /\ b \in active[r].own
  <2>1. PICK r \in Refs : ContainerOf[r] = cont(p) /\ b \in active[r].own
    BY <1>7
  <2>2. active[r].refs # 0
    BY <2>1 DEF Shape, TableShape
  <2>0. Holders(r) # {}
    BY <2>2, HoldersFacts
  <2>3. PICK h \in lease : ref[h] = r
    BY <2>0 DEF Holders
  <2>4. h \in Procs /\ own[h] = {} /\ cont(h) = cont(p)
    BY <2>1, <2>3 DEF Shape, TypeOK, HandlerShape, Procs, cont
  <2>5. relies(h) = active[r].under
    BY <2>3 DEF relies
  <2>6. l \notin active[r].under
    BY <1>3, <2>4, <2>5 DEF OwnersAlone
  <2>7. l \in Base(cont(p))
    <3>1. l \in Stack(cont(p)) /\ l \in Layers
      BY <1>2, <1>3 DEF Shape, OwnLayers
    <3>2. l <= Overlay
      BY <1>8, <3>1, StackAssumption DEF above, Layers
    <3> QED
      BY <3>1, <3>2 DEF Base
  <2> QED
    BY <2>1, <2>2, <2>6, <2>7 DEF Shape, TableShape
<1> QED
  BY <1>1, <1>2, <1>6, <1>7 DEF TemporaryHasOwner

\* What is left after one umount call still has its owner.
LEMMA UnmountKeepsOwners ==
  ASSUME Shape, RefsCountHolders, OwnersAlone, TemporaryHasOwner,
         NEW p \in Procs, unmountNext(p), ref' = ref, active' = active
  PROVE  TemporaryHasOwner'
<1> DEFINE l == nextToUnmount(own[p])
           c == cont(p)
<1>0. TypeOK /\ c \in Containers /\ own[p] # {}
  BY ContType DEF Shape, unmountNext
<1>1. temporary' = [temporary EXCEPT ![c] = temporary[c] \ {l}]
  <2>1. CASE above(l, mounted[c]) = {}
    BY <2>1 DEF unmountNext
  <2>2. CASE above(l, mounted[c]) # {}
    <3>1. ~(above(l, mounted[c]) \subseteq temporary[c])
      BY <1>0, <2>2, BlockersForeign
    <3> QED
      BY <3>1, <2>2 DEF unmountNext
  <2> QED
    BY <2>1, <2>2
<1>2. own' = [own EXCEPT ![p] = own[p] \ {l}]
  BY DEF unmountNext
<1> HIDE DEF l
<1>3. ASSUME NEW d \in Containers, NEW k \in temporary'[d]
      PROVE  \/ \E r \in Refs : ContainerOf[r] = d /\ k \in active[r].own
             \/ \E q \in Procs : cont(q) = d /\ k \in own'[q]
  <2>1. k \in temporary[d] /\ (d = c => k # l)
    BY <1>0, <1>1, <1>3 DEF TypeOK
  <2>2. CASE \E r \in Refs : ContainerOf[r] = d /\ k \in active[r].own
    BY <2>2
  <2>3. ASSUME NEW q \in Procs, cont(q) = d, k \in own[q] PROVE k \in own'[q]
    BY <1>0, <1>2, <2>1, <2>3 DEF TypeOK
  <2> QED
    BY <2>1, <2>2, <2>3 DEF TemporaryHasOwner
<1>4. \A q \in Procs : cont(q)' = cont(q)
  BY DEF cont
<1> QED
  BY <1>3, <1>4 DEF TemporaryHasOwner

\* Every step keeps an owner for every temporary mount.
LEMMA OwnerPreserved ==
  ASSUME Shape, RefsCountHolders, OwnersAlone, TemporaryHasOwner, [Next]_vars
  PROVE  TemporaryHasOwner'
<1>0. TypeOK
  BY DEF Shape
<1>1. ASSUME NEW p \in Sessions, NEW r \in Refs, AcquireFast(p, r) PROVE TemporaryHasOwner'
  <2>1. /\ \A s \in Refs : active'[s].own = active[s].own
        /\ UNCHANGED <<temporary, own>>
        /\ \A q \in Procs : own[q] # {} => ref'[q] = ref[q]
    BY <1>0, <1>1, AcquireFastEffect, ProcsAssumption DEF Shape, HandlerShape, HoldsFm, Others, Procs
  <2> QED
    BY <2>1 DEF TemporaryHasOwner, cont
<1>2. ASSUME NEW p \in Sessions, AcquireLock(p) PROVE TemporaryHasOwner'
  BY <1>0, <1>2 DEF AcquireLock, users, locks, TemporaryHasOwner, cont
<1>3. ASSUME NEW p \in Sessions, AcquireRecheck(p) PROVE TemporaryHasOwner'
  <2>1. /\ \A s \in Refs : active'[s].own = active[s].own
        /\ UNCHANGED <<temporary, own>>
        /\ \A q \in Procs : own[q] # {} => ref'[q] = ref[q]
    BY <1>0, <1>3, AcquireRecheckEffect, ProcsAssumption DEF Shape, HandlerShape, HoldsFm, Others, Procs
  <2> QED
    BY <2>1 DEF TemporaryHasOwner, cont
<1>4. ASSUME NEW p \in Sessions, Fallback(p) PROVE TemporaryHasOwner'
  BY <1>0, <1>4 DEF Fallback, users, locks, TemporaryHasOwner, cont
<1>5. ASSUME NEW p \in Sessions, ReleaseLock(p) PROVE TemporaryHasOwner'
  BY <1>0, <1>5 DEF ReleaseLock, users, locks, TemporaryHasOwner, cont
<1>6. ASSUME NEW p \in Sessions, ReleaseRef(p) PROVE TemporaryHasOwner'
  <2>0. /\ p \in Procs /\ own[p] = {} /\ ref[p] \in Refs /\ UNCHANGED <<ref, temporary>>
        /\ \A q \in Procs : q # p => own'[q] = own[q]
        /\ \A s \in Refs : s # ref[p] => active'[s] = active[s]
        /\ \/ active'[ref[p]].own = active[ref[p]].own
           \/ own'[p] = active[ref[p]].own
    BY <1>0, <1>6, ReleaseEffect DEF Shape, HandlerShape, Others, Procs
  <2>2. \A q \in Procs : cont(q)' = cont(q)
    BY <2>0 DEF cont
  <2>3. cont(p) = ContainerOf[ref[p]]
    BY DEF cont
  <2> QED
    BY <2>0, <2>2, <2>3 DEF TemporaryHasOwner
<1>7. ASSUME NEW p \in Requests, NEW r \in Refs, BeginRequest(p, r) PROVE TemporaryHasOwner'
  <2>1. p \in Procs /\ own[p] = {}
    BY <1>0, <1>7, ProcsAssumption DEF BeginRequest, Procs, Shape, HandlerShape, HoldsFm
  <2>2. /\ UNCHANGED <<active, temporary, own>>
        /\ \A q \in Procs : own[q] # {} => ref'[q] = ref[q]
    BY <1>0, <1>7, <2>1 DEF BeginRequest, TypeOK
  <2> QED
    BY <2>2 DEF TemporaryHasOwner, cont
<1>8. ASSUME NEW p \in Procs, MountNext(p) PROVE TemporaryHasOwner'
  <2>1. /\ UNCHANGED <<active, ref>> /\ cont(p) \in Containers
        /\ \A q \in Procs : own[q] \subseteq own'[q] /\ cont(q)' = cont(q)
    BY <1>0, <1>8, MountEffect DEF cont
  <2>2. \A c \in Containers : \A l \in temporary'[c] :
          l \in temporary[c] \/ (c = cont(p) /\ l \in own'[p])
    BY <1>0, <1>8, <2>1, MountEffect
  <2> QED
    BY <2>1, <2>2 DEF TemporaryHasOwner
<1>9. ASSUME NEW p \in Procs, MountDone(p) PROVE TemporaryHasOwner'
  <2>1. /\ UNCHANGED <<ref, temporary>> /\ ref[p] \in Refs
        /\ \A q \in Procs : q # p => own'[q] = own[q]
        /\ \A s \in Refs : s # ref[p] => active'[s] = active[s]
    BY <1>0, <1>9, DoneEffect DEF Others
  <2>2. /\ active'[ref[p]].own = own[p] \/ own'[p] = own[p]
        /\ active[ref[p]].own = {} \/ active'[ref[p]].own = active[ref[p]].own
    BY <1>0, <1>9, DoneEffect DEF Shape, TableShape
  <2>3. cont(p) = ContainerOf[ref[p]] /\ \A q \in Procs : cont(q)' = cont(q)
    BY <2>1 DEF cont
  <2> QED
    BY <2>1, <2>2, <2>3 DEF TemporaryHasOwner
<1>10. ASSUME NEW p \in Procs, Undo(p) PROVE TemporaryHasOwner'
  <2>1. CASE unmountNext(p)
    BY <1>10, <2>1, UnmountKeepsOwners DEF Undo
  <2>2. CASE ~unmountNext(p)
    BY <1>10, <2>2 DEF Undo, TemporaryHasOwner, cont
  <2> QED
    BY <2>1, <2>2
<1>11. ASSUME NEW p \in Procs, Close(p) PROVE TemporaryHasOwner'
  <2>1. CASE unmountNext(p)
    BY <1>11, <2>1, UnmountKeepsOwners DEF Close
  <2>2. CASE ~unmountNext(p)
    BY <1>11, <2>2 DEF Close, TemporaryHasOwner, cont
  <2> QED
    BY <2>1, <2>2
<1>12. ASSUME NEW p \in Procs, End(p) PROVE TemporaryHasOwner'
  BY <1>0, <1>12 DEF End, users, locks, TemporaryHasOwner, cont
<1>13. ASSUME NEW c \in Containers, CardinalStart(c) PROVE TemporaryHasOwner'
  BY <1>0, <1>13 DEF CardinalStart, users, locks, TemporaryHasOwner, cont
<1>14. ASSUME NEW c \in Containers, CardinalStop(c) PROVE TemporaryHasOwner'
  BY <1>0, <1>14 DEF CardinalStop, users, locks, TemporaryHasOwner, cont
<1>15. CASE Restart
  BY <1>15 DEF Restart, TemporaryHasOwner
<1>16. CASE UNCHANGED vars
  BY <1>0, <1>16 DEF vars, users, locks, TemporaryHasOwner, cont
<1> QED
  BY <1>1, <1>2, <1>3, <1>4, <1>5, <1>6, <1>7, <1>8, <1>9, <1>10, <1>11, <1>12,
     <1>13, <1>14, <1>15, <1>16 DEF Next, Acquire, MountWork, Release

\* How the state of one container is seen in the abstract specification.
Up(c) == Overlay \in mounted[c]

\* A step that leaves the overlay and the users alone is a stutter of the
\* shared mount.
LEMMA AsStutter ==
  ASSUME NEW c, Served(c)' = Served(c), Up(c)' <=> Up(c)
  PROVE  UNCHANGED Shared(c)!vars
  BY DEF Shared!vars, Up

\* A user that is given a root joins the shared mount.
LEMMA AsEnter ==
  ASSUME NEW c, NEW p \in Procs, p \notin Served(c), Served(c)' = Served(c) \cup {p},
         Up(c), Up(c)'
  PROVE  Shared(c)!Next
  BY DEF Shared!Next, Shared!Enter, Up

\* A user that ends leaves it.
LEMMA AsLeave ==
  ASSUME NEW c, NEW p \in Procs, p \in Served(c), Served(c)' = Served(c) \ {p}, Up(c)' <=> Up(c)
  PROVE  Shared(c)!Next
  BY DEF Shared!Next, Shared!Leave, Up

\* The overlay is mounted.
LEMMA AsMount ==
  ASSUME NEW c, Served(c)' = Served(c), ~Up(c), Up(c)'
  PROVE  Shared(c)!Next
  BY DEF Shared!Next, Shared!Mount, Up

\* The overlay is unmounted when nobody uses it.
LEMMA AsUnmount ==
  ASSUME NEW c, Served(c) = {}, Served(c)' = {}, Up(c), ~Up(c)'
  PROVE  Shared(c)!Next
  BY DEF Shared!Next, Shared!Unmount, Up

\* A restart throws everybody out.
LEMMA AsRestart ==
  ASSUME NEW c, Served(c)' = {}, Up(c)' => Up(c)
  PROVE  Shared(c)!Next
<1>1. CASE Up(c)'
  BY <1>1 DEF Shared!Next, Shared!Restart, Up
<1>2. CASE ~Up(c)'
  BY <1>2 DEF Shared!Next, Shared!Restart, Up
<1> QED
  BY <1>1, <1>2

\* Whoever is served relies on its root, so the shared mount is up while somebody
\* uses it, and nobody else owns the overlay.
LEMMA ServedRelies ==
  ASSUME Shape, RefsCountHolders, NEW c \in Containers, NEW p \in Served(c)
  PROVE  p \in Procs /\ cont(p) = c /\ relies(p) = rootOf(p) /\ Base(c) \subseteq relies(p)
<1>1. p \in Procs /\ pc[p] = "using" /\ cont(p) = c
  BY DEF Served
<1>2. CASE p \in lease
  <2>1. p \notin Requests /\ ref[p] \in Refs /\ c = ContainerOf[ref[p]]
    BY <1>1, <1>2, ProcsAssumption DEF Shape, TypeOK, cont
  <2>2. p \in Holders(ref[p])
    BY <1>2 DEF Holders
  <2>3. active[ref[p]].refs # 0
    BY <2>1, <2>2, HoldersFacts
  <2> QED
    BY <1>1, <1>2, <2>1, <2>3 DEF Shape, TableShape, relies, rootOf
<1>3. CASE p \notin lease
  <2>1. p \in Requests
    BY <1>3 DEF Served
  <2> QED
    BY <1>1, <1>3, <2>1 DEF Shape, MountProgress, Progress, relies, rootOf
<1> QED
  BY <1>2, <1>3

\* The overlay belongs to what nobody does without.
LEMMA OverlayInBase == ASSUME NEW c PROVE Overlay \in Base(c)
  BY StackAssumption DEF Base, Stack, Layers

\* Every step is a step of the abstract specification of every container.
LEMMA StepImplements ==
  ASSUME Shape, RefsCountHolders, ReliedUpon, OwnersAlone, [Next]_vars, NEW c \in Containers
  PROVE  Shared(c)!Next \/ UNCHANGED Shared(c)!vars
<1>0. TypeOK
  BY DEF Shape
<1> DEFINE Goal == Shared(c)!Next \/ UNCHANGED Shared(c)!vars
<1>1. ASSUME NEW p \in Sessions, NEW r \in Refs, AcquireFast(p, r) PROVE Goal
  <2>1. /\ p \in Procs /\ p \notin Requests /\ p \notin lease /\ mounted' = mounted
        /\ ref'[p] = r /\ \A q \in Procs : q # p => ref'[q] = ref[q] /\ pc'[q] = pc[q]
    BY <1>0, <1>1, AcquireFastEffect, ProcsAssumption DEF Shape, HandlerShape, Procs, Others
  <2>2. CASE join(p, r)
    <3>1. Overlay \in mounted[ContainerOf[r]]
      BY <1>0, <2>2, Joinable, JoinEffect, OverlayInBase, <2>1
    <3>2. lease' = lease \cup {p} /\ pc'[p] = "using" /\ cont(p)' = ContainerOf[r]
      BY <1>0, <2>1, <2>2, JoinEffect DEF TypeOK, cont
    <3>3. p \notin Served(c)
      BY <2>1 DEF Served
    <3>4. CASE c = ContainerOf[r]
      <4>1. Served(c)' = Served(c) \cup {p}
        BY <2>1, <3>2, <3>4 DEF Served, cont
      <4>2. Up(c) /\ Up(c)'
        BY <2>1, <3>1, <3>4 DEF Up
      <4> QED
        BY <2>1, <3>3, <4>1, <4>2, AsEnter
    <3>5. CASE c # ContainerOf[r]
      <4>1. Served(c)' = Served(c)
        BY <2>1, <3>2, <3>5 DEF Served, cont
      <4> QED
        BY <2>1, <4>1, AsStutter DEF Up
    <3> QED
      BY <3>4, <3>5
  <2>3. CASE ~join(p, r)
    <3>1. lease' = lease
      BY <1>0, <1>1, <2>3, AcquireFastEffect
    <3>2. Served(c)' = Served(c)
      BY <2>1, <3>1 DEF Served, cont
    <3> QED
      BY <2>1, <3>2, AsStutter DEF Up
  <2> QED
    BY <2>2, <2>3
<1>2. ASSUME NEW p \in Sessions, AcquireLock(p) PROVE Goal
  <2>1. Served(c)' = Served(c)
    BY <1>0, <1>2 DEF AcquireLock, Served, cont, users, locks, goto, TypeOK, Procs
  <2>2. mounted' = mounted
    BY <1>2 DEF AcquireLock, users
  <2> QED
    BY <2>1, <2>2, AsStutter DEF Up
<1>3. ASSUME NEW p \in Sessions, AcquireRecheck(p) PROVE Goal
  <2>0. PICK r \in Refs : r = ref[p]
    BY <1>0 DEF TypeOK, Procs
  <2>1. /\ p \in Procs /\ p \notin Requests /\ p \notin lease /\ mounted' = mounted
        /\ ref'[p] = r /\ \A q \in Procs : q # p => ref'[q] = ref[q] /\ pc'[q] = pc[q]
    BY <2>0, <1>0, <1>3, AcquireRecheckEffect, ProcsAssumption DEF Shape, HandlerShape, Procs, Others
  <2>2. CASE join(p, r)
    <3>1. Overlay \in mounted[ContainerOf[r]]
      BY <1>0, <2>2, Joinable, JoinEffect, OverlayInBase, <2>1
    <3>2. lease' = lease \cup {p} /\ pc'[p] = "using" /\ cont(p)' = ContainerOf[r]
      BY <1>0, <2>1, <2>2, JoinEffect DEF TypeOK, cont
    <3>3. p \notin Served(c)
      BY <2>1 DEF Served
    <3>4. CASE c = ContainerOf[r]
      <4>1. Served(c)' = Served(c) \cup {p}
        BY <2>1, <3>2, <3>4 DEF Served, cont
      <4>2. Up(c) /\ Up(c)'
        BY <2>1, <3>1, <3>4 DEF Up
      <4> QED
        BY <2>1, <3>3, <4>1, <4>2, AsEnter
    <3>5. CASE c # ContainerOf[r]
      <4>1. Served(c)' = Served(c)
        BY <2>1, <3>2, <3>5 DEF Served, cont
      <4> QED
        BY <2>1, <4>1, AsStutter DEF Up
    <3> QED
      BY <3>4, <3>5
  <2>3. CASE ~join(p, r)
    <3>1. lease' = lease
      BY <2>0, <1>0, <1>3, <2>3, AcquireRecheckEffect
    <3>2. Served(c)' = Served(c)
      BY <2>1, <3>1 DEF Served, cont
    <3> QED
      BY <2>1, <3>2, AsStutter DEF Up
  <2> QED
    BY <2>2, <2>3
<1>4. ASSUME NEW p \in Sessions, Fallback(p) PROVE Goal
  <2>1. Served(c)' = Served(c)
    BY <1>0, <1>4, ProcsAssumption DEF Fallback, Served, cont, users, locks, goto, TypeOK, Procs, Shape, HandlerShape
  <2>2. mounted' = mounted
    BY <1>4 DEF Fallback, users
  <2> QED
    BY <2>1, <2>2, AsStutter DEF Up
<1>5. ASSUME NEW p \in Sessions, ReleaseLock(p) PROVE Goal
  <2>1. Served(c)' = Served(c)
    BY <1>0, <1>5 DEF ReleaseLock, Served, cont, users, locks, goto, TypeOK, Procs
  <2>2. mounted' = mounted
    BY <1>5 DEF ReleaseLock, users
  <2> QED
    BY <2>1, <2>2, AsStutter DEF Up
<1>6. ASSUME NEW p \in Sessions, ReleaseRef(p) PROVE Goal
  <2>1. /\ p \in Procs /\ p \notin Requests /\ mounted' = mounted /\ ref' = ref
        /\ lease' = lease \ {p} /\ pc[p] = "decref" /\ p \notin lease'
        /\ \A q \in Procs : q # p => pc'[q] = pc[q]
    BY <1>0, <1>6, ReleaseEffect, ProcsAssumption DEF Others, Procs
  <2>2. Served(c)' = Served(c)
    BY <2>1 DEF Served, cont
  <2> QED
    BY <2>1, <2>2, AsStutter DEF Up
<1>7. ASSUME NEW p \in Requests, NEW r \in Refs, BeginRequest(p, r) PROVE Goal
  <2>1. /\ p \in Procs /\ pc[p] = "idle" /\ pc'[p] = "mount"
        /\ UNCHANGED <<mounted, lease>>
        /\ \A q \in Procs : q # p => ref'[q] = ref[q] /\ pc'[q] = pc[q]
    BY <1>0, <1>7 DEF BeginRequest, TypeOK, Procs, goto
  <2>2. Served(c)' = Served(c)
    BY <2>1 DEF Served, cont
  <2> QED
    BY <2>1, <2>2, AsStutter DEF Up
<1>8. ASSUME NEW p \in Procs, MountNext(p) PROVE Goal
  <2>1. /\ pc[p] = "mount" /\ pc'[p] # "using" /\ UNCHANGED <<lease, ref>>
        /\ \A q \in Procs : q # p => pc'[q] = pc[q]
    BY <1>0, <1>8, MountEffect
  <2>0. mounted[c] \subseteq mounted'[c]
    BY <1>0, <1>8, MountEffect
  <2>2. Served(c)' = Served(c)
    BY <2>1 DEF Served, cont
  <2>3. Up(c) => Up(c)'
    BY <2>0 DEF Up
  <2> QED
    BY <2>2, <2>3, AsStutter, AsMount
<1>9. ASSUME NEW p \in Procs, MountDone(p) PROVE Goal
  <2>1. /\ mounted' = mounted /\ ref' = ref /\ pc[p] = "mount" /\ pc'[p] = "using"
        /\ p \in lease' \/ p \in Requests
        /\ \A q \in Procs : q # p => pc'[q] = pc[q] /\ (q \in lease' <=> q \in lease)
    BY <1>0, <1>9, DoneEffect DEF Others, Procs
  <2>2. p \notin Served(c)
    BY <2>1 DEF Served
  <2>3. CASE c = cont(p)
    <3>1. Served(c)' = Served(c) \cup {p}
      BY <2>1, <2>3 DEF Served, cont
    <3>2. Overlay \in Layers /\ Overlay < Top + 1 /\ Overlay \in Base(cont(p))
      BY OverlayInBase, StackAssumption DEF Layers
    <3>4. at[p] = Top + 1
      BY <1>0, <1>9, DoneEffect
    <3>5. Overlay \in mounted[c]
      BY <2>1, <2>3, <3>2, <3>4 DEF Shape, MountProgress, Progress
    <3> QED
      BY <2>1, <2>2, <3>1, <3>5, AsEnter DEF Up
  <2>4. CASE c # cont(p)
    <3>1. Served(c)' = Served(c)
      BY <2>1, <2>4 DEF Served, cont
    <3> QED
      BY <2>1, <3>1, AsStutter DEF Up
  <2> QED
    BY <2>3, <2>4
<1>10. ASSUME NEW p \in Procs, Undo(p) PROVE Goal
  <2>1. /\ pc[p] = "undo" /\ pc'[p] # "using" /\ UNCHANGED <<lease, ref>>
        /\ \A q \in Procs : q # p => pc'[q] = pc[q]
        /\ \A d \in Containers : d # cont(p) => mounted'[d] = mounted[d]
        /\ \A d \in Containers : mounted'[d] \subseteq mounted[d]
        /\ mounted[cont(p)] \subseteq mounted'[cont(p)] \cup own[p]
    BY <1>0, <1>10, UnmountEffect DEF Undo, goto, TypeOK
  <2>2. Served(c)' = Served(c)
    BY <2>1 DEF Served, cont
  <2>3. CASE Up(c)' <=> Up(c)
    BY <2>2, <2>3, AsStutter
  <2>4. CASE ~(Up(c)' <=> Up(c))
    <3>1. Up(c) /\ ~Up(c)' /\ c = cont(p) /\ Overlay \in own[p]
      BY <2>1, <2>4 DEF Up
    <3>2. ASSUME NEW q \in Served(c) PROVE FALSE
      <4>1. q \in Procs /\ cont(q) = c /\ Overlay \in relies(q)
        BY ServedRelies, OverlayInBase
      <4>2. q # p
        BY <2>1 DEF Served
      <4> QED
        BY <3>1, <4>1, <4>2 DEF OwnersAlone
    <3>3. Served(c) = {}
      BY <3>2
    <3> QED
      BY <2>2, <3>1, <3>3, AsUnmount
  <2> QED
    BY <2>3, <2>4
<1>11. ASSUME NEW p \in Procs, Close(p) PROVE Goal
  <2>1. /\ pc[p] = "close" /\ pc'[p] # "using" /\ UNCHANGED <<lease, ref>>
        /\ \A q \in Procs : q # p => pc'[q] = pc[q]
        /\ \A d \in Containers : d # cont(p) => mounted'[d] = mounted[d]
        /\ \A d \in Containers : mounted'[d] \subseteq mounted[d]
        /\ mounted[cont(p)] \subseteq mounted'[cont(p)] \cup own[p]
    BY <1>0, <1>11, UnmountEffect DEF Close, goto, TypeOK
  <2>2. Served(c)' = Served(c)
    BY <2>1 DEF Served, cont
  <2>3. CASE Up(c)' <=> Up(c)
    BY <2>2, <2>3, AsStutter
  <2>4. CASE ~(Up(c)' <=> Up(c))
    <3>1. Up(c) /\ ~Up(c)' /\ c = cont(p) /\ Overlay \in own[p]
      BY <2>1, <2>4 DEF Up
    <3>2. ASSUME NEW q \in Served(c) PROVE FALSE
      <4>1. q \in Procs /\ cont(q) = c /\ Overlay \in relies(q)
        BY ServedRelies, OverlayInBase
      <4>2. q # p
        BY <2>1 DEF Served
      <4> QED
        BY <3>1, <4>1, <4>2 DEF OwnersAlone
    <3>3. Served(c) = {}
      BY <3>2
    <3> QED
      BY <2>2, <3>1, <3>3, AsUnmount
  <2> QED
    BY <2>3, <2>4
<1>12. ASSUME NEW p \in Procs, End(p) PROVE Goal
  <2>1. /\ UNCHANGED <<mounted, lease, ref>> /\ pc'[p] # "using"
        /\ \A q \in Procs : q # p => pc'[q] = pc[q]
    BY <1>0, <1>12 DEF End, goto, TypeOK
  <2>2. Served(c)' = Served(c) \ {p}
    BY <2>1 DEF Served, cont
  <2>3. CASE p \in Served(c)
    BY <2>1, <2>2, <2>3, AsLeave DEF Up
  <2>4. CASE p \notin Served(c)
    BY <2>1, <2>2, <2>4, AsStutter DEF Up
  <2> QED
    BY <2>3, <2>4
<1>13. ASSUME NEW d \in Containers, CardinalStart(d) PROVE Goal
  <2>1. Served(c)' = Served(c)
    BY <1>13 DEF CardinalStart, users, Served, cont
  <2>2. Up(c) => Up(c)'
    BY <1>0, <1>13, StackAssumption DEF CardinalStart, TypeOK, Up
  <2> QED
    BY <2>1, <2>2, AsStutter, AsMount
<1>14. ASSUME NEW d \in Containers, CardinalStop(d) PROVE Goal
  <2>1. Served(c)' = Served(c)
    BY <1>0, <1>14 DEF CardinalStop, Served, cont, users, locks, goto, TypeOK, Procs
  <2>2. mounted' = mounted
    BY <1>14 DEF CardinalStop, users
  <2> QED
    BY <2>1, <2>2, AsStutter DEF Up
<1>15. ASSUME Restart PROVE Goal
  <2>1. Served(c)' = {}
    BY <1>15 DEF Restart, Served
  <2>2. Up(c)' => Up(c)
    BY <1>15 DEF Restart, Up
  <2> QED
    BY <2>1, <2>2, AsRestart
<1>16. ASSUME UNCHANGED vars PROVE Goal
  <2>1. Served(c)' = Served(c)
    BY <1>0, <1>16 DEF vars, Served, cont, users, locks, goto, TypeOK, Procs
  <2>2. mounted' = mounted
    BY <1>16 DEF vars, users
  <2> QED
    BY <2>1, <2>2, AsStutter DEF Up
<1> QED
  BY <1>1, <1>2, <1>3, <1>4, <1>5, <1>6, <1>7, <1>8, <1>9, <1>10, <1>11, <1>12,
     <1>13, <1>14, <1>15, <1>16 DEF Next, Acquire, MountWork, Release

-----------------------------------------------------------------------------
\* The initial states satisfy every part of the invariant.
LEMMA Initial == Init => Shape /\ RefsCountHolders
                             /\ ReliedUpon /\ OwnersAlone /\ TemporaryHasOwner
<1> SUFFICES ASSUME Init PROVE Shape /\ RefsCountHolders
                                  /\ ReliedUpon /\ OwnersAlone /\ TemporaryHasOwner
  OBVIOUS
<1>1. (CHOOSE r \in Refs : TRUE) \in Refs
  BY RefsAssumption
<1>2. TypeOK
  <2>1. /\ mounted \in [Containers -> SUBSET Layers] /\ running \subseteq Containers
        /\ leftover \in [Containers -> BOOLEAN] /\ imaged \subseteq Containers
    BY DEF Init
  <2>2. active \in [Refs -> Leases]
    BY DEF Init, NoLease, Leases
  <2>3. /\ fm \in Procs \cup {Nobody} /\ lmu \in Sessions \cup {Nobody}
        /\ pc \in [Procs -> {"idle", "missed", "recheck", "mount", "undo", "fallback",
                             "using", "release", "decref", "close"}]
        /\ lease \subseteq Sessions
    BY DEF Init
  <2>4. ref \in [Procs -> Refs] /\ at \in [Procs -> 1..(Top + 1)]
    BY <1>1, StackAssumption DEF Init
  <2>5. /\ own \in [Procs -> SUBSET Layers] /\ under \in [Procs -> SUBSET Layers]
        /\ temporary \in [Containers -> SUBSET Layers]
    BY DEF Init
  <2> QED
    BY <2>1, <2>2, <2>3, <2>4, <2>5 DEF TypeOK
<1>3. FmExcludes /\ HandlerShape /\ MountProgress /\ TableShape
  BY <1>2 DEF Init, FmExcludes, HandlerShape, MountProgress, Progress, TableShape, HoldsFm, NoLease, TypeOK, Procs
<1>9. OwnLayers
  BY DEF Init, OwnLayers, NoLease
<1>4. \A r \in Refs : Holders(r) = {}
  BY DEF Init, Holders
<1>5. RefsCountHolders
  BY <1>4, FS_EmptySet DEF Init, RefsCountHolders, NoLease
<1>6. \A p \in Procs : relies(p) = {}
  BY DEF Init, relies
<1>7. ReliedUpon /\ OwnersAlone
  BY <1>6 DEF Init, ReliedUpon, OwnersAlone
<1>8. TemporaryHasOwner
  BY DEF Init, TemporaryHasOwner
<1> QED
  BY <1>2, <1>3, <1>5, <1>7, <1>8, <1>9 DEF Shape

\* The variables keep their types, fmMountMu excludes, the handlers and the
\* table keep their shape: however the containers are addressed.
THEOREM ShapeInvariant == Spec => [](Shape /\ RefsCountHolders)
<1>1. Shape /\ RefsCountHolders /\ [Next]_vars => (Shape /\ RefsCountHolders)'
  BY ShapePreserved, CountPreserved
<1> QED
  BY <1>1, Initial, PTL DEF Spec

\* TypeOK, for any sessions, requests, refs, containers and layers.
THEOREM TypeCorrect == Spec => []TypeOK
<1>1. Shape => TypeOK
  BY DEF Shape
<1> QED
  BY <1>1, ShapeInvariant, PTL

\* The reference count of every entry is the number of release functions that
\* are outstanding, under any interleaving, failed mount and restart.
THEOREM CountsHolders == Spec => []RefsCountHolders
  BY ShapeInvariant, PTL

\* The invariant of the leases when every container has one ref.
THEOREM LeaseInvariant == ASSUME OneRefPerContainer PROVE Spec => []IInv
<1>1. IInv /\ [Next]_vars => IInv'
  BY ShapePreserved, CountPreserved, AlonePreserved, OwnerPreserved DEF IInv
<1>2. Init => IInv
  BY Initial DEF IInv
<1> QED
  BY <1>1, <1>2, PTL DEF Spec

\* Nobody's files are unmounted under him: the overlay and its disk image, and
\* every volume that was there when its root was prepared, are mounted under
\* every session with a lease and every file-manager request.
THEOREM MountedWhileServed == ASSUME OneRefPerContainer PROVE Spec => []ServedFromMount
<1>1. IInv => ServedFromMount
  BY ServedRelies DEF IInv, ReliedUpon, ServedFromMount
<1> QED
  BY <1>1, LeaseInvariant, PTL

\* Every temporary mount has an owner that will unmount it.
THEOREM NoMountLost == ASSUME OneRefPerContainer PROVE Spec => []TemporaryHasOwner
<1>1. IInv => TemporaryHasOwner
  BY DEF IInv
<1> QED
  BY <1>1, LeaseInvariant, PTL

\* The leases implement the shared mount.
THEOREM Implements == ASSUME OneRefPerContainer PROVE Spec => ImplementsSharedMount
<1>1. Init => \A c \in Containers : Shared(c)!Init
  BY DEF Init, Shared!Init, Served
<1>2. IInv /\ [Next]_vars => \A c \in Containers : Shared(c)!Next \/ UNCHANGED Shared(c)!vars
  BY StepImplements DEF IInv
<1>3. IInv /\ [Next]_vars => [\A c \in Containers : Shared(c)!Next \/ UNCHANGED Shared(c)!vars]_vars
  BY <1>2
<1> QED
  BY <1>1, <1>3, LeaseInvariant, PTL DEF Spec, ImplementsSharedMount

-----------------------------------------------------------------------------
(***************************************************************************)
(* Temporary starts: no container is left running by a session that started *)
(* it, whoever else starts and stops containers.                           *)
(***************************************************************************)

\* Where a session is in MountLease while it goes through sftpRootViaStart.
StepShape ==
  \A p \in Sessions :
    /\ step[p] = "poll" => pc[p] = "fallback"
    /\ step[p] = "serving" => pc[p] = "using"
    /\ step[p] = "stop" => pc[p] = "idle"
    /\ p \in started => step[p] # "none"
    /\ p \in lease => step[p] = "none"

TempInv == Shape /\ TempTypeOK /\ StepShape /\ NotLeftRunning

\* What a step of the leases leaves alone: the containers that run, the ref of
\* every session but one that is idle, and where a session waits.
LEMMA LeaseFrame ==
  ASSUME TypeOK, TempTypeOK, StepShape, LeaseStep
  PROVE  /\ running' = running
         /\ \A p \in Sessions : step[p] # "none" =>
              pc'[p] = pc[p] /\ ref'[p] = ref[p] /\ (p \in lease' => p \in lease)
<1> USE DEF TypeOK, goto, join
<1>1. ASSUME NEW p \in Sessions, step[p] = "none", Acquire(p)
      PROVE  /\ running' = running
             /\ \A q \in Sessions : step[q] # "none" =>
                  pc'[q] = pc[q] /\ ref'[q] = ref[q] /\ (q \in lease' => q \in lease)
  <2>2. CASE \E r \in Refs : AcquireFast(p, r)
    <3>1. PICK r \in Refs : AcquireFast(p, r)
      BY <2>2
    <3>2. running' = running /\ ref' = [ref EXCEPT ![p] = r] /\ lease' \subseteq lease \cup {p}
      BY <3>1 DEF AcquireFast
    <3>3. \E s : pc' = [pc EXCEPT ![p] = s]
      BY <3>1 DEF AcquireFast
    <3> QED
      BY <1>1, <3>2, <3>3 DEF Procs
  <2>3. CASE AcquireLock(p) \/ AcquireRecheck(p)
    <3>1. running' = running /\ ref' = ref /\ lease' \subseteq lease \cup {p}
      BY <2>3 DEF AcquireLock, AcquireRecheck
    <3>2. \E s : pc' = [pc EXCEPT ![p] = s]
      BY <2>3 DEF AcquireLock, AcquireRecheck
    <3> QED
      BY <1>1, <3>1, <3>2 DEF Procs
  <2> QED
    BY <1>1, <2>2, <2>3 DEF Acquire
<1>2. ASSUME NEW p \in Sessions, Release(p)
      PROVE  /\ running' = running
             /\ \A q \in Sessions : step[q] # "none" =>
                  pc'[q] = pc[q] /\ ref'[q] = ref[q] /\ (q \in lease' => q \in lease)
  <2>1. running' = running /\ ref' = ref /\ lease' \subseteq lease
    BY <1>2 DEF Release, ReleaseLock, ReleaseRef
  <2>2. pc[p] \in {"release", "decref"} /\ \E s : pc' = [pc EXCEPT ![p] = s]
    BY <1>2 DEF Release, ReleaseLock, ReleaseRef
  <2>3. step[p] = "none"
    BY <2>2 DEF StepShape, TempTypeOK
  <2> QED
    BY <2>1, <2>2, <2>3 DEF Procs
<1>3. ASSUME NEW p \in Requests, NEW r \in Refs, BeginRequest(p, r)
      PROVE  /\ running' = running
             /\ \A q \in Sessions : step[q] # "none" =>
                  pc'[q] = pc[q] /\ ref'[q] = ref[q] /\ (q \in lease' => q \in lease)
  BY <1>3, ProcsAssumption DEF BeginRequest, Procs
<1>4. ASSUME NEW p \in Procs, MountWork(p)
      PROVE  /\ running' = running
             /\ \A q \in Sessions : step[q] # "none" =>
                  pc'[q] = pc[q] /\ ref'[q] = ref[q] /\ (q \in lease' => q \in lease)
  <2>1. running' = running /\ ref' = ref /\ lease' \subseteq lease \cup {p}
    BY <1>4 DEF MountWork, MountNext, MountDone, Undo, Close
  <2>2. pc[p] \in {"mount", "undo", "close"} /\ \A q \in Procs \ {p} : pc'[q] = pc[q]
    <3>1. CASE MountNext(p)
      BY <3>1, MountEffect
    <3>2. CASE MountDone(p) \/ Undo(p) \/ Close(p)
      BY <3>2 DEF MountDone, Undo, Close
    <3> QED
      BY <1>4, <3>1, <3>2 DEF MountWork
  <2> QED
    BY <2>1, <2>2 DEF StepShape, TempTypeOK, Procs
<1>5. ASSUME NEW p \in Requests, End(p)
      PROVE  /\ running' = running
             /\ \A q \in Sessions : step[q] # "none" =>
                  pc'[q] = pc[q] /\ ref'[q] = ref[q] /\ (q \in lease' => q \in lease)
  BY <1>5, ProcsAssumption DEF End, Procs
<1> QED
  BY <1>1, <1>2, <1>3, <1>4, <1>5 DEF LeaseStep

\* Every step is a step of MountLease, or changes nothing there.
LEMMA StepRefines == ASSUME TypeOK, [TempNext]_allVars PROVE [Next]_vars
<1>1. CASE LeaseStep
  BY <1>1 DEF LeaseStep, Next, Procs
<1>2. ASSUME NEW p \in Sessions, TempSession(p) \/ EndSession(p) PROVE [Next]_vars
  <2>1. CASE FallbackRoot(p) \/ PollFinds(p) \/ PollGivesUp(p)
    BY <2>1 DEF FallbackRoot, PollFinds, PollGivesUp, Next
  <2>2. CASE TryStart(p)
    BY <2>2 DEF TryStart
  <2>3. CASE TryStop(p)
    <3>1. CASE UNCHANGED vars
      BY <3>1
    <3>2. CASE CardinalStop(cont(p))
      BY <3>2, ContType DEF Next, Procs
    <3> QED
      BY <2>3, <3>1, <3>2 DEF TryStop, stopped
  <2>4. CASE EndSession(p)
    BY <2>4 DEF EndSession, Next, Procs
  <2> QED
    BY <1>2, <2>1, <2>2, <2>3, <2>4 DEF TempSession
<1>3. ASSUME NEW c \in Containers,
             \/ ComesUp(c) \/ FailsToComeUp(c) \/ PanelStart(c) \/ PanelStop(c)
             \/ AutostartInspect(c) \/ AutostartStart(c)
      PROVE  [Next]_vars
  BY <1>3 DEF ComesUp, FailsToComeUp, PanelStart, PanelStop, AutostartInspect, AutostartStart, stopped, Next
<1>4. CASE TempRestart
  BY <1>4 DEF TempRestart, Next
<1>5. CASE UNCHANGED allVars
  BY <1>5 DEF allVars
<1> QED
  BY <1>1, <1>2, <1>3, <1>4, <1>5 DEF TempNext

-----------------------------------------------------------------------------

\* The rest of the invariant is kept by the steps of one session,
LEMMA SessionPreserves ==
  ASSUME TempInv, NEW p \in Sessions, TempSession(p) \/ EndSession(p)
  PROVE  TempTypeOK' /\ StepShape' /\ NotLeftRunning'
<1>p. p \in Procs /\ Sessions \subseteq Procs
  BY DEF Procs
<1>c. cont(p) \in Containers
  BY <1>p, ContType DEF TempInv, Shape
<1>l. pc[p] = "fallback" => p \notin lease
  BY <1>p DEF TempInv, Shape, HandlerShape
<1> USE DEF TempInv, Shape, TypeOK, TempTypeOK, setStep, goto
<1>1. CASE FallbackRoot(p)
  <2>1. UNCHANGED <<running, ref, lease, tempVars>> /\ \E l : pc' = [pc EXCEPT ![p] = l]
    BY <1>1 DEF FallbackRoot, Fallback
  <2>2. step[p] = "none"
    BY <1>1 DEF FallbackRoot
  <2> QED
    BY <1>p, <2>1, <2>2 DEF StepShape, NotLeftRunning, tempVars, alive, cont
<1>2. CASE TryStart(p)
  <2>1. step' = [step EXCEPT ![p] = "poll"] /\ pc[p] = "fallback" /\ step[p] = "none" /\ asked' = asked
    BY <1>2 DEF TryStart
  <2>2. UNCHANGED <<running, ref, pc, lease>>
    BY <1>2 DEF TryStart, vars, users
  <2>3. p \notin started
    BY <2>1 DEF StepShape
  <2>4. \/ started' = started \cup {p} /\ starting' \subseteq starting \cup {cont(p)} /\ stray' = stray
        \/ started' = started /\ starting' = starting /\ stray' = stray
        \/ started' = started /\ starting' \subseteq starting \cup {cont(p)} /\ stray' = stray \cup ({cont(p)} \ alive)
    BY <1>2 DEF TryStart, accept
  <2>5. TempTypeOK'
    BY <1>c, <2>1, <2>4, <1>2 DEF TryStart
  <2>6. StepShape'
    BY <1>l, <2>1, <2>2, <2>4 DEF StepShape
  <2>7. NotLeftRunning'
    BY <1>c, <2>1, <2>2, <2>3, <2>4 DEF NotLeftRunning, alive, cont
  <2> QED
    BY <2>5, <2>6, <2>7
<1>3. CASE PollFinds(p)
  <2>1. /\ step[p] = "poll" /\ step' = [step EXCEPT ![p] = "serving"]
        /\ pc' = [pc EXCEPT ![p] = "using"]
        /\ UNCHANGED <<running, ref, lease, started, starting, found, asked, stray>>
    BY <1>3 DEF PollFinds, Fallback, hasRoot
  <2> QED
    BY <1>p, <2>1 DEF StepShape, NotLeftRunning, alive, cont
<1>4. CASE PollGivesUp(p)
  <2>1. /\ step[p] = "poll" /\ step' = [step EXCEPT ![p] = IF p \in started THEN "stop" ELSE "none"]
        /\ pc' = [pc EXCEPT ![p] = "idle"]
        /\ UNCHANGED <<running, ref, lease, started, starting, found, asked, stray>>
    BY <1>4 DEF PollGivesUp, leave, Fallback, hasRoot
  <2> QED
    BY <1>p, <2>1 DEF StepShape, NotLeftRunning, alive, cont
<1>5. CASE EndSession(p)
  <2>1. /\ pc[p] = "using" /\ \E l : pc' = [pc EXCEPT ![p] = l]
        /\ UNCHANGED <<running, ref, lease, started, starting, found, asked, stray>>
    BY <1>5 DEF EndSession, End
  <2>2. CASE step[p] = "serving"
    <3>1. step' = [step EXCEPT ![p] = IF p \in started THEN "stop" ELSE "none"]
      BY <1>5, <2>2 DEF EndSession, leave
    <3>2. p \notin lease /\ p \notin Requests => pc' = [pc EXCEPT ![p] = "idle"]
      BY <1>5 DEF EndSession, End
    <3>3. p \notin Requests
      BY ProcsAssumption
    <3>4. CASE p \notin lease
      BY <1>p, <2>1, <2>2, <3>1, <3>2, <3>3, <3>4 DEF StepShape, NotLeftRunning, alive, cont
    <3>5. CASE p \in lease
      BY <2>2, <3>5 DEF StepShape
    <3> QED
      BY <3>4, <3>5
  <2>3. CASE step[p] # "serving"
    <3>1. step' = step
      BY <1>5, <2>3 DEF EndSession
    <3>2. step[p] = "none"
      BY <2>1, <2>3 DEF StepShape
    <3> QED
      BY <1>p, <2>1, <3>1, <3>2 DEF StepShape, NotLeftRunning, alive, cont
  <2> QED
    BY <2>2, <2>3
<1>6. CASE TryStop(p)
  <2>1. /\ step[p] = "stop" /\ step' = [step EXCEPT ![p] = "none"] /\ started' = started \ {p}
        /\ UNCHANGED <<pc, ref, lease, found>>
    BY <1>6 DEF TryStop, stopped, CardinalStop, vars, users
  <2>2. CASE stopped(cont(p))
    <3>1. /\ running' = running \ {cont(p)} /\ starting' = starting \ {cont(p)}
          /\ asked' = asked \ {cont(p)} /\ stray' = stray \ {cont(p)}
      BY <2>2 DEF stopped, CardinalStop, vars
    <3> QED
      BY <1>p, <2>1, <3>1 DEF StepShape, NotLeftRunning, alive, cont
  <2>3. CASE stray' = stray \cup ({cont(p)} \cap alive) /\ UNCHANGED <<vars, starting, asked>>
    <3>1. running' = running
      BY <2>3 DEF vars
    <3> QED
      BY <1>c, <1>p, <2>1, <2>3, <3>1 DEF StepShape, NotLeftRunning, alive, cont
  <2> QED
    BY <1>6, <2>2, <2>3 DEF TryStop
<1> QED
  BY <1>1, <1>2, <1>3, <1>4, <1>5, <1>6 DEF TempSession

\* by cardinal, the panel and the autostart pass,
LEMMA ContainerPreserves ==
  ASSUME TempInv, NEW c \in Containers,
         \/ ComesUp(c) \/ FailsToComeUp(c) \/ PanelStart(c) \/ PanelStop(c)
         \/ AutostartInspect(c) \/ AutostartStart(c)
  PROVE  TempTypeOK' /\ StepShape' /\ NotLeftRunning'
<1> USE DEF TempInv, Shape, TypeOK, TempTypeOK
<1>1. UNCHANGED <<pc, ref, lease, step, started>>
  BY DEF ComesUp, FailsToComeUp, PanelStart, PanelStop, AutostartInspect, AutostartStart,
         stopped, CardinalStart, CardinalStop, vars, users
<1>2. TempTypeOK'
  BY DEF ComesUp, FailsToComeUp, PanelStart, PanelStop, AutostartInspect, AutostartStart,
         stopped, accept
<1>3. /\ (alive \ (asked \cup stray))' \subseteq alive \ (asked \cup stray)
  <2>1. CASE ComesUp(c)
    BY <2>1 DEF ComesUp, CardinalStart, alive
  <2>2. CASE FailsToComeUp(c) \/ PanelStop(c)
    <3>1. /\ running' = running \ {c} /\ starting' = starting \ {c}
          /\ asked' = asked \ {c} /\ stray' = stray \ {c}
      BY <2>2 DEF FailsToComeUp, PanelStop, stopped, CardinalStop, vars
    <3> QED
      BY <3>1 DEF alive
  <2>3. CASE PanelStart(c) \/ AutostartStart(c)
    BY <2>3 DEF PanelStart, AutostartStart, accept, alive, vars
  <2>4. CASE AutostartInspect(c)
    BY <2>4 DEF AutostartInspect, alive, vars
  <2> QED
    BY <2>1, <2>2, <2>3, <2>4
<1> QED
  BY <1>1, <1>2, <1>3 DEF StepShape, NotLeftRunning, cont

\* by the leases, and by a restart.
LEMMA TempPreserved == ASSUME TempInv, [TempNext]_allVars PROVE TempInv'
<1>1. Shape'
  BY StepRefines, ShapePreserved DEF TempInv, Shape
<1>2. TempTypeOK' /\ StepShape' /\ NotLeftRunning'
  <2>1. CASE LeaseStep
    <3>1. running' = running /\ UNCHANGED tempVars
      BY <2>1, LeaseFrame DEF LeaseStep, TempInv, Shape
    <3>2. \A p \in Sessions : step[p] # "none" =>
            pc'[p] = pc[p] /\ ref'[p] = ref[p] /\ (p \in lease' => p \in lease)
      BY <2>1, LeaseFrame DEF TempInv, Shape
    <3>3. TempTypeOK'
      BY <3>1 DEF TempInv, TempTypeOK, tempVars
    <3>4. StepShape'
      BY <3>1, <3>2 DEF TempInv, TempTypeOK, StepShape, tempVars
    <3>5. NotLeftRunning'
      BY <3>1, <3>2 DEF TempInv, TempTypeOK, NotLeftRunning, tempVars, alive, cont
    <3> QED
      BY <3>3, <3>4, <3>5
  <2>2. CASE TempRestart
    <3>1. /\ step' = [p \in Sessions |-> "none"] /\ started' = {} /\ found' = {} /\ lease' = {}
          /\ asked' = asked \cap (running' \cup starting')
          /\ stray' = (running' \cup starting') \ asked
          /\ running' \in {running, {}} /\ starting' \in {starting, {}}
      BY <2>2 DEF TempRestart, Restart
    <3> QED
      BY <3>1 DEF TempInv, Shape, TypeOK, TempTypeOK, StepShape, NotLeftRunning, alive
  <2>3. CASE UNCHANGED allVars
    BY <2>3 DEF allVars, vars, users, tempVars, TempInv, TempTypeOK, StepShape, NotLeftRunning, alive, cont
  <2> QED
    BY <2>1, <2>2, <2>3, SessionPreserves, ContainerPreserves DEF TempNext
<1> QED
  BY <1>1, <1>2 DEF TempInv

THEOREM TempInvariant == TempSpec => []TempInv
<1>1. TempInit => TempInv
  <2> SUFFICES ASSUME TempInit PROVE TempInv
    OBVIOUS
  <2>1. Shape
    BY Initial DEF TempInit
  <2> QED
    BY <2>1 DEF TempInit, Init, TempInv, TempTypeOK, StepShape, NotLeftRunning, alive
<1> QED
  BY <1>1, TempPreserved, PTL DEF TempSpec

\* Temporary starts implement the leases: whatever sessions, the panel and the
\* autostart pass start and stop, the lease table, the mutexes and the mounts
\* move as MountLease says, so its theorems hold of the whole.
THEOREM RefinesMountLease == TempSpec => Spec
<1>1. TempInit => Init
  BY DEF TempInit
<1>2. TempInv /\ [TempNext]_allVars => [Next]_vars
  BY StepRefines DEF TempInv, Shape
<1> QED
  BY <1>1, <1>2, TempInvariant, PTL DEF TempSpec, Spec

\* A container started only for SFTP is never left running by the sessions that
\* started it, for any number of sessions and containers.
THEOREM StartedIsStopped == TempSpec => []NotLeftRunning
<1>1. TempInv => NotLeftRunning
  BY DEF TempInv
<1> QED
  BY <1>1, TempInvariant, PTL
=============================================================================
