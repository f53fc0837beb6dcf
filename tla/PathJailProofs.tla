--------------------------- MODULE PathJailProofs ---------------------------
(***************************************************************************)
(* No file operation of wings leaves the data directory of a container,    *)
(* for any paths, link targets, host and number of lookups.                *)
(*                                                                         *)
(* A walk is followed name by name.  The lemmas compare two walks step by  *)
(* step: of a path and of what is above it, in a tree and in one where     *)
(* something was made or dropped, following the last link and not.  What   *)
(* wings checks, the real path of the nearest parent that exists, then     *)
(* says where the path itself leads, also after directories were made on   *)
(* its way.  The invariant is that the tree is well formed and is outside  *)
(* of the data directory what it was.                                      *)
(***************************************************************************)
EXTENDS PathJail, SequenceTheorems, WellFoundedInduction, TLAPS

\* Induction up to N.
LEMMA UpTo ==
  ASSUME NEW N \in Nat, NEW S, 0 \in S, \A n \in 1..N : n - 1 \in S => n \in S
  PROVE  \A n \in 0..N : n \in S
<1> DEFINE T == {n \in 0..N : n \notin S}
           R == {ss \in Nat \X Nat : ss[1] < ss[2]}
<1>1. ASSUME T # {} PROVE FALSE
  <2>1. IsWellFoundedOn(R, Nat)
    BY NatLessThanWellFounded DEF OpToRel
  <2>2. T \subseteq Nat
    OBVIOUS
  <2> HIDE DEF R
  <2>3. PICK n \in T : \A k \in T : ~ (<<k, n>> \in R)
    <3> HIDE DEF T
    <3> QED
      BY <1>1, <2>1, <2>2, WFMin
  <2>4. n \in 0..N /\ n \notin S /\ n # 0
    OBVIOUS
  <2>5. n \in 1..N /\ n - 1 \in 0..N /\ <<n - 1, n>> \in R
    BY <2>4 DEF R
  <2> QED
    BY <2>3, <2>4, <2>5
<1> QED
  BY <1>1
-----------------------------------------------------------------------------
(* Paths *)

Path == Seq(Names)

\* The parent of a path, and what is below a path.
LEMMA Parent ==
  ASSUME NEW p \in Path, p # <<>>
  PROVE  /\ Front(p) \in Path /\ Len(p) \in Nat /\ Len(Front(p)) = Len(p) - 1 /\ Len(p) > 0
         /\ \A i \in 1 .. Len(p) - 1 : Front(p)[i] = p[i]
         /\ p = Append(Front(p), p[Len(p)]) /\ p[Len(p)] \in Names
<1>1. Len(p) \in Nat /\ Len(p) > 0 /\ p \in [1..Len(p) -> Names]
  BY EmptySeq, LenProperties DEF Path
<1>2. Front(p) = SubSeq(p, 1, Len(p) - 1)
  BY DEF Front
<1>3. /\ Front(p) \in Path /\ Len(Front(p)) = Len(p) - 1
      /\ \A i \in 1 .. Len(p) - 1 : Front(p)[i] = p[i]
  BY <1>1, <1>2 DEF Path
<1>4. p[Len(p)] \in Names
  BY <1>1
<1> DEFINE f == Front(p)
           x == p[Len(p)]
           a == Append(f, x)
<1>5. /\ f \in Seq(Names) /\ Len(f) = Len(p) - 1 /\ \A i \in 1 .. Len(p) - 1 : f[i] = p[i]
  BY <1>3 DEF Path
<1> HIDE DEF f, x
<1>x. x \in Names
  BY <1>4 DEF x
<1>z. f \in Seq(Names)
  BY <1>5
<1>6. a \in Seq(Names) /\ Len(a) = Len(f) + 1 /\ a[Len(f) + 1] = x
      /\ \A i \in 1 .. Len(f) : a[i] = f[i]
  BY <1>x, <1>z, AppendProperties
<1> HIDE DEF a
<1>y. a[Len(p)] = p[Len(p)] /\ Len(a) = Len(p)
  BY <1>1, <1>5, <1>6 DEF x
<1>7. \A i \in 1 .. Len(p) : a[i] = p[i]
  BY <1>1, <1>5, <1>6, <1>y
<1>8. a = p
  BY <1>6, <1>7, <1>y, SeqEqual DEF Path
<1> QED
  BY <1>1, <1>3, <1>4, <1>8 DEF a, f, x

LEMMA Child ==
  ASSUME NEW p \in Path, NEW x \in Names
  PROVE  /\ Append(p, x) \in Path /\ Len(p) \in Nat /\ Len(Append(p, x)) = Len(p) + 1
         /\ \A i \in 1 .. Len(p) : Append(p, x)[i] = p[i]
         /\ Append(p, x)[Len(p) + 1] = x /\ Append(p, x) # <<>>
         /\ Front(Append(p, x)) = p
<1> DEFINE a == Append(p, x)
<1>1. /\ a \in Path /\ a # <<>> /\ Len(p) \in Nat /\ Len(a) = Len(p) + 1
      /\ \A i \in 1 .. Len(p) : a[i] = p[i]
      /\ a[Len(p) + 1] = x
  BY AppendProperties, LenProperties DEF Path
<1> HIDE DEF a
<1>2. a # <<>>
  BY <1>1
<1>3. a \in Path /\ Len(a) - 1 = Len(p) /\ \A i \in 1 .. Len(p) : a[i] = p[i]
  BY <1>1
<1>4. Front(a) \in Path /\ Len(Front(a)) = Len(p) /\ \A i \in 1 .. Len(p) : Front(a)[i] = p[i]
  BY <1>2, <1>3, Parent
<1> DEFINE f == Front(a)
<1> HIDE DEF f
<1>5. f = p
  BY <1>4, SeqEqual DEF Path, f
<1> QED
  BY <1>1, <1>2, <1>5 DEF f, a

LEMMA UnderTransitive ==
  ASSUME NEW p \in Path, NEW q \in Path, NEW r \in Path, under(p, q), under(q, r)
  PROVE  under(p, r)
BY LenProperties DEF under, Path

LEMMA UnderItself == ASSUME NEW p \in Path PROVE under(p, p) /\ under(<<>>, p)
BY LenProperties DEF under, Path

LEMMA UnderSame ==
  ASSUME NEW p \in Path, NEW q \in Path, under(p, q), Len(q) <= Len(p)
  PROVE  p = q
<1>1. Len(p) = Len(q) /\ \A i \in 1..Len(p) : p[i] = q[i]
  BY LenProperties DEF under, Path
<1> QED
  BY <1>1, SeqEqual DEF Path

\* Two directories above one path.
LEMMA UnderBoth ==
  ASSUME NEW p \in Path, NEW q \in Path, NEW r \in Path, under(p, r), under(q, r)
  PROVE  under(p, q) \/ under(q, p)
BY LenProperties DEF under, Path

LEMMA UnderParent ==
  ASSUME NEW p \in Path, p # <<>>
  PROVE  /\ under(Front(p), p) /\ Front(p) # p
         /\ \A q \in Path : under(q, p) /\ q # p => under(q, Front(p))
<1> USE Parent
<1>1. under(Front(p), p) /\ Front(p) # p
  BY DEF under
<1>2. ASSUME NEW q \in Path, under(q, p), q # p PROVE under(q, Front(p))
  <2>1. Len(q) \in Nat /\ ~(Len(p) <= Len(q))
    BY <1>2, UnderSame, LenProperties DEF Path
  <2> QED
    BY <1>2, <2>1 DEF under
<1> QED
  BY <1>1, <1>2

LEMMA UnderChild ==
  ASSUME NEW p \in Path, NEW x \in Names
  PROVE  /\ under(p, Append(p, x)) /\ p # Append(p, x)
         /\ \A q \in Path : under(q, p) => under(q, Append(p, x))
         /\ \A q \in Path : under(q, Append(p, x)) => q = Append(p, x) \/ under(q, p)
<1>1. Append(p, x) \in Path /\ Append(p, x) # <<>> /\ Front(Append(p, x)) = p
  BY Child
<1> QED
  BY <1>1, UnderParent, UnderTransitive

LEMMA OneName ==
  ASSUME NEW x \in Names
  PROVE  <<x>> \in Path /\ Len(<<x>>) = 1 /\ <<x>>[1] = x
BY DEF Path

LEMMA RootPath ==
  /\ Root \in Path /\ Nowhere \in Path /\ <<>> \in Path /\ Root # <<>> /\ Nowhere # <<>>
  /\ ~under(Root, <<>>) /\ ~under(Root, Nowhere) /\ Front(Root) = <<>>
  /\ \A p \in Path : under(p, Root) => p = Root \/ p = <<>>
<1>a. Root \in Path /\ Len(Root) = 1 /\ Root[1] = "r"
  <2>1. "r" \in Names
    BY PathsAssumption
  <2> QED
    BY <2>1, OneName DEF Root
<1>b. Nowhere \in Path /\ Len(Nowhere) = 1 /\ Nowhere[1] = ".."
  <2>1. ".." \in Names
    BY PathsAssumption
  <2> QED
    BY <2>1, OneName DEF Nowhere
<1>c. <<>> \in Path /\ Len(<<>>) = 0
  BY EmptySeq DEF Path
<1>1. /\ Root \in Path /\ Nowhere \in Path /\ <<>> \in Path /\ Root # <<>> /\ Nowhere # <<>>
      /\ Len(Root) = 1 /\ Len(Nowhere) = 1 /\ Len(<<>>) = 0 /\ Root[1] = "r" /\ Nowhere[1] = ".."
  BY <1>a, <1>b, <1>c
<1>2. ~under(Root, <<>>) /\ ~under(Root, Nowhere)
  BY <1>1 DEF under
<1>3. \A p \in Path : Len(p) = 0 => p = <<>>
  BY EmptySeq DEF Path
<1>4. Front(Root) = <<>>
  BY <1>1, <1>3, Parent
<1>5. ASSUME NEW p \in Path, under(p, Root) PROVE p = Root \/ p = <<>>
  <2>1. Len(p) = 0 \/ Len(p) = 1
    BY <1>1, <1>5, LenProperties DEF under, Path
  <2> QED
    BY <1>1, <1>3, <1>5, <2>1, UnderSame
<1> QED
  BY <1>1, <1>2, <1>4, <1>5

\* A recursive function over 0..N has a value.
Computes(g, N, c, step) == g[0] = c /\ \A n \in 1..N : g[n] = step[<<g[n - 1], n>>]

LEMMA Recursion ==
  ASSUME NEW N \in Nat, NEW X, NEW c \in X, NEW step \in [X \X (1..N) -> X]
  PROVE  \E g \in [0..N -> X] : Computes(g, N, c, step)
<1> DEFINE Reads(g, m) == Computes(g, m, c, step)
           T == {m \in 0..N : \E g \in [0..m -> X] : Reads(g, m)}
<1>1. 0 \in T
  <2> DEFINE g == [n \in 0..0 |-> c]
  <2>1. g \in [0..0 -> X] /\ Reads(g, 0) /\ 0 \in 0..N
    BY DEF Computes
  <2> HIDE DEF g, Reads
  <2> QED
    BY <2>1
<1>2. ASSUME NEW m \in 1..N, m - 1 \in T PROVE m \in T
  <2>1. m \in Nat /\ m # 0 /\ m \in 0..N /\ m - 1 \in 0..(m - 1)
    OBVIOUS
  <2>2. PICK g \in [0..(m - 1) -> X] : Reads(g, m - 1)
    BY <1>2
  <2>3. step[<<g[m - 1], m>>] \in X
    <3>1. g[m - 1] \in X
      BY <2>1, <2>2
    <3> QED
      BY <3>1
  <2> DEFINE h == [n \in 0..m |-> IF n = m THEN step[<<g[m - 1], m>>] ELSE g[n]]
  <2>4. h \in [0..m -> X]
    BY <2>1, <2>2, <2>3
  <2>5. h[0] = c /\ h[m - 1] = g[m - 1] /\ h[m] = step[<<g[m - 1], m>>]
    BY <2>1, <2>2 DEF Computes
  <2>6. ASSUME NEW n \in 1..m, n # m PROVE h[n] = step[<<h[n - 1], n>>]
    <3>1. n \in 1..(m - 1) /\ n - 1 \in 0..m /\ n \in 0..m /\ n - 1 # m
      BY <2>1, <2>6
    <3>2. h[n] = g[n] /\ h[n - 1] = g[n - 1]
      BY <3>1, <2>6
    <3> QED
      BY <2>2, <3>1, <3>2 DEF Computes
  <2> HIDE DEF h
  <2>7. Reads(h, m)
    BY <2>5, <2>6 DEF Computes
  <2> HIDE DEF Reads
  <2> QED
    BY <2>1, <2>4, <2>7
<1>3. \A n \in 0..N : n \in T
  <2> HIDE DEF T
  <2> QED
    BY <1>1, <1>2, UpTo
<1>4. N \in 0..N
  OBVIOUS
<1> QED
  BY <1>3, <1>4
-----------------------------------------------------------------------------
(* Looking up *)

Spots == [dir : Path, rest : Path]

Trees == UNION {[D -> Node] : D \in SUBSET (Path \ {<<>>, Nowhere})}

LEMMA TreeNodes ==
  ASSUME NEW t
  PROVE  t \in Trees <=> /\ DOMAIN t \subseteq Path \ {<<>>, Nowhere} /\ t = [p \in DOMAIN t |-> t[p]]
                         /\ \A p \in DOMAIN t : t[p] \in Node
<1>1. ASSUME t \in Trees
      PROVE  /\ DOMAIN t \subseteq Path \ {<<>>, Nowhere} /\ t = [p \in DOMAIN t |-> t[p]]
             /\ \A p \in DOMAIN t : t[p] \in Node
  <2>1. PICK D \in SUBSET (Path \ {<<>>, Nowhere}) : t \in [D -> Node]
    BY <1>1 DEF Trees
  <2> QED
    BY <2>1
<1>2. ASSUME DOMAIN t \subseteq Path \ {<<>>, Nowhere}, t = [p \in DOMAIN t |-> t[p]],
             \A p \in DOMAIN t : t[p] \in Node
      PROVE  t \in Trees
  <2>1. t \in [DOMAIN t -> Node]
    BY <1>2
  <2> QED
    BY <1>2, <2>1 DEF Trees
<1> QED
  BY <1>1, <1>2

\* What a node holds.
LEMMA NodeTo == \A node \in Node : node.to \in Path /\ node.kind \in {"dir", "file", "link"}
BY DEF Node, Path

LEMMA SpotOf ==
  /\ \A w \in Spots : w = spot(w.dir, w.rest) /\ w.dir \in Path /\ w.rest \in Path
  /\ \A d, r : spot(d, r).dir = d /\ spot(d, r).rest = r
  /\ \A d \in Path, r \in Path : spot(d, r) \in Spots
BY DEF Spots, spot

\* Where the kernel is, and what it has left to look up.
At(w) == w.dir
Left(w) == w.rest

LEMMA SpotParts ==
  /\ \A w \in Spots : w = spot(At(w), Left(w)) /\ At(w) \in Path /\ Left(w) \in Path
  /\ \A d, r : At(spot(d, r)) = d /\ Left(spot(d, r)) = r
  /\ \A d \in Path, r \in Path : spot(d, r) \in Spots
BY SpotOf DEF At, Left

LEMMA Names1 ==
  ASSUME NEW r \in Path, r # <<>>
  PROVE  Head(r) \in Names /\ Tail(r) \in Path
BY HeadTailProperties DEF Path

LEMMA LookIn ==
  ASSUME NEW t \in Trees, NEW w \in Spots, NEW follow
  PROVE  look(t, w, follow) \in Spots
<1>1. CASE w.rest = <<>>
  BY <1>1 DEF look
<1>2. CASE w.rest # <<>>
  <2> DEFINE x == Head(w.rest)
             s == Tail(w.rest)
             p == Append(w.dir, x)
  <2>1. w.dir \in Path /\ w.rest \in Path
    BY SpotOf
  <2>2. x \in Names /\ s \in Path
    BY <1>2, <2>1, Names1
  <2>3. p \in Path /\ Nowhere \in Path /\ <<>> \in Path
    BY <2>1, <2>2, Child, RootPath
  <2>4. w.dir # <<>> => Front(w.dir) \in Path
    BY <2>1, Parent
  <2>5. p \in DOMAIN t => t[p].to \o s \in Path
    <3>1. ASSUME p \in DOMAIN t PROVE t[p].to \in Path
      BY <3>1, TreeNodes, NodeTo
    <3> QED
      BY <2>2, <3>1, ConcatProperties DEF Path
  <2>6. look(t, w, follow) =
          IF ~isDir(t, w.dir) THEN spot(Nowhere, <<>>)
          ELSE IF x = ".." THEN spot(IF w.dir = <<>> THEN <<>> ELSE Front(w.dir), s)
          ELSE IF p \notin DOMAIN t THEN spot(IF s = <<>> THEN p ELSE Nowhere, <<>>)
          ELSE IF t[p].kind = "link" /\ (follow \/ s # <<>>)
          THEN spot(IF t[p].abs THEN <<>> ELSE w.dir, t[p].to \o s)
          ELSE spot(p, s)
    BY <1>2 DEF look
  <2> HIDE DEF x, s, p
  <2> QED
    BY <2>1, <2>2, <2>3, <2>4, <2>5, <2>6, SpotOf
<1> QED
  BY <1>1, <1>2

\* A trace looks up one name after the other.
LEMMA TraceOf ==
  ASSUME NEW t \in Trees, NEW w \in Spots, NEW follow
  PROVE  /\ trace(t, w, follow)[0] = w
         /\ \A n \in 1..Lookups :
              trace(t, w, follow)[n] = look(t, trace(t, w, follow)[n - 1], follow)
         /\ \A n \in 0..Lookups : trace(t, w, follow)[n] \in Spots
<1> DEFINE step == [z \in Spots \X (1..Lookups) |-> look(t, z[1], follow)]
           Is(g) == g = [n \in 0..Lookups |-> IF n = 0 THEN w ELSE look(t, g[n - 1], follow)]
<1>1. step \in [Spots \X (1..Lookups) -> Spots] /\ Lookups \in Nat
  BY LookIn, PathsAssumption
<1>2. ASSUME NEW v \in Spots, NEW n \in 1..Lookups PROVE step[<<v, n>>] = look(t, v, follow)
  OBVIOUS
<1> HIDE DEF step
<1>3. PICK g \in [0..Lookups -> Spots] : Computes(g, Lookups, w, step)
  BY <1>1, Recursion
<1>4. ASSUME NEW n \in 1..Lookups PROVE g[n] = look(t, g[n - 1], follow)
  <2>1. n - 1 \in 0..Lookups
    BY <1>1
  <2> QED
    BY <1>2, <1>3, <2>1 DEF Computes
<1>5. Is(g)
  <2>1. ASSUME NEW n \in 0..Lookups PROVE g[n] = IF n = 0 THEN w ELSE look(t, g[n - 1], follow)
    BY <1>1, <1>3, <1>4 DEF Computes
  <2> QED
    BY <1>3, <2>1
<1> DEFINE h == trace(t, w, follow)
<1>6. Is(h)
  <2>1. h = CHOOSE f : Is(f)
    BY DEF trace
  <2> HIDE DEF h, Is
  <2> QED
    BY <1>5, <2>1
<1> HIDE DEF h
<1>7. h[0] = w /\ \A n \in 1..Lookups : h[n] = look(t, h[n - 1], follow)
  BY <1>1, <1>6
<1>8. \A n \in 0..Lookups : h[n] \in Spots
  <2> DEFINE S == {n \in 0..Lookups : h[n] \in Spots}
  <2>1. 0 \in S
    BY <1>1, <1>7
  <2>2. ASSUME NEW n \in 1..Lookups, n - 1 \in S PROVE n \in S
    BY <1>1, <1>7, <2>2, LookIn
  <2> HIDE DEF S
  <2>3. \A n \in 0..Lookups : n \in S
    BY <1>1, <2>1, <2>2, UpTo
  <2> QED
    BY <2>3 DEF S
<1> QED
  BY <1>7, <1>8 DEF h

LEMMA LookDone == ASSUME NEW t, NEW d, NEW follow PROVE look(t, spot(d, <<>>), follow) = spot(d, <<>>)
BY SpotOf DEF look

\* The two ways to treat a link at the end, and when a link is followed.
Following == TRUE
Staying == FALSE
IsFollowed(follow, rest) == follow \/ rest # <<>>

LEMMA FollowedWhen ==
  /\ \A follow, rest : rest # <<>> => IsFollowed(follow, rest)
  /\ \A rest : IsFollowed(Following, rest)
  /\ ~IsFollowed(Staying, <<>>)
BY DEF IsFollowed, Following, Staying

\* A node is a link that is followed when rest is left.
Leads(node, follow, rest) == node.kind = "link" /\ IsFollowed(follow, rest)

Up(d) == IF d = <<>> THEN <<>> ELSE Front(d)
Base(node, d) == IF node.abs THEN <<>> ELSE d

\* What looking up the name x in d gives, p being that name and v what is left.
Looked(w, t, d, x, v, p, follow) ==
  /\ ~isDir(t, d) => w = spot(Nowhere, <<>>)
  /\ isDir(t, d) /\ x = ".." => w = spot(Up(d), v)
  /\ isDir(t, d) /\ x # ".." /\ p \notin DOMAIN t => w = spot(IF v = <<>> THEN p ELSE Nowhere, <<>>)
  /\ isDir(t, d) /\ x # ".." /\ p \in DOMAIN t /\ Leads(t[p], follow, v)
       => w = spot(Base(t[p], d), t[p].to \o v)
  /\ isDir(t, d) /\ x # ".." /\ p \in DOMAIN t /\ ~Leads(t[p], follow, v) => w = spot(p, v)

LEMMA LookName ==
  ASSUME NEW t, NEW d, NEW r, r # <<>>, NEW follow
  PROVE  Looked(look(t, spot(d, r), follow), t, d, Head(r), Tail(r), Append(d, Head(r)), follow)
<1>1. spot(d, r).dir = d /\ spot(d, r).rest = r
  BY SpotOf
<1> QED
  BY <1>1 DEF look, Looked, Leads, IsFollowed, Up, Base

\* The kernel stays where it has nothing left to look up.
LEMMA Stays ==
  ASSUME NEW t \in Trees, NEW w \in Spots, NEW follow, NEW m \in 0..Lookups,
         Left(trace(t, w, follow)[m]) = <<>>
  PROVE  \A n \in m..Lookups : trace(t, w, follow)[n] = trace(t, w, follow)[m]
<1> DEFINE h == trace(t, w, follow)
           S == {n \in 0..Lookups : n >= m => h[n] = h[m]}
<1>1. /\ \A n \in 1..Lookups : h[n] = look(t, h[n - 1], follow)
      /\ \A n \in 0..Lookups : h[n] \in Spots
  BY TraceOf
<1>2. Lookups \in Nat
  BY PathsAssumption
<1>3. h[m] = spot(At(h[m]), <<>>)
  BY <1>1, SpotParts
<1> HIDE DEF h
<1>4. 0 \in S
  BY <1>2
<1>5. ASSUME NEW n \in 1..Lookups, n - 1 \in S PROVE n \in S
  <2>1. CASE n <= m
    <3>1. n >= m => n = m
      BY <2>1, <1>2
    <3> QED
      BY <3>1, <1>2
  <2>2. CASE n > m
    <3>1. n - 1 >= m /\ n \in 0..Lookups
      BY <2>2, <1>2
    <3>2. h[n - 1] = h[m]
      BY <1>5, <3>1
    <3>3. h[n] = look(t, spot(At(h[m]), <<>>), follow)
      BY <1>1, <1>3, <3>2
    <3> QED
      BY <1>3, <3>1, <3>3, LookDone
  <2> QED
    BY <1>2, <2>1, <2>2
<1> HIDE DEF S
<1>6. \A n \in 0..Lookups : n \in S
  BY <1>2, <1>4, <1>5, UpTo
<1> QED
  BY <1>2, <1>6 DEF S, h

Outset(p) == spot(<<>>, p)

LEMMA OutsetIn == \A p \in Path : Outset(p) \in Spots /\ At(Outset(p)) = <<>> /\ Left(Outset(p)) = p
BY SpotParts, RootPath DEF Outset

LEMMA WalkIs ==
  ASSUME NEW t \in Trees, NEW p \in Path, NEW follow
  PROVE  /\ Left(trace(t, Outset(p), follow)[Lookups]) = <<>>
              => walk(t, p, follow) = At(trace(t, Outset(p), follow)[Lookups])
         /\ Left(trace(t, Outset(p), follow)[Lookups]) # <<>> => walk(t, p, follow) = Nowhere
         /\ walk(t, p, follow) \in Path
<1>1. trace(t, Outset(p), follow)[Lookups] \in Spots
  BY OutsetIn, TraceOf, PathsAssumption
<1> QED
  BY <1>1, SpotParts, RootPath DEF walk, Outset, At, Left

LEMMA HeadOfConcat ==
  ASSUME NEW r \in Path, r # <<>>, NEW s \in Path
  PROVE  r \o s # <<>> /\ Head(r \o s) = Head(r) /\ Tail(r \o s) = Tail(r) \o s
<1>1. Len(r) \in Nat /\ Len(r) > 0 /\ Len(s) \in Nat
  BY LenProperties, EmptySeq DEF Path
<1>2. r \o s \in Path /\ Len(r \o s) = Len(r) + Len(s) /\ \A i \in 1 .. Len(r) + Len(s) :
        (r \o s)[i] = IF i <= Len(r) THEN r[i] ELSE s[i - Len(r)]
  BY ConcatProperties DEF Path
<1>3. r \o s # <<>>
  BY <1>1, <1>2, EmptySeq
<1> QED
  BY <1>1, <1>2, <1>3 DEF Path

LEMMA NonEmptyConcat ==
  ASSUME NEW r \in Path, NEW s \in Path, s # <<>>
  PROVE  r \o s \in Path /\ r \o s # <<>> /\ <<>> \o s = s
<1>1. Len(r) \in Nat /\ Len(s) \in Nat /\ Len(s) > 0
  BY LenProperties, EmptySeq DEF Path
<1>2. r \o s \in Path /\ Len(r \o s) = Len(r) + Len(s) /\ <<>> \o s = s
  BY ConcatProperties, ConcatEmptySeq DEF Path
<1> QED
  BY <1>1, <1>2, EmptySeq

LEMMA ConcatThree ==
  ASSUME NEW u \in Path, NEW v \in Path, NEW s \in Path
  PROVE  u \o v \in Path /\ u \o (v \o s) = (u \o v) \o s
<1>1. u \o v \in Path
  BY ConcatProperties DEF Path
<1>2. (u \o v) \o s = u \o (v \o s)
  BY ConcatAssociative DEF Path
<1> QED
  BY <1>1, <1>2
-----------------------------------------------------------------------------
(* A path and the paths below it *)

\* The walk of q \o s is at the end of q after m names.
EndsAt(t, q, m) ==
  /\ Left(trace(t, Outset(q), Following)[m]) = <<>>
  /\ \A j \in 0 .. m - 1 : Left(trace(t, Outset(q), Following)[j]) # <<>>

\* How far the walk of q \o s is, given how far that of q is.
Ahead(t, q, s, follow, n) ==
  LET a == trace(t, Outset(q), Following)[n]
      b == trace(t, Outset(q \o s), follow)[n]
  IN \/ Left(a) # <<>> /\ b = spot(At(a), Left(a) \o s)
     \/ Left(a) = <<>> /\ ~there(t, At(a)) /\ b = spot(Nowhere, <<>>)
     \/ \E m \in 0..n : EndsAt(t, q, m) /\ b = trace(t, spot(At(a), s), follow)[n - m]

LEMMA AheadStep ==
  ASSUME NEW t \in Trees, NEW q \in Path, NEW s \in Path, s # <<>>, NEW follow,
         NEW n \in 1..Lookups, Ahead(t, q, s, follow, n - 1)
  PROVE  Ahead(t, q, s, follow, n)
<1> DEFINE A == trace(t, Outset(q), Following)
           B == trace(t, Outset(q \o s), follow)
<1>a. Ahead(t, q, s, follow, n) <=>
        \/ Left(A[n]) # <<>> /\ B[n] = spot(At(A[n]), Left(A[n]) \o s)
        \/ Left(A[n]) = <<>> /\ ~there(t, At(A[n])) /\ B[n] = spot(Nowhere, <<>>)
        \/ \E m \in 0..n : EndsAt(t, q, m) /\ B[n] = trace(t, spot(At(A[n]), s), follow)[n - m]
  BY DEF Ahead
<1>b. \/ Left(A[n - 1]) # <<>> /\ B[n - 1] = spot(At(A[n - 1]), Left(A[n - 1]) \o s)
      \/ Left(A[n - 1]) = <<>> /\ ~there(t, At(A[n - 1])) /\ B[n - 1] = spot(Nowhere, <<>>)
      \/ \E m \in 0 .. n - 1 : /\ EndsAt(t, q, m)
                               /\ B[n - 1] = trace(t, spot(At(A[n - 1]), s), follow)[n - 1 - m]
  BY DEF Ahead
<1>c. \A m : EndsAt(t, q, m) <=> Left(A[m]) = <<>> /\ \A j \in 0 .. m - 1 : Left(A[j]) # <<>>
  BY DEF EndsAt
<1> HIDE DEF A, B
<1>1. Lookups \in Nat /\ n - 1 \in 0..Lookups /\ n \in 0..Lookups
  BY PathsAssumption
<1>2. Outset(q) \in Spots /\ Outset(q \o s) \in Spots
  BY OutsetIn, NonEmptyConcat
<1>3. A[n - 1] \in Spots /\ A[n] \in Spots /\ A[n] = look(t, A[n - 1], Following) /\ B[n] = look(t, B[n - 1], follow)
  BY <1>1, <1>2, TraceOf DEF A, B
<1>4. PICK d \in Path, r \in Path : A[n - 1] = spot(d, r)
  BY <1>3, SpotParts
<1>5. CASE r # <<>>
  <2>1. B[n - 1] = spot(d, r \o s)
    <3>1. Left(A[n - 1]) = r /\ At(A[n - 1]) = d
      BY <1>4, SpotParts
    <3>2. ~ \E m \in 0 .. n - 1 : EndsAt(t, q, m)
      <4>1. SUFFICES ASSUME NEW m \in 0 .. n - 1, Left(A[m]) = <<>> PROVE FALSE
        BY <1>c
      <4>2. m \in 0..Lookups /\ n - 1 \in m..Lookups
        BY <1>1
      <4> HIDE DEF A
      <4>3. A[n - 1] = A[m]
        BY <1>2, <4>1, <4>2, Stays DEF A
      <4> QED
        BY <1>5, <3>1, <4>1, <4>3
    <3> QED
      BY <1>b, <1>5, <3>1, <3>2
  <2>2. \A j \in 0 .. n - 1 : Left(A[j]) # <<>>
    <3> SUFFICES ASSUME NEW m \in 0 .. n - 1, Left(A[m]) = <<>> PROVE FALSE
      OBVIOUS
    <3>1. m \in 0..Lookups /\ n - 1 \in m..Lookups
      BY <1>1
    <3> HIDE DEF A
    <3>2. A[n - 1] = A[m]
      BY <1>2, <3>1, Stays DEF A
    <3> QED
      BY <1>4, <1>5, <3>2, SpotParts
  <2> DEFINE x == Head(r)
             v == Tail(r)
             p == Append(d, x)
  <2>3. x \in Names /\ v \in Path
    BY <1>5, Names1
  <2>4. r \o s # <<>> /\ Head(r \o s) = x /\ Tail(r \o s) = v \o s /\ v \o s # <<>> /\ v \o s \in Path
    BY <1>5, <2>3, HeadOfConcat, NonEmptyConcat
  <2>5. p \in Path /\ p # <<>>
    BY <2>3, Child
  <2> DEFINE rs == r \o s
             vs == v \o s
  <2>6. Looked(A[n], t, d, x, v, p, Following)
    <3>1. A[n] = look(t, spot(d, r), Following)
      BY <1>3, <1>4
    <3> QED
      BY <1>5, <3>1, LookName
  <2>7. Looked(B[n], t, d, x, vs, p, follow)
    <3>1. rs # <<>> /\ x = Head(rs) /\ vs = Tail(rs)
      BY <2>4
    <3>2. B[n] = look(t, spot(d, rs), follow)
      BY <1>3, <2>1
    <3>3. p = Append(d, x)
      OBVIOUS
    <3> HIDE DEF x, p, rs, vs
    <3> QED
      BY <3>1, <3>2, <3>3, LookName
  <2>8. ASSUME NEW e, NEW u \in Path, A[n] = spot(e, u), B[n] = spot(e, u \o s)
        PROVE  Ahead(t, q, s, follow, n)
    <3>1. At(A[n]) = e /\ Left(A[n]) = u /\ e \in Path
      BY <1>3, <2>8, SpotParts
    <3>2. CASE u # <<>>
      BY <1>a, <2>8, <3>1, <3>2
    <3>3. CASE u = <<>>
      <4>1. EndsAt(t, q, n) /\ n \in 0..n /\ n - n = 0
        BY <1>c, <2>2, <3>1, <3>3
      <4>2. B[n] = spot(e, s)
        BY <2>8, <3>3, NonEmptyConcat
      <4>3. trace(t, spot(e, s), follow)[0] = spot(e, s)
        BY <3>1, SpotParts, TraceOf
      <4>4. B[n] = trace(t, spot(At(A[n]), s), follow)[n - n]
        <5> HIDE DEF A, B
        <5> QED
          BY <3>1, <4>1, <4>2, <4>3
      <4> QED
        BY <1>a, <4>1, <4>4
    <3> QED
      BY <3>2, <3>3
  <2>9. ASSUME NEW e, A[n] = spot(e, <<>>), ~there(t, e), B[n] = spot(Nowhere, <<>>)
        PROVE  Ahead(t, q, s, follow, n)
    <3>1. At(A[n]) = e /\ Left(A[n]) = <<>>
      BY <2>9, SpotParts
    <3> QED
      BY <1>a, <2>9, <3>1
  <2>10. p \in DOMAIN t => t[p].to \o v \in Path /\ t[p].to \o (v \o s) = (t[p].to \o v) \o s
    <3>1. SUFFICES ASSUME p \in DOMAIN t PROVE t[p].to \o v \in Path /\ t[p].to \o (v \o s) = (t[p].to \o v) \o s
      OBVIOUS
    <3> DEFINE u == t[p].to
    <3>2. u \in Path
      BY <3>1, TreeNodes, NodeTo
    <3> HIDE DEF v, p, u
    <3>3. u \o v \in Path /\ u \o (v \o s) = (u \o v) \o s
      BY <2>3, <3>2, ConcatThree
    <3> QED
      BY <3>3 DEF u
  <2>11. ~there(t, Nowhere) /\ (p \notin DOMAIN t => ~there(t, p))
    BY <2>5, TreeNodes, RootPath DEF there
  <2>l. (Leads(t[p], Following, v) <=> t[p].kind = "link") /\ (Leads(t[p], follow, vs) <=> t[p].kind = "link")
    BY <2>4, FollowedWhen DEF Leads
  <2> HIDE DEF A, B, x, v, p, rs
  <2>12. CASE ~isDir(t, d)
    <3>1. A[n] = spot(Nowhere, <<>>) /\ B[n] = spot(Nowhere, <<>>)
      BY <2>6, <2>7, <2>12 DEF Looked
    <3> QED
      BY <2>9, <2>11, <3>1
  <2>13. CASE isDir(t, d) /\ x = ".."
    <3>1. A[n] = spot(Up(d), v) /\ B[n] = spot(Up(d), v \o s)
      BY <2>6, <2>7, <2>13 DEF Looked
    <3> QED
      BY <2>3, <2>8, <3>1
  <2>14. CASE isDir(t, d) /\ x # ".." /\ p \notin DOMAIN t
    <3>1. A[n] = spot(IF v = <<>> THEN p ELSE Nowhere, <<>>) /\ B[n] = spot(Nowhere, <<>>)
      BY <2>4, <2>6, <2>7, <2>14 DEF Looked
    <3> QED
      BY <2>9, <2>11, <2>14, <3>1
  <2>15. CASE isDir(t, d) /\ x # ".." /\ p \in DOMAIN t /\ t[p].kind = "link"
    <3>1. A[n] = spot(Base(t[p], d), t[p].to \o v) /\ B[n] = spot(Base(t[p], d), t[p].to \o vs)
      BY <2>6, <2>7, <2>l, <2>15 DEF Looked
    <3>2. B[n] = spot(Base(t[p], d), (t[p].to \o v) \o s)
      BY <2>10, <2>15, <3>1
    <3> QED
      BY <2>8, <2>10, <2>15, <3>1, <3>2
  <2>16. CASE isDir(t, d) /\ x # ".." /\ p \in DOMAIN t /\ t[p].kind # "link"
    <3>1. A[n] = spot(p, v) /\ B[n] = spot(p, v \o s)
      BY <2>6, <2>7, <2>l, <2>16 DEF Looked
    <3> QED
      BY <2>3, <2>8, <3>1
  <2> QED
    BY <2>12, <2>13, <2>14, <2>15, <2>16
<1>6. CASE r = <<>>
  <2>1. A[n - 1] = spot(d, <<>>) /\ A[n] = spot(d, <<>>) /\ Left(A[n]) = <<>> /\ At(A[n]) = d
        /\ Left(A[n - 1]) = <<>> /\ At(A[n - 1]) = d
    <3> HIDE DEF A
    <3> QED
      BY <1>3, <1>4, <1>6, LookDone, SpotParts
  <2>2. CASE ~there(t, d) /\ B[n - 1] = spot(Nowhere, <<>>)
    <3>1. B[n] = spot(Nowhere, <<>>)
      <4> HIDE DEF B
      <4> QED
        BY <1>3, <2>2, LookDone
    <3> QED
      BY <1>a, <2>1, <2>2, <3>1
  <2>3. ASSUME NEW m \in 0 .. n - 1, EndsAt(t, q, m), B[n - 1] = trace(t, spot(d, s), follow)[n - 1 - m]
        PROVE  Ahead(t, q, s, follow, n)
    <3>1. n - m \in 1..Lookups /\ (n - m) - 1 = n - 1 - m /\ m \in 0..n
      BY <1>1
    <3>2. spot(d, s) \in Spots
      BY SpotParts
    <3>3. trace(t, spot(d, s), follow)[n - m] = look(t, trace(t, spot(d, s), follow)[n - 1 - m], follow)
      BY <3>1, <3>2, TraceOf
    <3>4. B[n] = trace(t, spot(At(A[n]), s), follow)[n - m]
      <4> HIDE DEF A, B
      <4> QED
        BY <1>3, <2>1, <2>3, <3>3
    <3> QED
      BY <1>a, <2>3, <3>1, <3>4
  <2> QED
    BY <1>b, <2>1, <2>2, <2>3
<1> QED
  BY <1>5, <1>6

LEMMA Along ==
  ASSUME NEW t \in Trees, NEW q \in Path, NEW s \in Path, s # <<>>, NEW follow
  PROVE  Ahead(t, q, s, follow, Lookups)
<1> DEFINE S == {n \in 0..Lookups : Ahead(t, q, s, follow, n)}
<1>1. Lookups \in Nat
  BY PathsAssumption
<1>2. 0 \in S
  <2>1. Outset(q) \in Spots /\ Outset(q \o s) \in Spots /\ q \o s \in Path
    BY OutsetIn, NonEmptyConcat
  <2>2. trace(t, Outset(q), Following)[0] = Outset(q) /\ trace(t, Outset(q \o s), follow)[0] = Outset(q \o s)
    BY <2>1, TraceOf
  <2>3. At(Outset(q)) = <<>> /\ Left(Outset(q)) = q /\ Outset(q \o s) = spot(<<>>, q \o s)
    BY OutsetIn DEF Outset
  <2>4. CASE q # <<>>
    BY <1>1, <2>2, <2>3, <2>4 DEF Ahead
  <2>5. CASE q = <<>>
    <3>1. EndsAt(t, q, 0) /\ 0 \in 0..0 /\ 0 - 0 = 0
      BY <2>2, <2>3, <2>5 DEF EndsAt
    <3>2. Outset(q \o s) = spot(<<>>, s) /\ spot(<<>>, s) \in Spots
      BY <2>3, <2>5, NonEmptyConcat, RootPath, SpotParts
    <3>3. trace(t, spot(<<>>, s), follow)[0] = spot(<<>>, s)
      BY <3>2, TraceOf
    <3>4. At(trace(t, Outset(q), Following)[0]) = <<>>
      BY <2>2, <2>3
    <3> QED
      BY <1>1, <2>2, <3>1, <3>2, <3>3, <3>4 DEF Ahead
  <2> QED
    BY <2>4, <2>5
<1>3. ASSUME NEW n \in 1..Lookups, n - 1 \in S PROVE n \in S
  BY <1>1, <1>3, AheadStep
<1> HIDE DEF S
<1>4. \A n \in 0..Lookups : n \in S
  BY <1>1, <1>2, <1>3, UpTo
<1> QED
  BY <1>1, <1>4 DEF S

\* Where a walk has led to.
Result(w) == IF Left(w) = <<>> THEN At(w) ELSE Nowhere

LEMMA WalkResult ==
  ASSUME NEW t \in Trees, NEW p \in Path, NEW follow
  PROVE  walk(t, p, follow) = Result(trace(t, Outset(p), follow)[Lookups]) /\ walk(t, p, follow) \in Path
BY WalkIs DEF Result

LEMMA ResultOf == \A d, r : Result(spot(d, r)) = IF r = <<>> THEN d ELSE Nowhere
BY SpotParts DEF Result

LEMMA PlaceIs == \A t, p : place(t, p) = walk(t, p, Following) /\ entry(t, p) = walk(t, p, Staying)
BY DEF place, entry, Following, Staying

\* One step of a trace.
LEMMA StepOf ==
  ASSUME NEW t \in Trees, NEW w \in Spots, NEW follow, NEW n \in 1..Lookups
  PROVE  \E d \in Path, r \in Path :
           /\ trace(t, w, follow)[n - 1] = spot(d, r)
           /\ r = <<>> => trace(t, w, follow)[n] = spot(d, <<>>)
           /\ r # <<>> =>
                /\ Looked(trace(t, w, follow)[n], t, d, Head(r), Tail(r), Append(d, Head(r)), follow)
                /\ Head(r) \in Names /\ Tail(r) \in Path
                /\ Append(d, Head(r)) \in Path /\ Append(d, Head(r)) # <<>>
                /\ Front(Append(d, Head(r))) = d
<1> DEFINE h == trace(t, w, follow)
<1>1. n - 1 \in 0..Lookups /\ Lookups \in Nat
  BY PathsAssumption
<1>2. h[n - 1] \in Spots /\ h[n] = look(t, h[n - 1], follow)
  BY <1>1, TraceOf
<1> HIDE DEF h
<1>3. PICK d \in Path, r \in Path : h[n - 1] = spot(d, r)
  BY <1>2, SpotParts
<1>4. r = <<>> => h[n] = spot(d, <<>>)
  BY <1>2, <1>3, LookDone
<1>5. r # <<>> => /\ Looked(h[n], t, d, Head(r), Tail(r), Append(d, Head(r)), follow)
                  /\ Head(r) \in Names /\ Tail(r) \in Path
                  /\ Append(d, Head(r)) \in Path /\ Append(d, Head(r)) # <<>>
                  /\ Front(Append(d, Head(r))) = d
  <2>1. SUFFICES ASSUME r # <<>>
                 PROVE  /\ Looked(h[n], t, d, Head(r), Tail(r), Append(d, Head(r)), follow)
                        /\ Head(r) \in Names /\ Tail(r) \in Path
                        /\ Append(d, Head(r)) \in Path /\ Append(d, Head(r)) # <<>>
                        /\ Front(Append(d, Head(r))) = d
    OBVIOUS
  <2>2. Head(r) \in Names /\ Tail(r) \in Path
    BY <2>1, Names1
  <2>3. Looked(look(t, spot(d, r), follow), t, d, Head(r), Tail(r), Append(d, Head(r)), follow)
    BY <2>1, LookName
  <2>4. h[n] = look(t, spot(d, r), follow)
    BY <1>2, <1>3
  <2> QED
    BY <2>2, <2>3, <2>4, Child
<1> QED
  BY <1>3, <1>4, <1>5 DEF h

\* A tree whose parents are directories.
Closed(t) == \A p \in DOMAIN t : isDir(t, Front(p))

Held(t, d) == d = Nowhere \/ d = <<>> \/ isDir(t, Front(d))

\* What a walk leads to has a parent, be it there or not.
LEMMA ParentIsThere ==
  ASSUME NEW t \in Trees, Closed(t), NEW p \in Path, NEW follow
  PROVE  Held(t, walk(t, p, follow))
<1> DEFINE h == trace(t, Outset(p), follow)
           S == {n \in 0..Lookups : Held(t, At(h[n]))}
<1>1. Lookups \in Nat /\ Outset(p) \in Spots /\ At(Outset(p)) = <<>>
  BY PathsAssumption, OutsetIn
<1>2. 0 \in S
  BY <1>1, TraceOf DEF Held
<1>3. ASSUME NEW n \in 1..Lookups, n - 1 \in S PROVE n \in S
  <2>1. PICK d \in Path, r \in Path :
          /\ h[n - 1] = spot(d, r)
          /\ r = <<>> => h[n] = spot(d, <<>>)
          /\ r # <<>> =>
               /\ Looked(h[n], t, d, Head(r), Tail(r), Append(d, Head(r)), follow)
               /\ Head(r) \in Names /\ Tail(r) \in Path
               /\ Append(d, Head(r)) \in Path /\ Append(d, Head(r)) # <<>>
               /\ Front(Append(d, Head(r))) = d
    BY <1>1, StepOf
  <2>2. Held(t, d)
    <3> HIDE DEF h
    <3> QED
      BY <1>3, <2>1, SpotParts
  <2>3. isDir(t, d) => Held(t, Up(d))
    <3>1. \A c \in DOMAIN t : isDir(t, Front(c))
      BY DEF Closed
    <3> QED
      BY <3>1 DEF Up, Held, isDir
  <2> DEFINE x == Head(r)
             v == Tail(r)
             c == Append(d, x)
  <2>4. Held(t, At(h[n]))
    <3>1. CASE r = <<>>
      <4> HIDE DEF h
      <4> QED
        BY <2>1, <2>2, <3>1, SpotParts
    <3>2. CASE r # <<>>
      <4>1. Looked(h[n], t, d, x, v, c, follow) /\ Front(c) = d
        BY <2>1, <3>2
      <4> HIDE DEF h, x, v, c
      <4>2. \/ h[n] = spot(Nowhere, <<>>)
            \/ isDir(t, d) /\ h[n] = spot(Up(d), v)
            \/ isDir(t, d) /\ h[n] = spot(IF v = <<>> THEN c ELSE Nowhere, <<>>)
            \/ h[n] = spot(Base(t[c], d), t[c].to \o v)
            \/ isDir(t, d) /\ h[n] = spot(c, v)
        BY <4>1 DEF Looked
      <4>3. \/ At(h[n]) = Nowhere
            \/ isDir(t, d) /\ (At(h[n]) = Up(d) \/ At(h[n]) = c)
            \/ At(h[n]) = Base(t[c], d)
        BY <4>2, SpotParts
      <4> QED
        BY <2>2, <2>3, <4>1, <4>3 DEF Held, Base
    <3> QED
      BY <3>1, <3>2
  <2> QED
    BY <1>1, <2>4
<1> HIDE DEF S
<1>4. \A n \in 0..Lookups : n \in S
  BY <1>1, <1>2, <1>3, UpTo
<1>5. Held(t, At(h[Lookups]))
  BY <1>1, <1>4 DEF S
<1>6. walk(t, p, follow) = At(h[Lookups]) \/ walk(t, p, follow) = Nowhere
  BY WalkResult DEF Result
<1> QED
  BY <1>5, <1>6 DEF Held

\* From where nothing can be looked up the kernel goes nowhere.
LEMMA Stuck ==
  ASSUME NEW t \in Trees, NEW d \in Path, ~isDir(t, d), NEW s \in Path, s # <<>>, NEW follow,
         NEW k \in 0..Lookups
  PROVE  Result(trace(t, spot(d, s), follow)[k]) = Nowhere
<1> DEFINE h == trace(t, spot(d, s), follow)
<1>1. Lookups \in Nat /\ spot(d, s) \in Spots
  BY PathsAssumption, SpotParts
<1>2. h[0] = spot(d, s)
  BY <1>1, TraceOf
<1>3. CASE k = 0
  BY <1>2, <1>3, ResultOf
<1>4. CASE k # 0
  <2>1. 1 \in 1..Lookups /\ 1 - 1 = 0 /\ 1 \in 0..Lookups /\ k \in 1..Lookups
    BY <1>1, <1>4
  <2>2. h[1] = look(t, h[0], follow)
    BY <1>1, <2>1, TraceOf
  <2>3. look(t, spot(d, s), follow) = spot(Nowhere, <<>>)
    <3>1. Looked(look(t, spot(d, s), follow), t, d, Head(s), Tail(s), Append(d, Head(s)), follow)
      BY LookName
    <3> QED
      BY <3>1 DEF Looked
  <2>4. Left(h[1]) = <<>>
    BY <1>2, <2>2, <2>3, SpotParts
  <2>5. h[k] = h[1]
    BY <1>1, <2>1, <2>4, Stays
  <2> HIDE DEF h
  <2>6. h[k] = spot(Nowhere, <<>>)
    BY <1>2, <2>2, <2>3, <2>5
  <2> QED
    BY <2>6, ResultOf DEF h
<1> QED
  BY <1>3, <1>4

\* Nothing is found below what is not a directory; below one, the kernel goes on
\* from there.
LEMMA Below ==
  ASSUME NEW t \in Trees, NEW q \in Path, NEW s \in Path, s # <<>>, NEW follow
  PROVE  /\ ~isDir(t, place(t, q)) => walk(t, q \o s, follow) = Nowhere
         /\ isDir(t, place(t, q)) =>
              \E m \in 0..Lookups :
                /\ EndsAt(t, q, m)
                /\ walk(t, q \o s, follow)
                     = Result(trace(t, spot(place(t, q), s), follow)[Lookups - m])
<1> DEFINE a == trace(t, Outset(q), Following)[Lookups]
           b == trace(t, Outset(q \o s), follow)[Lookups]
<1>1. Lookups \in Nat /\ Outset(q) \in Spots /\ q \o s \in Path /\ Lookups \in 0..Lookups
  BY PathsAssumption, OutsetIn, NonEmptyConcat
<1>2. place(t, q) = Result(a) /\ walk(t, q \o s, follow) = Result(b) /\ place(t, q) \in Path
  BY <1>1, WalkResult, PlaceIs
<1>3. a \in Spots
  BY <1>1, TraceOf
<1>4. \/ Left(a) # <<>> /\ b = spot(At(a), Left(a) \o s)
      \/ Left(a) = <<>> /\ ~there(t, At(a)) /\ b = spot(Nowhere, <<>>)
      \/ \E m \in 0..Lookups : EndsAt(t, q, m) /\ b = trace(t, spot(At(a), s), follow)[Lookups - m]
  BY Along DEF Ahead
<1>5. ~there(t, Nowhere) /\ \A d : isDir(t, d) => there(t, d)
  BY TreeNodes, RootPath DEF there, isDir
<1> HIDE DEF a, b
<1>6. CASE Left(a) # <<>> /\ b = spot(At(a), Left(a) \o s)
  <2>1. Left(a) \o s # <<>>
    BY <1>3, SpotParts, NonEmptyConcat
  <2>2. Result(b) = Nowhere
    BY <1>6, <2>1, ResultOf
  <2>3. Result(a) = Nowhere
    BY <1>6 DEF Result
  <2> QED
    BY <1>2, <1>5, <2>2, <2>3
<1>7. CASE Left(a) = <<>> /\ ~there(t, At(a)) /\ b = spot(Nowhere, <<>>)
  <2>1. Result(b) = Nowhere /\ Result(a) = At(a)
    BY <1>7, ResultOf DEF Result
  <2> QED
    BY <1>2, <1>5, <1>7, <2>1
<1>8. CASE \E m \in 0..Lookups : EndsAt(t, q, m) /\ b = trace(t, spot(At(a), s), follow)[Lookups - m]
  <2>1. PICK m \in 0..Lookups : EndsAt(t, q, m) /\ b = trace(t, spot(At(a), s), follow)[Lookups - m]
    BY <1>8
  <2>2. Left(a) = <<>>
    <3>1. Left(trace(t, Outset(q), Following)[m]) = <<>>
      BY <2>1 DEF EndsAt
    <3>2. trace(t, Outset(q), Following)[Lookups] = trace(t, Outset(q), Following)[m]
      <4>1. Lookups \in m..Lookups
        BY <1>1
      <4> QED
        BY <1>1, <3>1, <4>1, Stays
    <3> QED
      BY <3>1, <3>2 DEF a
  <2>3. place(t, q) = At(a)
    BY <1>2, <2>2 DEF Result
  <2>4. walk(t, q \o s, follow) = Result(trace(t, spot(place(t, q), s), follow)[Lookups - m])
    BY <1>2, <2>1, <2>3
  <2>5. Lookups - m \in 0..Lookups
    BY <1>1
  <2>6. ~isDir(t, place(t, q)) => walk(t, q \o s, follow) = Nowhere
    BY <1>2, <2>4, <2>5, Stuck
  <2> QED
    BY <2>1, <2>4, <2>6
<1> QED
  BY <1>4, <1>6, <1>7, <1>8

\* Where the kernel is after a name x of a directory d.
Into(t, d, x, v, follow, k) ==
  LET c == Append(d, x)
      r == Result(trace(t, spot(d, <<x>> \o v), follow)[k])
  IN /\ c \notin DOMAIN t => r = IF v = <<>> THEN c ELSE Nowhere
     /\ v = <<>> /\ ~Leads(t[c], follow, v) => r = c

LEMMA IntoDir ==
  ASSUME NEW t \in Trees, NEW d \in Path, isDir(t, d), NEW x \in Names, x # "..",
         NEW v \in Path, NEW follow, NEW k \in 1..Lookups
  PROVE  Into(t, d, x, v, follow, k)
<1> DEFINE c == Append(d, x)
           s == <<x>> \o v
           h == trace(t, spot(d, s), follow)
<1>1. s \in Path /\ s # <<>> /\ Head(s) = x /\ Tail(s) = v
  <2>1. <<x>> \in Path /\ <<x>> # <<>> /\ Head(<<x>>) = x /\ Tail(<<x>>) = <<>>
    BY OneName, RootPath
  <2>2. <<>> \o v = v
    BY ConcatEmptySeq DEF Path
  <2>3. s \in Path
    BY <2>1, ConcatProperties DEF Path
  <2> QED
    BY <2>1, <2>2, <2>3, HeadOfConcat
<1>2. Lookups \in Nat /\ 1 \in 1..Lookups /\ 1 - 1 = 0 /\ 1 \in 0..Lookups
  BY PathsAssumption
<1>3. c \in Path
  BY Child
<1> HIDE DEF s, c
<1>4. spot(d, s) \in Spots
  BY <1>1, SpotParts
<1>5. h[0] = spot(d, s) /\ h[1] = look(t, h[0], follow)
  BY <1>2, <1>4, TraceOf
<1>6. Looked(h[1], t, d, x, v, c, follow)
  <2>1. Looked(look(t, spot(d, s), follow), t, d, Head(s), Tail(s), Append(d, Head(s)), follow)
    BY <1>1, LookName
  <2> HIDE DEF h
  <2> QED
    BY <1>1, <1>5, <2>1 DEF c
<1>7. Left(h[1]) = <<>> => h[k] = h[1]
  BY <1>2, <1>4, Stays
<1> HIDE DEF h
<1>8. ASSUME c \notin DOMAIN t PROVE Result(h[k]) = IF v = <<>> THEN c ELSE Nowhere
  <2>1. h[1] = spot(IF v = <<>> THEN c ELSE Nowhere, <<>>)
    BY <1>6, <1>8 DEF Looked
  <2> QED
    BY <1>7, <2>1, SpotParts, ResultOf
<1>9. ASSUME v = <<>>, ~Leads(t[c], follow, v) PROVE Result(h[k]) = c
  <2>1. h[1] = spot(c, <<>>)
    BY <1>6, <1>9 DEF Looked
  <2> QED
    BY <1>7, <2>1, SpotParts, ResultOf
<1> QED
  BY <1>8, <1>9 DEF c, s, h, Into

LEMMA IntoName ==
  ASSUME NEW t \in Trees, NEW d \in Path, isDir(t, d), NEW x \in Names, x # "..",
         NEW follow, NEW k \in 1..Lookups, ~Leads(t[Append(d, x)], follow, <<>>)
  PROVE  Result(trace(t, spot(d, <<x>>), follow)[k]) = Append(d, x)
<1> DEFINE v == <<>>
<1>1. v \in Path /\ v = <<>> /\ <<x>> \o v = <<x>>
  <2>1. <<x>> \in Path
    BY OneName
  <2> QED
    BY <2>1, RootPath, ConcatEmptySeq DEF Path
<1> HIDE DEF v
<1>3. ~Leads(t[Append(d, x)], follow, v)
  BY <1>1
<1>2. Result(trace(t, spot(d, <<x>> \o v), follow)[k]) = Append(d, x)
  <2>1. Into(t, d, x, v, follow, k)
    BY <1>1, IntoDir
  <2> QED
    BY <1>1, <1>3, <2>1 DEF Into
<1> QED
  BY <1>1, <1>2

LEMMA EndsOnce ==
  ASSUME NEW t, NEW q, NEW m \in Nat, NEW n \in Nat, EndsAt(t, q, m), EndsAt(t, q, n)
  PROVE  m = n
<1>1. ~(m < n) /\ ~(n < m)
  BY DEF EndsAt
<1> QED
  BY <1>1

LEMMA AppendConcat ==
  ASSUME NEW q \in Path, NEW x \in Names, NEW v \in Path
  PROVE  /\ Append(q, x) \o v = q \o (<<x>> \o v)
         /\ <<x>> \o v \in Path /\ <<x>> \o v # <<>>
         /\ <<x>> \o <<>> = <<x>>
<1>1. <<x>> \in Path /\ <<x>> # <<>>
  BY OneName, RootPath
<1>2. Append(q, x) = q \o <<x>>
  BY AppendIsConcat DEF Path
<1>3. <<x>> \o v \in Path
  BY <1>1, ConcatProperties DEF Path
<1>4. (q \o <<x>>) \o v = q \o (<<x>> \o v)
  BY <1>1, ConcatThree
<1>5. <<x>> \o <<>> = <<x>>
  BY <1>1, ConcatEmptySeq DEF Path
<1>6. <<x>> \o v # <<>>
  BY <1>1, HeadOfConcat
<1> QED
  BY <1>2, <1>3, <1>4, <1>5, <1>6

\* The last name of a path is not followed: it is in the directory the rest of
\* the path leads to, or the walk fails.
LEMMA LastName ==
  ASSUME NEW t \in Trees, NEW q \in Path, NEW x \in Names, x # ".."
  PROVE  \/ entry(t, Append(q, x)) = Nowhere
         \/ entry(t, Append(q, x)) = Append(place(t, q), x) /\ isDir(t, place(t, q))
<1> DEFINE real == place(t, q)
           s == <<x>>
<1>1. real \in Path
  BY WalkResult, PlaceIs
<1>2. s \in Path /\ s # <<>> /\ Append(q, x) = q \o s /\ s = <<x>> \o <<>> /\ <<>> \in Path
  BY OneName, RootPath, AppendConcat, AppendIsConcat DEF Path
<1> HIDE DEF s
<1>3. entry(t, Append(q, x)) = walk(t, q \o s, Staying)
  BY <1>2, PlaceIs
<1>4. CASE ~isDir(t, real)
  BY <1>2, <1>3, <1>4, Below
<1>5. CASE isDir(t, real)
  <2>1. PICK m \in 0..Lookups :
          walk(t, q \o s, Staying) = Result(trace(t, spot(real, s), Staying)[Lookups - m])
    BY <1>2, <1>5, Below
  <2> HIDE DEF real
  <2>2. Lookups \in Nat
    BY PathsAssumption
  <2>3. CASE m = Lookups
    <3>1. Lookups - m = 0 /\ spot(real, s) \in Spots
      BY <1>1, <1>2, <2>2, <2>3, SpotParts
    <3>2. trace(t, spot(real, s), Staying)[0] = spot(real, s)
      BY <3>1, TraceOf
    <3>3. Result(spot(real, s)) = Nowhere
      BY <1>2, ResultOf
    <3>4. trace(t, spot(real, s), Staying)[Lookups - m] = spot(real, s)
      BY <3>1, <3>2
    <3> QED
      BY <1>3, <2>1, <3>3, <3>4
  <2>4. CASE m # Lookups
    <3>1. Lookups - m \in 1..Lookups
      BY <2>2, <2>4
    <3>2. ~Leads(t[Append(real, x)], Staying, <<>>)
      BY FollowedWhen DEF Leads
    <3>3. Result(trace(t, spot(real, s), Staying)[Lookups - m]) = Append(real, x)
      BY <1>1, <1>5, <3>1, <3>2, IntoName DEF s
    <3> QED
      BY <1>3, <1>5, <2>1, <3>3 DEF real
  <2> QED
    BY <2>3, <2>4
<1> QED
  BY <1>4, <1>5

\* Nothing is found below a name that is missing.
LEMMA Beyond ==
  ASSUME NEW t \in Trees, NEW q \in Path, NEW x \in Names, x # "..",
         ~there(t, entry(t, Append(q, x))), NEW v \in Path, NEW follow
  PROVE  \/ walk(t, Append(q, x) \o v, follow) = Nowhere
         \/ v = <<>> /\ walk(t, Append(q, x) \o v, follow) = entry(t, Append(q, x))
<1> DEFINE real == place(t, q)
           s == <<x>>
           u == <<x>> \o v
           c == Append(real, x)
<1>1. real \in Path
  BY WalkResult, PlaceIs
<1>2. s \in Path /\ s # <<>> /\ Append(q, x) = q \o s /\ s = <<x>> \o <<>> /\ <<>> \in Path
  BY OneName, RootPath, AppendConcat, AppendIsConcat DEF Path
<1>3. u \in Path /\ u # <<>> /\ Append(q, x) \o v = q \o u
  BY AppendConcat
<1>4. c \in Path
  BY <1>1, Child
<1> HIDE DEF s, u, c
<1>5. entry(t, Append(q, x)) = walk(t, q \o s, Staying)
  BY <1>2, PlaceIs
<1>6. CASE ~isDir(t, real)
  BY <1>3, <1>6, Below
<1>7. CASE isDir(t, real)
  <2>1. PICK m \in 0..Lookups :
          /\ EndsAt(t, q, m)
          /\ walk(t, q \o s, Staying) = Result(trace(t, spot(real, s), Staying)[Lookups - m])
    BY <1>2, <1>7, Below
  <2>2. PICK n \in 0..Lookups :
          /\ EndsAt(t, q, n)
          /\ walk(t, q \o u, follow) = Result(trace(t, spot(real, u), follow)[Lookups - n])
    BY <1>3, <1>7, Below
  <2> HIDE DEF real
  <2>3. Lookups \in Nat /\ m \in Nat /\ n \in Nat
    BY PathsAssumption
  <2>4. m = n
    BY <2>1, <2>2, <2>3, EndsOnce
  <2>5. CASE m = Lookups
    <3>1. Lookups - n = 0 /\ spot(real, u) \in Spots
      BY <1>1, <1>3, <2>3, <2>4, <2>5, SpotParts
    <3>2. trace(t, spot(real, u), follow)[0] = spot(real, u)
      BY <3>1, TraceOf
    <3>3. Result(trace(t, spot(real, u), follow)[Lookups - n]) = Nowhere
      BY <1>3, <3>1, <3>2, ResultOf
    <3> QED
      BY <1>3, <2>2, <3>3
  <2>6. CASE m # Lookups
    <3>1. Lookups - m \in 1..Lookups
      BY <2>3, <2>6
    <3>2. ~Leads(t[c], Staying, <<>>)
      BY FollowedWhen DEF Leads
    <3>3. Result(trace(t, spot(real, s), Staying)[Lookups - m]) = c
      BY <1>1, <1>7, <3>1, <3>2, IntoName DEF c, s
    <3>4. c \notin DOMAIN t /\ entry(t, Append(q, x)) = c
      BY <1>5, <2>1, <3>3 DEF there
    <3>5. Result(trace(t, spot(real, u), follow)[Lookups - m]) = IF v = <<>> THEN c ELSE Nowhere
      <4>1. Into(t, real, x, v, follow, Lookups - m)
        BY <1>1, <1>7, <3>1, IntoDir
      <4> QED
        BY <3>4, <4>1 DEF c, u, Into
    <3> QED
      BY <1>3, <2>2, <2>4, <3>4, <3>5
  <2> QED
    BY <2>5, <2>6
<1> QED
  BY <1>6, <1>7
-----------------------------------------------------------------------------
(* One path in two trees *)

Stepped(w, t, d, r, follow) ==
  /\ r = <<>> => w = spot(d, <<>>)
  /\ r # <<>> => Looked(w, t, d, Head(r), Tail(r), Append(d, Head(r)), follow)

LEMMA StepAt ==
  ASSUME NEW t \in Trees, NEW w \in Spots, NEW follow, NEW n \in 1..Lookups,
         NEW d \in Path, NEW r \in Path, trace(t, w, follow)[n - 1] = spot(d, r)
  PROVE  Stepped(trace(t, w, follow)[n], t, d, r, follow)
<1> DEFINE h == trace(t, w, follow)
<1>1. PICK e \in Path, s \in Path :
        /\ h[n - 1] = spot(e, s)
        /\ s = <<>> => h[n] = spot(e, <<>>)
        /\ s # <<>> => Looked(h[n], t, e, Head(s), Tail(s), Append(e, Head(s)), follow)
  BY StepOf
<1> HIDE DEF h
<1>2. e = d /\ s = r
  <2>1. spot(e, s) = spot(d, r)
    BY <1>1 DEF h
  <2> QED
    BY <2>1, SpotParts
<1> QED
  BY <1>1, <1>2 DEF Stepped, h

LEMMA SpotAt ==
  ASSUME NEW t \in Trees, NEW w \in Spots, NEW follow, NEW n \in 0..Lookups
  PROVE  \E d \in Path, r \in Path : trace(t, w, follow)[n] = spot(d, r)
<1>1. trace(t, w, follow)[n] \in Spots
  BY TraceOf
<1> QED
  BY <1>1, SpotParts

LEMMA NameOf ==
  ASSUME NEW d \in Path, NEW r \in Path, r # <<>>
  PROVE  /\ Head(r) \in Names /\ Tail(r) \in Path
         /\ Append(d, Head(r)) \in Path /\ Append(d, Head(r)) # <<>>
         /\ Front(Append(d, Head(r))) = d
BY Names1, Child

\* What holds at the start of a trace and after every step holds at its end.
LEMMA AtTheEnd ==
  ASSUME NEW S, 0 \in S, \A n \in 1..Lookups : n - 1 \in S => n \in S
  PROVE  Lookups \in S
<1>1. Lookups \in Nat /\ Lookups \in 0..Lookups
  BY PathsAssumption
<1> QED
  BY <1>1, UpTo

\* u is t and more.
Grows(t, u) == DOMAIN t \subseteq DOMAIN u /\ \A p \in DOMAIN t : u[p] = t[p]

\* A walk to what is there leads there after something is made elsewhere.
LEMMA StillLeads ==
  ASSUME NEW t \in Trees, NEW u \in Trees, Grows(t, u), NEW p \in Path, NEW follow,
         there(t, walk(t, p, follow))
  PROVE  /\ \A n \in 0..Lookups : trace(u, Outset(p), follow)[n] = trace(t, Outset(p), follow)[n]
         /\ walk(u, p, follow) = walk(t, p, follow)
<1> DEFINE w == Outset(p)
           Is(n) == \/ trace(u, w, follow)[n] = trace(t, w, follow)[n]
                    \/ \E d : trace(t, w, follow)[n] = spot(d, <<>>) /\ ~there(t, d)
           S == {n \in 0..Lookups : Is(n)}
<1>1. w \in Spots /\ Lookups \in Nat
  BY OutsetIn, PathsAssumption
<1> HIDE DEF w
<1>2. 0 \in S
  BY <1>1, TraceOf
<1>3. ASSUME NEW n \in 1..Lookups, n - 1 \in S PROVE n \in S
  <2> DEFINE ht == trace(t, w, follow)
             hu == trace(u, w, follow)
  <2>1. n - 1 \in 0..Lookups /\ n \in 0..Lookups
    BY <1>1
  <2>2. PICK d \in Path, r \in Path : ht[n - 1] = spot(d, r)
    BY <1>1, <2>1, SpotAt
  <2>3. Stepped(ht[n], t, d, r, follow)
    BY <1>1, <2>2, StepAt
  <2>4. CASE \E e : ht[n - 1] = spot(e, <<>>) /\ ~there(t, e)
    <3>1. PICK e : ht[n - 1] = spot(e, <<>>) /\ ~there(t, e)
      BY <2>4
    <3> HIDE DEF ht
    <3>a. spot(d, r) = spot(e, <<>>)
      BY <2>2, <3>1 DEF ht
    <3>2. d = e /\ r = <<>>
      BY <3>a, SpotParts
    <3>3. ht[n] = spot(e, <<>>)
      BY <2>3, <3>2 DEF Stepped
    <3> QED
      BY <2>1, <3>1, <3>3 DEF ht
  <2>5. CASE hu[n - 1] = ht[n - 1]
    <3>1. hu[n - 1] = spot(d, r)
      BY <2>2, <2>5
    <3>2. Stepped(hu[n], u, d, r, follow)
      BY <1>1, <3>1, StepAt
    <3>3. CASE r = <<>>
      <4>1. hu[n] = ht[n]
        BY <2>3, <3>2, <3>3 DEF Stepped
      <4> QED
        BY <2>1, <4>1
    <3>4. CASE r # <<>>
      <4> DEFINE x == Head(r)
                 v == Tail(r)
                 c == Append(d, x)
      <4>1. Looked(ht[n], t, d, x, v, c, follow) /\ Looked(hu[n], u, d, x, v, c, follow)
        BY <2>3, <3>2, <3>4 DEF Stepped
      <4>2. c \in Path /\ c # <<>>
        BY <3>4, NameOf
      <4>3. ~there(t, Nowhere) /\ (c \notin DOMAIN t => ~there(t, c))
        BY <4>2, TreeNodes, RootPath DEF there
      <4>4. /\ isDir(t, d) => isDir(u, d)
            /\ c \in DOMAIN t => c \in DOMAIN u /\ u[c] = t[c]
        BY DEF Grows, isDir
      <4> HIDE DEF x, v, c, ht, hu
      <4>5. \/ hu[n] = ht[n]
            \/ ht[n] = spot(Nowhere, <<>>)
            \/ c \notin DOMAIN t /\ ht[n] = spot(IF v = <<>> THEN c ELSE Nowhere, <<>>)
        BY <4>1, <4>4 DEF Looked
      <4>6. hu[n] = ht[n] \/ \E e : ht[n] = spot(e, <<>>) /\ ~there(t, e)
        BY <4>3, <4>5
      <4> QED
        BY <2>1, <4>6 DEF ht, hu
    <3> QED
      BY <3>3, <3>4
  <2> QED
    BY <1>3, <2>4, <2>5
<1> HIDE DEF Is
<1>4. ASSUME NEW n \in 0..Lookups PROVE Is(n)
  <2> HIDE DEF S
  <2>1. n \in S
    BY <1>1, <1>2, <1>3, UpTo
  <2> QED
    BY <2>1 DEF S
<1>5. ASSUME NEW n \in 0..Lookups PROVE trace(u, w, follow)[n] = trace(t, w, follow)[n]
  <2>1. SUFFICES ASSUME NEW d, trace(t, w, follow)[n] = spot(d, <<>>), ~there(t, d) PROVE FALSE
    BY <1>4 DEF Is
  <2>2. Left(trace(t, w, follow)[n]) = <<>>
    BY <2>1, SpotParts
  <2>3. trace(t, w, follow)[Lookups] = trace(t, w, follow)[n]
    BY <1>1, <2>2, Stays
  <2>4. walk(t, p, follow) = Result(spot(d, <<>>))
    BY <2>1, <2>3, WalkResult DEF w
  <2> QED
    BY <2>1, <2>4, ResultOf
<1>6. trace(u, w, follow)[Lookups] = trace(t, w, follow)[Lookups]
  BY <1>1, <1>5
<1> QED
  BY <1>5, <1>6, WalkResult DEF w

LEMMA DropTree ==
  ASSUME NEW t \in Trees, NEW e \in Path
  PROVE  /\ drop(t, e) \in Trees
         /\ \A p : p \in DOMAIN drop(t, e) <=> p \in DOMAIN t /\ ~under(e, p)
         /\ \A p \in DOMAIN drop(t, e) : drop(t, e)[p] = t[p]
<1> DEFINE u == drop(t, e)
<1>1. /\ \A p : p \in DOMAIN u <=> p \in DOMAIN t /\ ~under(e, p)
      /\ \A p \in DOMAIN u : u[p] = t[p]
      /\ u = [p \in DOMAIN u |-> u[p]]
  BY DEF drop
<1> HIDE DEF u
<1>2. DOMAIN t \subseteq Path \ {<<>>, Nowhere} /\ \A p \in DOMAIN t : t[p] \in Node
  BY TreeNodes
<1>3. u \in Trees
  BY <1>1, <1>2, TreeNodes
<1> QED
  BY <1>1, <1>3 DEF u

\* Where a walk leads when e is gone.
LEMMA DropWalk ==
  ASSUME NEW t \in Trees, NEW e \in Path, e # <<>>, NEW p \in Path, NEW follow
  PROVE  \/ walk(drop(t, e), p, follow) = walk(t, p, follow)
         \/ walk(drop(t, e), p, follow) \in {e, Nowhere}
<1> DEFINE w == Outset(p)
           u == drop(t, e)
           Is(n) == \/ trace(u, w, follow)[n] = trace(t, w, follow)[n]
                    \/ trace(u, w, follow)[n] = spot(e, <<>>)
                    \/ trace(u, w, follow)[n] = spot(Nowhere, <<>>)
           S == {n \in 0..Lookups : Is(n)}
<1>1. w \in Spots /\ Lookups \in Nat
  BY OutsetIn, PathsAssumption
<1>2. /\ u \in Trees
      /\ \A q : q \in DOMAIN u <=> q \in DOMAIN t /\ ~under(e, q)
      /\ \A q \in DOMAIN u : u[q] = t[q]
  BY DropTree
<1> HIDE DEF w, u
<1>3. 0 \in S
  BY <1>1, <1>2, TraceOf
<1>4. ASSUME NEW n \in 1..Lookups, n - 1 \in S PROVE n \in S
  <2> DEFINE ht == trace(t, w, follow)
             hu == trace(u, w, follow)
  <2>1. n - 1 \in 0..Lookups /\ n \in 0..Lookups
    BY <1>1
  <2>2. PICK d \in Path, r \in Path : hu[n - 1] = spot(d, r)
    BY <1>1, <1>2, <2>1, SpotAt
  <2>3. Stepped(hu[n], u, d, r, follow)
    BY <1>1, <1>2, <2>2, StepAt
  <2>4. CASE r = <<>>
    <3>1. hu[n] = hu[n - 1]
      BY <2>2, <2>3, <2>4 DEF Stepped
    <3>2. CASE hu[n - 1] = ht[n - 1]
      <4>1. ht[n - 1] = spot(d, r)
        BY <2>2, <3>2
      <4>2. Stepped(ht[n], t, d, r, follow)
        BY <1>1, <4>1, StepAt
      <4>3. ht[n] = ht[n - 1]
        BY <4>1, <4>2, <2>4 DEF Stepped
      <4> QED
        BY <2>1, <3>1, <3>2, <4>3
    <3> QED
      BY <1>4, <2>1, <3>1, <3>2
  <2>5. CASE r # <<>>
    <3>1. hu[n - 1] = ht[n - 1]
      <4> HIDE DEF hu
      <4>1. spot(d, r) # spot(e, <<>>) /\ spot(d, r) # spot(Nowhere, <<>>)
        BY <2>5, SpotParts
      <4> QED
        BY <1>4, <2>2, <4>1 DEF hu
    <3>2. ht[n - 1] = spot(d, r)
      BY <2>2, <3>1
    <3>3. Stepped(ht[n], t, d, r, follow)
      BY <1>1, <3>2, StepAt
    <3> DEFINE x == Head(r)
               v == Tail(r)
               c == Append(d, x)
    <3>4. Looked(ht[n], t, d, x, v, c, follow) /\ Looked(hu[n], u, d, x, v, c, follow)
      BY <2>3, <3>3, <2>5 DEF Stepped
    <3>5. c \in Path /\ c # <<>> /\ Front(c) = d
      BY <2>5, NameOf
    <3> HIDE DEF x, v, c, ht, hu
    <3>6. isDir(u, d) /\ c \notin DOMAIN u /\ c \in DOMAIN t => c = e
      <4>1. SUFFICES ASSUME isDir(u, d), c \notin DOMAIN u, c \in DOMAIN t, c # e PROVE FALSE
        OBVIOUS
      <4>2. under(e, c)
        BY <1>2, <4>1
      <4>3. under(e, d)
        BY <3>5, <4>1, <4>2, UnderParent
      <4>4. d # <<>>
        BY <4>3, UnderSame, RootPath, LenProperties, EmptySeq DEF under, Path
      <4> QED
        BY <1>2, <4>1, <4>3, <4>4 DEF isDir
    <3>7. /\ isDir(u, d) => isDir(t, d)
          /\ c \in DOMAIN u => c \in DOMAIN t /\ u[c] = t[c]
      BY <1>2 DEF isDir
    <3>8. \/ hu[n] = ht[n]
          \/ hu[n] = spot(Nowhere, <<>>)
          \/ c = e /\ hu[n] = spot(IF v = <<>> THEN c ELSE Nowhere, <<>>)
      BY <3>4, <3>6, <3>7 DEF Looked
    <3>9. Is(n)
      BY <3>8 DEF hu, ht
    <3> QED
      BY <2>1, <3>9
  <2> QED
    BY <2>4, <2>5
<1> HIDE DEF Is
<1>5. Is(Lookups)
  <2> HIDE DEF S
  <2>1. Lookups \in S
    BY <1>3, <1>4, AtTheEnd
  <2> QED
    BY <2>1 DEF S
<1>6. /\ walk(u, p, follow) = Result(trace(u, w, follow)[Lookups])
      /\ walk(t, p, follow) = Result(trace(t, w, follow)[Lookups])
  BY <1>2, WalkResult DEF w
<1> QED
  BY <1>5, <1>6, ResultOf DEF Is, u
-----------------------------------------------------------------------------
(* The rest of the host *)

\* Outside of Root the tree is what it was.
SameOutside(t) ==
  /\ \A p \in DOMAIN t : under(Root, p) \/ p \in DOMAIN Outside
  /\ \A p \in DOMAIN Outside : p \in DOMAIN t /\ t[p] = Outside[p]

LEMMA DirIsNode == Dir \in Node /\ File \in Node /\ Dir.kind = "dir" /\ File.kind = "file"
BY EmptySeq DEF Dir, File, Node

\* The new data directory.
LEMMA Fresh ==
  /\ fresh \in Trees /\ Closed(fresh) /\ SameOutside(fresh)
  /\ Root \in DOMAIN fresh /\ fresh[Root] = Dir
<1>1. /\ DOMAIN fresh = DOMAIN Outside \cup {Root} /\ fresh[Root] = Dir
      /\ \A p \in DOMAIN Outside : p # Root => fresh[p] = Outside[p]
      /\ fresh = [p \in DOMAIN fresh |-> fresh[p]]
  BY DEF fresh
<1>2. Root \in Path /\ Root # <<>> /\ Root # Nowhere /\ under(Root, Root) /\ Front(Root) = <<>>
  BY RootPath, UnderItself
<1>3. \A p \in DOMAIN Outside :
        /\ p \in Path \ {<<>>, Nowhere} /\ p # Root
        /\ Outside[p] \in Node /\ isDir(Outside, Front(p))
  BY <1>2, OutsideAssumption DEF Path
<1>4. fresh \in Trees
  BY <1>1, <1>2, <1>3, DirIsNode, TreeNodes
<1>5. SameOutside(fresh)
  BY <1>1, <1>2, <1>3 DEF SameOutside
<1>6. Closed(fresh)
  <2>1. ASSUME NEW p \in DOMAIN Outside PROVE isDir(fresh, Front(p))
    BY <1>1, <1>3 DEF isDir
  <2>2. isDir(fresh, Front(Root))
    BY <1>2 DEF isDir
  <2> QED
    BY <1>1, <2>1, <2>2 DEF Closed
<1> QED
  BY <1>1, <1>4, <1>5, <1>6

LEMMA WayOn ==
  ASSUME NEW p \in Path, p # <<>>, NEW node \in Node
  PROVE  /\ wayOn(p, node) = spot(Base(node, Front(p)), node.to)
         /\ wayOn(p, node) \in Spots
<1>1. Front(p) \in Path /\ <<>> \in Path /\ node.to \in Path
  BY Parent, NodeTo, RootPath
<1> QED
  BY <1>1, SpotParts DEF wayOn, Base

\* Where a link of the rest of the host leads does not depend on what is in Root.
LEMMA Agreement ==
  ASSUME NEW t \in Trees, SameOutside(t), NEW l \in DOMAIN Outside, Outside[l].kind = "link",
         NEW n \in 0..Lookups
  PROVE  ~under(Root, At(trace(t, wayOn(l, Outside[l]), Following)[n]))
<1> DEFINE w == wayOn(l, Outside[l])
           ht == trace(t, w, Following)
           hf == trace(fresh, w, Following)
           S == {k \in 0..Lookups : ht[k] = hf[k]}
<1>1. w \in Spots /\ Lookups \in Nat
  <2>1. l \in Path /\ l # <<>> /\ Outside[l] \in Node
    BY OutsideAssumption DEF Path
  <2> QED
    BY <2>1, WayOn, PathsAssumption
<1>2. \A k \in 0..Lookups : ~under(Root, At(hf[k]))
  BY OutsideAssumption DEF At, Following
<1>3. fresh \in Trees /\ Root \in DOMAIN fresh /\ fresh[Root] = Dir /\ SameOutside(fresh)
  BY Fresh
<1> HIDE DEF w
<1>4. 0 \in S
  BY <1>1, <1>3, TraceOf
<1>5. ASSUME NEW k \in 1..Lookups, k - 1 \in S PROVE k \in S
  <2>1. k - 1 \in 0..Lookups /\ k \in 0..Lookups
    BY <1>1
  <2>2. PICK d \in Path, r \in Path : ht[k - 1] = spot(d, r)
    BY <1>1, <2>1, SpotAt
  <2>3. hf[k - 1] = spot(d, r)
    BY <1>5, <2>2
  <2>4. Stepped(ht[k], t, d, r, Following) /\ Stepped(hf[k], fresh, d, r, Following)
    BY <1>1, <1>3, <2>2, <2>3, StepAt
  <2>5. ~under(Root, d)
    <3> HIDE DEF hf
    <3>1. At(hf[k - 1]) = d
      BY <2>3, SpotParts
    <3> QED
      BY <1>2, <2>1, <3>1
  <2>6. CASE r = <<>>
    BY <2>1, <2>4, <2>6 DEF Stepped
  <2>7. CASE r # <<>>
    <3> DEFINE x == Head(r)
               v == Tail(r)
               c == Append(d, x)
    <3>1. Looked(ht[k], t, d, x, v, c, Following) /\ Looked(hf[k], fresh, d, x, v, c, Following)
      BY <2>4, <2>7 DEF Stepped
    <3>2. c \in Path /\ c # <<>> /\ Front(c) = d
      BY <2>7, NameOf
    <3>3. ~under(Root, At(hf[k]))
      BY <1>2, <2>1
    <3> HIDE DEF x, v, c, ht, hf
    <3>4. /\ isDir(t, d) <=> isDir(fresh, d)
      BY <1>3, <2>5 DEF isDir, SameOutside
    <3>5. under(Root, c) => c = Root
      BY <2>5, <3>2, UnderParent, RootPath
    <3>6. c = Root => ~isDir(fresh, d) \/ x = ".."
      <4>1. SUFFICES ASSUME c = Root, isDir(fresh, d), x # ".." PROVE FALSE
        OBVIOUS
      <4>2. c \in DOMAIN fresh /\ ~Leads(fresh[c], Following, v)
        BY <1>3, <4>1, DirIsNode DEF Leads
      <4>3. hf[k] = spot(c, v)
        BY <3>1, <4>1, <4>2 DEF Looked
      <4>4. At(hf[k]) = c
        BY <4>3, SpotParts
      <4> QED
        BY <3>3, <4>1, <4>4, UnderItself, RootPath
    <3>7. isDir(fresh, d) /\ x # ".." => /\ c \in DOMAIN t <=> c \in DOMAIN fresh
                                         /\ c \in DOMAIN t => t[c] = fresh[c]
      BY <1>3, <3>5, <3>6 DEF SameOutside
    <3>8. ht[k] = hf[k]
      BY <3>1, <3>4, <3>7 DEF Looked
    <3> QED
      BY <2>1, <3>8 DEF ht, hf
  <2> QED
    BY <2>6, <2>7
<1> HIDE DEF ht, hf
<1>6. ht[n] = hf[n]
  <2> HIDE DEF S
  <2>1. n \in S
    BY <1>1, <1>4, <1>5, UpTo
  <2> QED
    BY <2>1 DEF S
<1> QED
  BY <1>2, <1>6 DEF ht, w

\* What leads into Root is in Root itself.
LEMMA EntryWithin ==
  ASSUME NEW t \in Trees, SameOutside(t), NEW p \in Path, under(Root, place(t, p))
  PROVE  under(Root, entry(t, p))
<1> DEFINE w == Outset(p)
           hf == trace(t, w, Following)
           hs == trace(t, w, Staying)
           Past(n) == \E l \in DOMAIN t, k \in 0..Lookups :
                        /\ k <= n /\ t[l].kind = "link" /\ hs[n] = spot(l, <<>>)
                        /\ hf[n] = trace(t, wayOn(l, t[l]), Following)[k]
           S == {n \in 0..Lookups : hf[n] = hs[n] \/ Past(n)}
<1>1. w \in Spots /\ Lookups \in Nat
  BY OutsetIn, PathsAssumption
<1>2. \A q \in DOMAIN t : q \in Path /\ q # <<>> /\ t[q] \in Node /\ t[q].to \in Path
  BY TreeNodes, NodeTo
<1> HIDE DEF w
<1>3. 0 \in S
  BY <1>1, TraceOf
<1>4. ASSUME NEW n \in 1..Lookups, n - 1 \in S PROVE n \in S
  <2>1. n - 1 \in 0..Lookups /\ n \in 0..Lookups
    BY <1>1
  <2>2. CASE Past(n - 1)
    <3>1. PICK l \in DOMAIN t, k \in 0..Lookups :
                 /\ k <= n - 1 /\ t[l].kind = "link" /\ hs[n - 1] = spot(l, <<>>)
                 /\ hf[n - 1] = trace(t, wayOn(l, t[l]), Following)[k]
      BY <2>2
    <3>2. wayOn(l, t[l]) \in Spots
      BY <1>2, WayOn
    <3> DEFINE g == trace(t, wayOn(l, t[l]), Following)
    <3>3. k + 1 \in 1..Lookups /\ k + 1 <= n /\ k + 1 \in 0..Lookups /\ (k + 1) - 1 = k
      BY <1>1, <3>1
    <3>4. g[k + 1] = look(t, g[(k + 1) - 1], Following)
      BY <3>2, <3>3, TraceOf
    <3>5. hf[n] = look(t, hf[n - 1], Following)
      BY <1>1, TraceOf
    <3>6. hs[n] = look(t, hs[n - 1], Staying)
      BY <1>1, TraceOf
    <3> HIDE DEF hs, hf, g
    <3>7. hf[n] = g[k + 1]
      BY <3>1, <3>3, <3>4, <3>5 DEF g
    <3>8. hs[n] = spot(l, <<>>)
      BY <3>1, <3>6, LookDone
    <3>9. Past(n)
      BY <3>1, <3>3, <3>7, <3>8 DEF g
    <3> QED
      BY <2>1, <3>9
  <2>3. CASE hf[n - 1] = hs[n - 1]
    <3>1. PICK d \in Path, r \in Path : hs[n - 1] = spot(d, r)
      BY <1>1, <2>1, SpotAt
    <3>2. Stepped(hs[n], t, d, r, Staying)
      BY <1>1, <3>1, StepAt
    <3>3. hf[n - 1] = spot(d, r)
      BY <2>3, <3>1
    <3>4. Stepped(hf[n], t, d, r, Following)
      BY <1>1, <3>3, StepAt
    <3>5. CASE r = <<>>
      BY <2>1, <3>2, <3>4, <3>5 DEF Stepped
    <3>6. CASE r # <<>>
      <4> DEFINE x == Head(r)
                 v == Tail(r)
                 c == Append(d, x)
      <4>1. Looked(hs[n], t, d, x, v, c, Staying) /\ Looked(hf[n], t, d, x, v, c, Following)
        BY <3>2, <3>4, <3>6 DEF Stepped
      <4>2. c \in Path /\ c # <<>> /\ Front(c) = d /\ v \in Path
        BY <3>6, NameOf
      <4> HIDE DEF x, v, c, hs, hf
      <4>3. c \in DOMAIN t => (Leads(t[c], Staying, v) => Leads(t[c], Following, v))
        BY FollowedWhen DEF Leads
      <4>4. CASE hf[n] = hs[n]
        BY <2>1, <4>4
      <4>5. CASE hf[n] # hs[n]
        <5>1. /\ isDir(t, d) /\ x # ".." /\ c \in DOMAIN t
              /\ Leads(t[c], Following, v) /\ ~Leads(t[c], Staying, v)
          BY <4>1, <4>3, <4>5 DEF Looked
        <5>2. v = <<>> /\ t[c].kind = "link"
          BY <5>1, FollowedWhen DEF Leads
        <5>3. hs[n] = spot(c, <<>>) /\ hf[n] = spot(Base(t[c], d), t[c].to \o v)
          BY <4>1, <5>1, <5>2 DEF Looked
        <5>4. t[c].to \o v = t[c].to
          BY <1>2, <5>1, <5>2, ConcatEmptySeq DEF Path
        <5>5. wayOn(c, t[c]) = spot(Base(t[c], d), t[c].to) /\ wayOn(c, t[c]) \in Spots
          BY <1>2, <4>2, <5>1, WayOn
        <5>6. trace(t, wayOn(c, t[c]), Following)[0] = wayOn(c, t[c])
          BY <5>5, TraceOf
        <5>7. hf[n] = trace(t, wayOn(c, t[c]), Following)[0]
          BY <5>3, <5>4, <5>5, <5>6
        <5>8. 0 \in 0..Lookups /\ 0 <= n
          BY <1>1
        <5>9. Past(n)
          BY <5>1, <5>2, <5>3, <5>7, <5>8
        <5> QED
          BY <2>1, <5>9
      <4> QED
        BY <4>4, <4>5
    <3> QED
      BY <3>5, <3>6
  <2> QED
    BY <1>4, <2>2, <2>3
<1> HIDE DEF hs, hf
<1>5. hf[Lookups] = hs[Lookups] \/ Past(Lookups)
  <2> HIDE DEF S
  <2>1. Lookups \in S
    BY <1>3, <1>4, AtTheEnd
  <2> QED
    BY <2>1 DEF S
<1>6. place(t, p) = Result(hf[Lookups]) /\ entry(t, p) = Result(hs[Lookups])
  BY PlaceIs, WalkResult DEF hf, hs, w
<1>7. CASE hf[Lookups] = hs[Lookups]
  BY <1>6, <1>7
<1>8. CASE Past(Lookups)
  <2>1. PICK l \in DOMAIN t, k \in 0..Lookups :
               /\ t[l].kind = "link" /\ hs[Lookups] = spot(l, <<>>)
               /\ hf[Lookups] = trace(t, wayOn(l, t[l]), Following)[k]
    BY <1>8
  <2>2. entry(t, p) = l
    BY <1>6, <2>1, ResultOf
  <2>3. CASE l \in DOMAIN Outside
    <3>1. t[l] = Outside[l]
      BY <2>3 DEF SameOutside
    <3>2. ~under(Root, At(hf[Lookups]))
      BY <2>1, <2>3, <3>1, Agreement
    <3>3. ~under(Root, place(t, p))
      BY <1>6, <3>2, RootPath DEF Result
    <3> QED
      BY <3>3
  <2> QED
    BY <2>2, <2>3 DEF SameOutside
<1> QED
  BY <1>5, <1>7, <1>8
-----------------------------------------------------------------------------
(* A data directory with plain links *)

NoDots(r) == \A i \in 1..Len(r) : r[i] # ".."

PlainTree(t) ==
  /\ isDir(t, Root)
  /\ \A p \in DOMAIN t : under(Root, p) /\ t[p].kind = "link" => plainLink(t[p])

LEMMA CleanNames ==
  /\ \A r \in Path : cleanName(r) <=> r # <<>> /\ NoDots(r)
  /\ NoDots(<<>>)
  /\ plain <=> PlainTree(tree)
<1>1. \A r \in Path : cleanName(r) <=> r # <<>> /\ NoDots(r)
  BY LenProperties DEF cleanName, NoDots, Path
<1>2. NoDots(<<>>)
  BY EmptySeq DEF NoDots
<1> QED
  BY <1>1, <1>2 DEF plain, PlainTree

LEMMA NoDotsHead ==
  ASSUME NEW r \in Path, r # <<>>, NoDots(r)
  PROVE  Head(r) # ".." /\ NoDots(Tail(r))
<1>1. Len(r) \in Nat /\ Len(r) > 0
  BY LenProperties, EmptySeq DEF Path
<1>2. Head(r) = r[1] /\ Len(Tail(r)) = Len(r) - 1 /\ \A i \in 1 .. Len(r) - 1 : Tail(r)[i] = r[i + 1]
  BY <1>1, HeadTailProperties DEF Path
<1> QED
  BY <1>1, <1>2 DEF NoDots

LEMMA NoDotsConcat ==
  ASSUME NEW r \in Path, NEW s \in Path, NoDots(r), NoDots(s)
  PROVE  NoDots(r \o s)
<1>1. Len(r) \in Nat /\ Len(s) \in Nat
  BY LenProperties DEF Path
<1>2. Len(r \o s) = Len(r) + Len(s) /\ \A i \in 1 .. Len(r) + Len(s) :
        (r \o s)[i] = IF i <= Len(r) THEN r[i] ELSE s[i - Len(r)]
  BY ConcatProperties DEF Path
<1> QED
  BY <1>1, <1>2 DEF NoDots

\* The first name of a path in the data directory.
LEMMA RootFirst ==
  ASSUME NEW m \in Path
  PROVE  /\ Root \o m \in Path /\ Root \o m # <<>>
         /\ Head(Root \o m) = "r" /\ Tail(Root \o m) = m /\ Append(<<>>, "r") = Root
<1>1. Root \in Path /\ Root # <<>> /\ "r" \in Names
  BY RootPath, PathsAssumption
<1>2. Head(Root) = "r" /\ Tail(Root) = <<>> /\ Append(<<>>, "r") = Root
  BY <1>1 DEF Root
<1>3. Root \o m \in Path
  BY <1>1, ConcatProperties DEF Path
<1>4. Root \o m # <<>> /\ Head(Root \o m) = Head(Root) /\ Tail(Root \o m) = Tail(Root) \o m
  BY <1>1, HeadOfConcat
<1>5. <<>> \o m = m
  BY ConcatEmptySeq DEF Path
<1> QED
  BY <1>2, <1>3, <1>4, <1>5

\* Such a directory does not lead out of itself.
LEMMA PlainWalk ==
  ASSUME NEW t \in Trees, PlainTree(t), NEW m \in Path, NoDots(m), NEW follow
  PROVE  \/ walk(t, Root \o m, follow) = Nowhere
         \/ /\ under(Root, walk(t, Root \o m, follow))
            /\ m # <<>> => walk(t, Root \o m, follow) # Root
<1> DEFINE w == Outset(Root \o m)
           h == trace(t, w, follow)
           Inside(z) == \E d \in Path, r \in Path :
                          /\ z = spot(d, r) /\ under(Root, d) /\ NoDots(r)
                          /\ m # <<>> /\ r = <<>> => d # Root
           Is(n) == h[n] = spot(Nowhere, <<>>) \/ h[n] = w \/ Inside(h[n])
           S == {n \in 0..Lookups : Is(n)}
<1>1. w \in Spots /\ Lookups \in Nat /\ w = spot(<<>>, Root \o m)
  BY RootFirst, OutsetIn, PathsAssumption DEF Outset
<1>2. Root \in DOMAIN t /\ t[Root].kind = "dir" /\ under(Root, Root)
  BY RootPath, UnderItself DEF PlainTree, isDir
<1> HIDE DEF w
<1>3. 0 \in S
  BY <1>1, TraceOf
<1>4. ASSUME NEW n \in 1..Lookups, n - 1 \in S PROVE n \in S
  <2>1. n - 1 \in 0..Lookups /\ n \in 0..Lookups
    BY <1>1
  <2>2. CASE h[n - 1] = spot(Nowhere, <<>>)
    <3>1. h[n] = look(t, h[n - 1], follow)
      BY <1>1, TraceOf
    <3>2. h[n] = spot(Nowhere, <<>>)
      BY <2>2, <3>1, LookDone
    <3> QED
      BY <2>1, <3>2
  <2>3. CASE h[n - 1] = w
    <3> DEFINE r == Root \o m
    <3>1. h[n - 1] = spot(<<>>, r)
      BY <1>1, <2>3
    <3>2. /\ r \in Path /\ <<>> \in Path /\ r # <<>> /\ Head(r) = "r" /\ Tail(r) = m
          /\ Append(<<>>, Head(r)) = Root
      BY RootFirst, RootPath
    <3> HIDE DEF r
    <3>3. Stepped(h[n], t, <<>>, r, follow)
      BY <1>1, <3>1, <3>2, StepAt
    <3>4. Looked(h[n], t, <<>>, "r", m, Root, follow)
      BY <3>2, <3>3 DEF Stepped
    <3>5. isDir(t, <<>>) /\ "r" # ".." /\ ~Leads(t[Root], follow, m)
      BY <1>2 DEF isDir, Leads
    <3> HIDE DEF h
    <3>6. h[n] = spot(Root, m)
      BY <1>2, <3>4, <3>5 DEF Looked
    <3>7. Inside(h[n])
      BY <1>2, <3>6, RootPath
    <3> QED
      BY <2>1, <3>7
  <2>4. CASE Inside(h[n - 1])
    <3>1. PICK d \in Path, r \in Path :
            /\ h[n - 1] = spot(d, r) /\ under(Root, d) /\ NoDots(r)
            /\ m # <<>> /\ r = <<>> => d # Root
      BY <2>4
    <3>2. Stepped(h[n], t, d, r, follow)
      BY <1>1, <3>1, StepAt
    <3>3. CASE r = <<>>
      <4>1. h[n] = h[n - 1]
        BY <3>1, <3>2, <3>3 DEF Stepped
      <4> QED
        BY <2>1, <2>4, <4>1
    <3>4. CASE r # <<>>
      <4> DEFINE x == Head(r)
                 v == Tail(r)
                 c == Append(d, x)
      <4>1. Looked(h[n], t, d, x, v, c, follow)
        BY <3>2, <3>4 DEF Stepped
      <4>2. c \in Path /\ x \in Names /\ v \in Path /\ x # ".." /\ NoDots(v)
        BY <3>1, <3>4, NameOf, NoDotsHead
      <4>3. under(Root, c) /\ c # Root
        <5>1. under(Root, c) /\ under(d, c) /\ d # c
          BY <3>1, <4>2, UnderChild, RootPath
        <5> QED
          BY <3>1, <5>1, UnderChild, <4>2, UnderSame, RootPath DEF under
      <4> HIDE DEF x, v, c, h
      <4>4. CASE c \in DOMAIN t /\ Leads(t[c], follow, v) /\ isDir(t, d)
        <5>1. plainLink(t[c]) /\ t[c].to \in Path
          BY <4>3, <4>4, TreeNodes, NodeTo DEF PlainTree, Leads
        <5>2. ~t[c].abs /\ t[c].to # <<>> /\ NoDots(t[c].to)
          BY <5>1, CleanNames DEF plainLink
        <5>3. h[n] = spot(d, t[c].to \o v)
          BY <4>1, <4>2, <4>4, <5>2 DEF Looked, Base
        <5>4. t[c].to \o v \in Path /\ t[c].to \o v # <<>> /\ NoDots(t[c].to \o v)
          BY <4>2, <5>1, <5>2, HeadOfConcat, NoDotsConcat, ConcatProperties DEF Path
        <5>5. Inside(h[n])
          BY <3>1, <5>3, <5>4
        <5> QED
          BY <2>1, <5>5
      <4>5. CASE ~(c \in DOMAIN t /\ Leads(t[c], follow, v) /\ isDir(t, d))
        <5>1. h[n] = spot(Nowhere, <<>>) \/ h[n] = spot(c, v) \/ h[n] = spot(c, <<>>)
          BY <4>1, <4>2, <4>5 DEF Looked
        <5>2. Is(n)
          BY <4>2, <4>3, <5>1, CleanNames, RootPath
        <5> QED
          BY <2>1, <5>2
      <4> QED
        BY <4>4, <4>5
    <3> QED
      BY <3>3, <3>4
  <2> QED
    BY <1>4, <2>2, <2>3, <2>4
<1> HIDE DEF h
<1>5. Is(Lookups)
  <2> HIDE DEF S, Is
  <2>1. Lookups \in S
    BY <1>3, <1>4, AtTheEnd
  <2> QED
    BY <2>1 DEF S
<1>6. walk(t, Root \o m, follow) = Result(h[Lookups])
  BY RootFirst, WalkResult DEF h, w
<1>7. CASE h[Lookups] = spot(Nowhere, <<>>) \/ h[Lookups] = w
  <2>1. Result(h[Lookups]) = Nowhere
    BY <1>1, <1>7, ResultOf, RootFirst
  <2> QED
    BY <1>6, <2>1
<1>8. CASE Inside(h[Lookups])
  <2>1. PICK d \in Path, r \in Path :
          /\ h[Lookups] = spot(d, r) /\ under(Root, d)
          /\ m # <<>> /\ r = <<>> => d # Root
    BY <1>8
  <2>2. walk(t, Root \o m, follow) = IF r = <<>> THEN d ELSE Nowhere
    BY <1>6, <2>1, ResultOf
  <2> QED
    BY <2>1, <2>2
<1> QED
  BY <1>5, <1>7, <1>8
-----------------------------------------------------------------------------
(* What the calls make of a good tree *)

\* A tree, wherever its links lead.
Rooted(t) == t \in Trees /\ Closed(t)

Good(t) == Rooted(t) /\ SameOutside(t)

LEMMA InRoot == ASSUME NEW e \in Path, under(Root, e) PROVE e # <<>> /\ e # Nowhere
BY RootPath

LEMMA PutRooted ==
  ASSUME NEW t, Rooted(t), NEW e \in Path, e # <<>>, e # Nowhere, isDir(t, Front(e)), ~isDir(t, e),
         NEW node \in Node
  PROVE  /\ Rooted(put(t, e, node))
         /\ e \in DOMAIN put(t, e, node) /\ put(t, e, node)[e] = node
         /\ \A q : q \in DOMAIN put(t, e, node) => q = e \/ q \in DOMAIN t
         /\ \A q \in DOMAIN t : q # e => q \in DOMAIN put(t, e, node) /\ put(t, e, node)[q] = t[q]
<1> DEFINE u == put(t, e, node)
<1>1. /\ \A q : q \in DOMAIN u <=> q = e \/ q \in DOMAIN t
      /\ u[e] = node /\ \A q \in DOMAIN t : q # e => u[q] = t[q]
      /\ u = [q \in DOMAIN u |-> u[q]]
  BY DEF put
<1> HIDE DEF u
<1>2. /\ DOMAIN t \subseteq Path \ {<<>>, Nowhere} /\ \A p \in DOMAIN t : t[p] \in Node
  BY TreeNodes DEF Rooted
<1>3. Front(e) # e
  BY Parent
<1>4. u \in Trees
  BY <1>1, <1>2, TreeNodes
<1>5. Closed(u)
  <2>1. isDir(u, Front(e))
    BY <1>1, <1>3 DEF isDir
  <2>2. ASSUME NEW q \in DOMAIN t PROVE isDir(u, Front(q))
    <3>1. isDir(t, Front(q))
      BY DEF Rooted, Closed
    <3> QED
      BY <1>1, <3>1 DEF isDir
  <2> QED
    BY <1>1, <2>1, <2>2 DEF Closed
<1> QED
  BY <1>1, <1>4, <1>5 DEF Rooted, u

LEMMA PutGood ==
  ASSUME NEW t, Good(t), NEW e \in Path, under(Root, e), isDir(t, Front(e)), ~isDir(t, e),
         NEW node \in Node
  PROVE  /\ Good(put(t, e, node))
         /\ e \in DOMAIN put(t, e, node) /\ put(t, e, node)[e] = node
         /\ \A q : q \in DOMAIN put(t, e, node) => q = e \/ q \in DOMAIN t
         /\ \A q \in DOMAIN t : q # e => q \in DOMAIN put(t, e, node) /\ put(t, e, node)[q] = t[q]
<1> DEFINE u == put(t, e, node)
<1>1. /\ Rooted(u) /\ e \in DOMAIN u /\ u[e] = node
      /\ \A q : q \in DOMAIN u => q = e \/ q \in DOMAIN t
      /\ \A q \in DOMAIN t : q # e => q \in DOMAIN u /\ u[q] = t[q]
  BY InRoot, PutRooted DEF Good
<1> HIDE DEF u
<1>2. e \notin DOMAIN Outside
  BY OutsideAssumption
<1>3. SameOutside(u)
  BY <1>1, <1>2 DEF Good, SameOutside
<1> QED
  BY <1>1, <1>3 DEF Good, u

LEMMA DropRooted ==
  ASSUME NEW t, Rooted(t), NEW e \in Path
  PROVE  Rooted(drop(t, e))
<1> DEFINE u == drop(t, e)
<1>1. /\ u \in Trees
      /\ \A q : q \in DOMAIN u <=> q \in DOMAIN t /\ ~under(e, q)
      /\ \A q \in DOMAIN u : u[q] = t[q]
  BY DropTree DEF Rooted
<1>2. \A q \in DOMAIN t : q \in Path /\ q # <<>>
  BY TreeNodes DEF Rooted
<1> HIDE DEF u
<1>3. ASSUME NEW q \in DOMAIN u PROVE isDir(u, Front(q))
  <2>1. q \in Path /\ q # <<>> /\ isDir(t, Front(q)) /\ ~under(e, q)
    BY <1>1, <1>2 DEF Rooted, Closed
  <2>2. Front(q) \in Path /\ under(Front(q), q)
    BY <2>1, Parent, UnderParent
  <2>3. ~under(e, Front(q))
    BY <2>1, <2>2, UnderTransitive
  <2> QED
    BY <1>1, <2>1, <2>3 DEF isDir
<1> QED
  BY <1>1, <1>3 DEF Rooted, Closed, u

LEMMA DropGood ==
  ASSUME NEW t, Good(t), NEW e \in Path, under(Root, e)
  PROVE  Good(drop(t, e))
<1> DEFINE u == drop(t, e)
<1>1. t \in Trees /\ SameOutside(t) /\ Rooted(u)
  BY DropRooted DEF Good, Rooted
<1>2. /\ \A q : q \in DOMAIN u <=> q \in DOMAIN t /\ ~under(e, q)
      /\ \A q \in DOMAIN u : u[q] = t[q]
  BY <1>1, DropTree
<1> HIDE DEF u
<1>3. ASSUME NEW p \in DOMAIN Outside PROVE p \in DOMAIN t /\ ~under(e, p)
  <2>1. p \in DOMAIN t /\ p \in Path /\ ~under(Root, p)
    BY <1>1, TreeNodes, OutsideAssumption DEF SameOutside
  <2> QED
    BY <2>1, UnderTransitive, RootPath
<1>4. SameOutside(u)
  BY <1>1, <1>2, <1>3 DEF SameOutside
<1> QED
  BY <1>1, <1>4 DEF Good, u

\* What is below p, and its name from there.
LEMMA Joined ==
  ASSUME NEW p \in Path
  PROVE  /\ \A r \in Path : /\ p \o r \in Path /\ under(p, p \o r)
                            /\ SubSeq(p \o r, Len(p) + 1, Len(p \o r)) = r
         /\ \A q \in Path : under(p, q) =>
              /\ SubSeq(q, Len(p) + 1, Len(q)) \in Path
              /\ q = p \o SubSeq(q, Len(p) + 1, Len(q))
<1>1. Len(p) \in Nat
  BY LenProperties DEF Path
<1>2. ASSUME NEW r \in Path
      PROVE  /\ p \o r \in Path /\ under(p, p \o r)
             /\ SubSeq(p \o r, Len(p) + 1, Len(p \o r)) = r
  <2> DEFINE q == p \o r
             v == SubSeq(q, Len(p) + 1, Len(q))
  <2>1. /\ q \in Path /\ Len(r) \in Nat /\ Len(q) = Len(p) + Len(r)
        /\ \A i \in 1 .. Len(p) + Len(r) : q[i] = IF i <= Len(p) THEN p[i] ELSE r[i - Len(p)]
    BY ConcatProperties, LenProperties DEF Path
  <2> HIDE DEF q
  <2>2. under(p, q)
    BY <1>1, <2>1 DEF under
  <2>3. v \in Path /\ Len(v) = Len(r) /\ \A i \in 1..Len(r) : v[i] = q[i + Len(p)]
    <3>1. Len(p) + 1 \in 1 .. Len(q) + 1 /\ Len(q) \in Len(p) .. Len(q)
      BY <1>1, <2>1
    <3> QED
      BY <1>1, <2>1, <3>1 DEF Path
  <2> HIDE DEF v
  <2>4. ASSUME NEW i \in 1..Len(r) PROVE v[i] = r[i]
    <3>1. v[i] = q[i + Len(p)]
      BY <2>3
    <3>2. i + Len(p) \in 1 .. Len(p) + Len(r) /\ ~(i + Len(p) <= Len(p)) /\ (i + Len(p)) - Len(p) = i
      BY <1>1, <2>1
    <3>3. q[i + Len(p)] = r[(i + Len(p)) - Len(p)]
      BY <2>1, <3>2
    <3> QED
      BY <3>1, <3>2, <3>3
  <2>5. v = r
    BY <2>3, <2>4, SeqEqual DEF Path
  <2> QED
    BY <2>1, <2>2, <2>5 DEF v, q
<1>3. ASSUME NEW q \in Path, under(p, q)
      PROVE  /\ SubSeq(q, Len(p) + 1, Len(q)) \in Path
             /\ q = p \o SubSeq(q, Len(p) + 1, Len(q))
  <2> DEFINE v == SubSeq(q, Len(p) + 1, Len(q))
             z == p \o v
  <2>1. Len(q) \in Nat /\ Len(p) <= Len(q) /\ \A i \in 1..Len(p) : p[i] = q[i]
    BY <1>3, LenProperties DEF under, Path
  <2>2. v \in Path /\ Len(v) = Len(q) - Len(p) /\ \A i \in 1 .. Len(q) - Len(p) : v[i] = q[i + Len(p)]
    BY <1>1, <2>1 DEF Path
  <2> HIDE DEF v
  <2>3. /\ z \in Path /\ Len(z) = Len(p) + Len(v)
        /\ \A i \in 1 .. Len(p) + Len(v) : z[i] = IF i <= Len(p) THEN p[i] ELSE v[i - Len(p)]
    BY <2>2, ConcatProperties DEF Path
  <2> HIDE DEF z
  <2>4. Len(z) = Len(q) /\ \A i \in 1..Len(q) : z[i] = q[i]
    BY <1>1, <2>1, <2>2, <2>3
  <2>5. z = q
    BY <2>3, <2>4, SeqEqual DEF Path
  <2> QED
    BY <2>2, <2>5 DEF z, v
<1> QED
  BY <1>2, <1>3

\* What is renamed is found below the new name, the rest where it was.
LEMMA MovedIs ==
  ASSUME NEW t \in Trees, NEW s \in Path, NEW d \in Path
  PROVE  /\ \A q : q \in DOMAIN moved(t, s, d) <=>
              \/ q \in DOMAIN t /\ ~under(d, q) /\ ~under(s, q)
              \/ \E r \in Path : q = d \o r /\ s \o r \in DOMAIN t
         /\ \A q \in DOMAIN t : ~under(d, q) /\ ~under(s, q) => moved(t, s, d)[q] = t[q]
         /\ \A r \in Path : s \o r \in DOMAIN t => moved(t, s, d)[d \o r] = t[s \o r]
         /\ moved(t, s, d) = [q \in DOMAIN moved(t, s, d) |-> moved(t, s, d)[q]]
<1> DEFINE m == moved(t, s, d)
           rest == drop(drop(t, d), s)
           below(q) == SubSeq(q, Len(s) + 1, Len(q))
           new == {d \o below(q) : q \in {x \in DOMAIN t : under(s, x)}}
<1>1. /\ DOMAIN m = DOMAIN rest \cup new
      /\ \A q \in new : m[q] = t[s \o SubSeq(q, Len(d) + 1, Len(q))]
      /\ \A q \in DOMAIN rest : q \notin new => m[q] = rest[q]
      /\ m = [q \in DOMAIN m |-> m[q]]
  BY DEF moved
<1>2. /\ \A q : q \in DOMAIN rest <=> q \in DOMAIN t /\ ~under(d, q) /\ ~under(s, q)
      /\ \A q \in DOMAIN rest : rest[q] = t[q]
  BY DropTree
<1>3. \A q \in DOMAIN t : q \in Path
  BY TreeNodes
<1>4. \A q : q \in new <=> \E r \in Path : q = d \o r /\ s \o r \in DOMAIN t
  <2>1. ASSUME NEW q \in DOMAIN t, under(s, q)
        PROVE  \E r \in Path : d \o below(q) = d \o r /\ s \o r \in DOMAIN t
    <3>1. below(q) \in Path /\ q = s \o below(q)
      BY <1>3, <2>1, Joined
    <3> HIDE DEF below
    <3> QED
      BY <2>1, <3>1
  <2>2. ASSUME NEW r \in Path, s \o r \in DOMAIN t PROVE d \o r \in new
    <3>1. under(s, s \o r) /\ below(s \o r) = r
      BY <2>2, Joined
    <3> HIDE DEF below
    <3> QED
      BY <2>2, <3>1
  <2> HIDE DEF below
  <2> QED
    BY <2>1, <2>2
<1> HIDE DEF m, rest, new
<1>5. ASSUME NEW r \in Path, s \o r \in DOMAIN t PROVE m[d \o r] = t[s \o r]
  <2>1. d \o r \in new
    BY <1>4, <1>5
  <2>2. SubSeq(d \o r, Len(d) + 1, Len(d \o r)) = r
    BY Joined
  <2> QED
    BY <1>1, <2>1, <2>2
<1>6. ASSUME NEW q \in DOMAIN t, ~under(d, q), ~under(s, q) PROVE m[q] = t[q]
  <2>a. \A r \in Path : under(d, d \o r)
    BY Joined
  <2>1. q \notin new
    BY <1>4, <1>6, <2>a
  <2> QED
    BY <1>1, <1>2, <1>6, <2>1
<1> QED
  BY <1>1, <1>2, <1>4, <1>5, <1>6 DEF m

LEMMA FrontConcat ==
  ASSUME NEW p \in Path, NEW r \in Path, r # <<>>
  PROVE  Front(r) \in Path /\ Front(p \o r) = p \o Front(r)
<1> DEFINE f == Front(r)
           x == r[Len(r)]
<1>1. f \in Path /\ x \in Names /\ r = Append(f, x)
  BY Parent
<1> HIDE DEF f, x
<1>2. r = f \o <<x>> /\ <<x>> \in Path
  BY <1>1, OneName, AppendIsConcat DEF Path
<1>a. \A v \in Path : p \o f \in Path /\ p \o (f \o v) = (p \o f) \o v
  BY <1>1, ConcatThree
<1>3. p \o f \in Path /\ p \o r = (p \o f) \o <<x>>
  BY <1>2, <1>a
<1>4. p \o r = Append(p \o f, x)
  BY <1>1, <1>3, AppendIsConcat DEF Path
<1>5. Front(p \o r) = p \o f
  BY <1>1, <1>3, <1>4, Child
<1> QED
  BY <1>1, <1>5 DEF f

LEMMA MovedGood ==
  ASSUME NEW t, Good(t), NEW s \in DOMAIN t, NEW d \in Path, under(Root, s), under(Root, d),
         isDir(t, Front(d)), ~under(s, d)
  PROVE  Good(moved(t, s, d))
<1> DEFINE m == moved(t, s, d)
<1>1. t \in Trees /\ Closed(t) /\ SameOutside(t)
  BY DEF Good, Rooted
<1>2. /\ DOMAIN t \subseteq Path \ {<<>>, Nowhere} /\ \A p \in DOMAIN t : t[p] \in Node
      /\ \A p \in DOMAIN t : isDir(t, Front(p))
  BY <1>1, TreeNodes DEF Closed
<1>3. s \in Path /\ s # <<>> /\ d # <<>>
  BY <1>2, InRoot
<1>4. /\ \A q : q \in DOMAIN m <=> \/ q \in DOMAIN t /\ ~under(d, q) /\ ~under(s, q)
                                   \/ \E r \in Path : q = d \o r /\ s \o r \in DOMAIN t
      /\ \A q \in DOMAIN t : ~under(d, q) /\ ~under(s, q) => m[q] = t[q]
      /\ \A r \in Path : s \o r \in DOMAIN t => m[d \o r] = t[s \o r]
      /\ m = [q \in DOMAIN m |-> m[q]]
  BY <1>1, <1>3, MovedIs
<1> HIDE DEF m
<1>5. m \in Trees
  <2>1. ASSUME NEW q \in DOMAIN m PROVE q \in Path \ {<<>>, Nowhere} /\ m[q] \in Node
    <3>1. CASE q \in DOMAIN t /\ ~under(d, q) /\ ~under(s, q)
      BY <1>2, <1>4, <3>1
    <3>2. CASE \E r \in Path : q = d \o r /\ s \o r \in DOMAIN t
      <4>1. PICK r \in Path : q = d \o r /\ s \o r \in DOMAIN t
        BY <3>2
      <4>2. q \in Path /\ under(d, q)
        BY <4>1, Joined
      <4>3. under(Root, q)
        BY <4>2, UnderTransitive, RootPath
      <4> QED
        BY <1>2, <1>4, <4>1, <4>2, <4>3, InRoot
    <3> QED
      BY <1>4, <3>1, <3>2
  <2> QED
    BY <1>4, <2>1, TreeNodes
<1>6. ASSUME NEW q \in Path, isDir(t, q), ~under(d, q), ~under(s, q) PROVE isDir(m, q)
  BY <1>4, <1>6 DEF isDir
<1>7. ASSUME NEW q \in DOMAIN m PROVE isDir(m, Front(q))
  <2>1. CASE q \in DOMAIN t /\ ~under(d, q) /\ ~under(s, q)
    <3>1. q \in Path /\ q # <<>> /\ isDir(t, Front(q))
      BY <1>2, <2>1
    <3>2. Front(q) \in Path /\ under(Front(q), q)
      BY <3>1, Parent, UnderParent
    <3>3. ~under(d, Front(q)) /\ ~under(s, Front(q))
      BY <1>3, <2>1, <3>1, <3>2, UnderTransitive
    <3> QED
      BY <1>6, <3>1, <3>2, <3>3
  <2>2. CASE \E r \in Path : q = d \o r /\ s \o r \in DOMAIN t
    <3>1. PICK r \in Path : q = d \o r /\ s \o r \in DOMAIN t
      BY <2>2
    <3>2. CASE r = <<>>
      <4>1. q = d
        BY <3>1, <3>2, ConcatEmptySeq DEF Path
      <4>2. Front(d) \in Path /\ under(Front(d), d) /\ Front(d) # d
        BY <1>3, Parent, UnderParent
      <4>3. ~under(s, Front(d))
        BY <1>3, <4>2, UnderTransitive
      <4>4. ~under(d, Front(d))
        <5>1. Len(Front(d)) = Len(d) - 1 /\ Len(d) \in Nat
          BY <1>3, Parent
        <5> QED
          BY <5>1 DEF under
      <4> QED
        BY <1>6, <4>1, <4>2, <4>3, <4>4
    <3>3. CASE r # <<>>
      <4> DEFINE f == Front(r)
      <4>1. f \in Path /\ Front(q) = d \o f /\ Front(s \o r) = s \o f
        BY <1>3, <3>1, <3>3, FrontConcat
      <4> HIDE DEF f
      <4>2. isDir(t, s \o f)
        BY <1>2, <3>1, <4>1
      <4>3. s \o f # <<>>
        BY <1>3, <4>1, HeadOfConcat
      <4>4. s \o f \in DOMAIN t /\ t[s \o f].kind = "dir"
        BY <4>2, <4>3 DEF isDir
      <4>5. d \o f \in DOMAIN m /\ m[d \o f] = t[s \o f]
        BY <1>4, <4>1, <4>4
      <4> QED
        BY <4>1, <4>4, <4>5 DEF isDir
    <3> QED
      BY <3>2, <3>3
  <2> QED
    BY <1>4, <2>1, <2>2
<1>8. SameOutside(m)
  <2>1. ASSUME NEW p \in DOMAIN Outside PROVE p \in DOMAIN m /\ m[p] = Outside[p]
    <3>1. p \in DOMAIN t /\ t[p] = Outside[p] /\ p \in Path /\ ~under(Root, p)
      BY <1>1, <1>2, OutsideAssumption DEF SameOutside
    <3>2. ~under(d, p) /\ ~under(s, p)
      BY <1>3, <3>1, UnderTransitive, RootPath
    <3> QED
      BY <1>4, <3>1, <3>2
  <2>2. ASSUME NEW q \in DOMAIN m PROVE under(Root, q) \/ q \in DOMAIN Outside
    <3>1. CASE q \in DOMAIN t
      BY <1>1, <3>1 DEF SameOutside
    <3>2. CASE \E r \in Path : q = d \o r
      <4>1. q \in Path /\ under(d, q)
        BY <3>2, Joined
      <4> QED
        BY <4>1, UnderTransitive, RootPath
    <3> QED
      BY <1>4, <3>1, <3>2
  <2> QED
    BY <2>1, <2>2 DEF SameOutside
<1> QED
  BY <1>5, <1>7, <1>8 DEF Good, Rooted, Closed, m
-----------------------------------------------------------------------------
(* Requests *)

\* A request holds no ".." once it is clean.
LEMMA CleanIs ==
  ASSUME NEW request \in Path
  PROVE  clean(request) \in Path /\ NoDots(clean(request))
<1> DEFINE N == Len(request)
           X == {r \in Path : NoDots(r)}
           Next1(before, n) == IF request[n] # ".." THEN Append(before, request[n])
                               ELSE IF before = <<>> THEN before ELSE Front(before)
           step == [z \in X \X (1..N) |-> Next1(z[1], z[2])]
           Is(g) == g = [n \in 0..N |-> IF n = 0 THEN <<>> ELSE Next1(g[n - 1], n)]
<1>1. N \in Nat /\ <<>> \in X
  BY LenProperties, RootPath, CleanNames DEF Path
<1>2. ASSUME NEW before \in X, NEW n \in 1..N PROVE Next1(before, n) \in X
  <2>1. before \in Path /\ NoDots(before) /\ request[n] \in Names /\ Len(before) \in Nat
    BY LenProperties DEF Path
  <2>2. ASSUME request[n] # ".." PROVE Append(before, request[n]) \in X
    <3> DEFINE x == request[n]
               a == Append(before, x)
    <3>1. /\ a \in Path /\ Len(a) = Len(before) + 1
          /\ \A i \in 1 .. Len(before) : a[i] = before[i]
          /\ a[Len(before) + 1] = x
      BY <2>1, Child
    <3>2. x # ".."
      BY <2>2
    <3> HIDE DEF a, x
    <3>3. \A i \in 1 .. Len(before) + 1 : a[i] # ".."
      BY <2>1, <3>1, <3>2 DEF NoDots
    <3>4. a \in X
      BY <3>1, <3>3 DEF NoDots
    <3> QED
      BY <3>4 DEF a, x
  <2>3. ASSUME before # <<>> PROVE Front(before) \in X
    <3>1. /\ Front(before) \in Path /\ Len(Front(before)) = Len(before) - 1
          /\ \A i \in 1 .. Len(before) - 1 : Front(before)[i] = before[i]
      BY <2>1, <2>3, Parent
    <3> QED
      BY <2>1, <3>1 DEF NoDots
  <2> QED
    BY <2>2, <2>3
<1> HIDE DEF Next1, X
<1>3. step \in [X \X (1..N) -> X]
  BY <1>2
<1>4. ASSUME NEW v \in X, NEW n \in 1..N PROVE step[<<v, n>>] = Next1(v, n)
  OBVIOUS
<1> HIDE DEF step, N
<1>5. PICK g \in [0..N -> X] : Computes(g, N, <<>>, step)
  BY <1>1, <1>3, Recursion
<1>6. ASSUME NEW n \in 1..N PROVE g[n] = Next1(g[n - 1], n)
  <2>1. n - 1 \in 0..N /\ n \in 0..N
    BY <1>1
  <2> QED
    BY <1>4, <1>5, <2>1 DEF Computes
<1>7. Is(g)
  <2>1. ASSUME NEW n \in 0..N PROVE g[n] = IF n = 0 THEN <<>> ELSE Next1(g[n - 1], n)
    BY <1>1, <1>5, <1>6 DEF Computes
  <2> QED
    BY <1>5, <2>1
<1> DEFINE h == CHOOSE f : Is(f)
<1>8. Is(h)
  BY <1>7
<1>9. clean(request) = h[N]
  BY DEF clean, N, Next1
<1> HIDE DEF h
<1>10. \A n \in 0..N : h[n] \in X
  <2> DEFINE S == {n \in 0..N : h[n] \in X}
  <2>1. 0 \in S
    BY <1>1, <1>8
  <2>2. ASSUME NEW n \in 1..N, n - 1 \in S PROVE n \in S
    <3>1. n \in 0..N /\ n # 0 /\ h[n - 1] \in X
      BY <1>1, <2>2
    <3>2. h[n] = Next1(h[n - 1], n)
      BY <1>8, <3>1
    <3> QED
      BY <1>2, <3>1, <3>2
  <2> HIDE DEF S
  <2>3. \A n \in 0..N : n \in S
    BY <1>1, <2>1, <2>2, UpTo
  <2> QED
    BY <2>3 DEF S
<1>11. h[N] \in X
  BY <1>1, <1>10
<1> QED
  BY <1>9, <1>11 DEF X

LEMMA FullIs ==
  ASSUME NEW request \in Path
  PROVE  full(request) \in Path /\ NoDots(full(request)) /\ full(request) = Root \o clean(request)
<1>1. clean(request) \in Path /\ NoDots(clean(request))
  BY CleanIs
<1>2. Root \in Path /\ NoDots(Root)
  BY RootPath DEF NoDots, Root
<1> QED
  BY <1>1, <1>2, NoDotsConcat, RootFirst DEF full

\* The first n names of a path.
Upto(p, n) == SubSeq(p, 1, n)

LEMMA UptoIs ==
  ASSUME NEW p \in Path
  PROVE  /\ Len(p) \in Nat /\ Upto(p, 0) = <<>> /\ Upto(p, Len(p)) = p
         /\ \A n \in 0..Len(p) : Upto(p, n) \in Path /\ Len(Upto(p, n)) = n /\ under(Upto(p, n), p)
                                 /\ \A i \in 1..n : Upto(p, n)[i] = p[i]
<1>1. Len(p) \in Nat
  BY LenProperties DEF Path
<1>2. ASSUME NEW n \in 0..Len(p)
      PROVE  Upto(p, n) \in Path /\ Len(Upto(p, n)) = n /\ \A i \in 1..n : Upto(p, n)[i] = p[i]
  BY <1>1 DEF Upto, Path
<1>3. \A n \in 0..Len(p) : under(Upto(p, n), p)
  BY <1>1, <1>2 DEF under
<1>4. Upto(p, 0) = <<>>
  BY <1>1, <1>2, EmptySeq DEF Path
<1>5. Upto(p, Len(p)) = p
  <2>1. Len(p) \in 0..Len(p)
    BY <1>1
  <2> DEFINE q == Upto(p, Len(p))
  <2>2. q \in Path /\ Len(q) = Len(p) /\ \A i \in 1..Len(p) : q[i] = p[i]
    BY <1>2, <2>1
  <2> HIDE DEF q
  <2>3. q = p
    BY <2>2, SeqEqual DEF Path
  <2> QED
    BY <2>3 DEF q
<1> QED
  BY <1>1, <1>2, <1>3, <1>4, <1>5

LEMMA UptoNext ==
  ASSUME NEW p \in Path, NEW n \in 0 .. Len(p) - 1
  PROVE  Upto(p, n + 1) = Append(Upto(p, n), p[n + 1]) /\ p[n + 1] \in Names
<1>1. Len(p) \in Nat /\ n \in 0..Len(p) /\ n + 1 \in 0..Len(p) /\ n + 1 \in 1..Len(p)
  BY LenProperties DEF Path
<1>2. p[n + 1] \in Names
  BY <1>1 DEF Path
<1> DEFINE q == Upto(p, n)
           x == p[n + 1]
           a == Append(q, x)
           b == Upto(p, n + 1)
<1>3. q \in Path /\ Len(q) = n /\ \A i \in 1..n : q[i] = p[i]
  BY <1>1, UptoIs
<1>4. b \in Path /\ Len(b) = n + 1 /\ \A i \in 1 .. n + 1 : b[i] = p[i]
  BY <1>1, UptoIs
<1> HIDE DEF q, b
<1>5. /\ a \in Path /\ Len(a) = n + 1 /\ a[n + 1] = x
      /\ \A i \in 1..n : a[i] = q[i]
  <2>1. x \in Names
    BY <1>2
  <2> HIDE DEF x
  <2> QED
    BY <1>3, <2>1, Child
<1> HIDE DEF a
<1>6. \A i \in 1 .. n + 1 : a[i] = b[i]
  BY <1>1, <1>3, <1>4, <1>5
<1>7. a = b
  BY <1>4, <1>5, <1>6, SeqEqual DEF Path
<1> QED
  BY <1>2, <1>7 DEF a, b, q

\* What follows the first n names.
LEMMA UptoRest ==
  ASSUME NEW p \in Path, NEW n \in 0..Len(p), NEW m \in n..Len(p)
  PROVE  \E r \in Path : /\ Upto(p, m) = Upto(p, n) \o r
                         /\ m > n => r # <<>>
<1>1. Len(p) \in Nat /\ m \in 0..Len(p) /\ m \in Nat /\ n \in Nat /\ n <= m
  BY LenProperties DEF Path
<1> DEFINE q == Upto(p, n)
           z == Upto(p, m)
<1>2. /\ q \in Path /\ Len(q) = n /\ \A i \in 1..n : q[i] = p[i]
      /\ z \in Path /\ Len(z) = m /\ \A i \in 1..m : z[i] = p[i]
  BY <1>1, UptoIs
<1> HIDE DEF q, z
<1>3. under(q, z)
  BY <1>1, <1>2 DEF under
<1>4. PICK r \in Path : z = q \o r
  BY <1>2, <1>3, Joined
<1>5. m > n => r # <<>>
  <2>1. r = <<>> => z = q
    BY <1>2, <1>4, ConcatEmptySeq DEF Path
  <2> QED
    BY <1>1, <1>2, <2>1
<1> QED
  BY <1>4, <1>5 DEF q, z

\* A request is safe when what is there of it leads into the data directory.
SafeAt(t, p, k) ==
  /\ place(t, Upto(p, k)) \in DOMAIN t /\ under(Root, place(t, Upto(p, k)))
  /\ k < Len(p) => ~there(t, entry(t, Upto(p, k + 1)))

Safe(t, p) == \E k \in 0..Len(p) : SafeAt(t, p, k)

LEMMA Largest ==
  ASSUME NEW N \in Nat, NEW L \in SUBSET (0..N), L # {}
  PROVE  \E k \in L : \A j \in L : j <= k
<1> DEFINE S == {n \in 0..N : (\E j \in L : j <= n) => \E k \in L : \A j \in L : j <= n => j <= k}
<1>1. 0 \in S
  <2>1. \A j \in L : j <= 0 => j = 0
    OBVIOUS
  <2> QED
    BY <2>1
<1>2. ASSUME NEW n \in 1..N, n - 1 \in S PROVE n \in S
  <2>1. CASE n \in L
    BY <2>1
  <2>2. CASE n \notin L
    <3>1. \A j \in L : j <= n <=> j <= n - 1
      BY <2>2
    <3> QED
      BY <1>2, <3>1
  <2> QED
    BY <2>1, <2>2
<1> HIDE DEF S
<1>3. N \in S
  BY <1>1, <1>2, UpTo
<1>4. (\E j \in L : j <= N) => \E k \in L : \A j \in L : j <= N => j <= k
  BY <1>3 DEF S
<1>5. \A j \in L : j <= N
  OBVIOUS
<1> QED
  BY <1>4, <1>5

\* There is a nearest parent, and nothing of the path below it.
LEMMA NearestIs ==
  ASSUME tree \in Trees, NEW p \in Path
  PROVE  \E k \in 0..Len(p) : /\ nearest(p) = Upto(p, k)
                              /\ k < Len(p) => ~there(tree, entry(tree, Upto(p, k + 1)))
<1> DEFINE L == {k \in 0..Len(p) : exists(Upto(p, k))}
           Q == {q \in prefixes(p) : exists(q)}
           Longest(q) == \A r \in Q : Len(r) <= Len(q)
<1>1. Len(p) \in Nat
  BY UptoIs
<1>2. 0 \in L
  <2>1. Left(Outset(<<>>)) = <<>> /\ At(Outset(<<>>)) = <<>> /\ Outset(<<>>) \in Spots /\ <<>> \in Path
    BY OutsetIn, RootPath
  <2>2. trace(tree, Outset(<<>>), Staying)[0] = Outset(<<>>)
    BY <2>1, TraceOf
  <2>3. trace(tree, Outset(<<>>), Staying)[Lookups] = Outset(<<>>)
    <3>1. Lookups \in Nat /\ 0 \in 0..Lookups /\ Lookups \in 0..Lookups
      BY PathsAssumption
    <3>2. \A n \in 0..Lookups : trace(tree, Outset(<<>>), Staying)[n] = trace(tree, Outset(<<>>), Staying)[0]
      BY <2>1, <2>2, <3>1, Stays
    <3> QED
      BY <2>2, <3>1, <3>2
  <2>4. walk(tree, <<>>, Staying) = <<>>
    BY <2>1, <2>3, WalkIs
  <2>5. exists(<<>>)
    BY <2>4, PlaceIs DEF exists, there
  <2>6. Upto(p, 0) = <<>>
    BY UptoIs
  <2>7. exists(Upto(p, 0)) /\ 0 \in 0..Len(p)
    BY <1>1, <2>5, <2>6 DEF exists
  <2> QED
    BY <2>7
<1>3. \A q : q \in Q <=> \E k \in L : q = Upto(p, k)
  BY DEF prefixes, Upto
<1> HIDE DEF L, Q
<1>4. L \in SUBSET (0..Len(p))
  BY DEF L
<1>5. PICK k \in L : \A j \in L : j <= k
  <2>1. L # {}
    BY <1>2
  <2> HIDE DEF L
  <2> QED
    BY <1>1, <1>4, <2>1, Largest
<1>6. \A j \in L : Len(Upto(p, j)) = j
  BY <1>4, UptoIs
<1>7. Upto(p, k) \in Q /\ Longest(Upto(p, k))
  BY <1>3, <1>5, <1>6
<1>8. nearest(p) = CHOOSE q \in Q : Longest(q)
  BY DEF nearest, longest, Q
<1>9. nearest(p) \in Q /\ Longest(nearest(p))
  <2> HIDE DEF Longest
  <2> QED
    BY <1>7, <1>8
<1>10. PICK j \in L : nearest(p) = Upto(p, j)
  BY <1>3, <1>9
<1>11. j = k
  <2>1. k <= j
    BY <1>5, <1>6, <1>7, <1>9, <1>10
  <2> QED
    BY <1>4, <1>5, <2>1
<1>12. k \in 0..Len(p) /\ (k < Len(p) => k + 1 \in 0..Len(p) /\ k + 1 \notin L)
  BY <1>1, <1>4, <1>5
<1>13. k < Len(p) => ~there(tree, entry(tree, Upto(p, k + 1)))
  BY <1>12 DEF L, exists
<1> QED
  BY <1>10, <1>11, <1>12, <1>13

LEMMA ResolvesExisting ==
  ASSUME tree \in Trees, NEW request \in Path, resolves(request, FALSE)
  PROVE  /\ SafeAt(tree, full(request), Len(full(request))) /\ Safe(tree, full(request))
         /\ place(tree, full(request)) \in DOMAIN tree /\ under(Root, place(tree, full(request)))
<1> DEFINE p == full(request)
<1>1. p \in Path
  BY FullIs
<1>2. place(tree, p) \in DOMAIN tree /\ under(Root, place(tree, p))
  BY DEF resolves
<1> HIDE DEF p
<1>3. Len(p) \in Nat /\ Upto(p, Len(p)) = p
  BY <1>1, UptoIs
<1>4. SafeAt(tree, p, Len(p))
  BY <1>2, <1>3 DEF SafeAt
<1> QED
  BY <1>2, <1>3, <1>4 DEF Safe, p

LEMMA ResolvesMissing ==
  ASSUME tree \in Trees, NEW request \in Path, resolves(request, TRUE)
  PROVE  Safe(tree, full(request))
<1> DEFINE p == full(request)
<1>1. p \in Path
  BY FullIs
<1>2. place(tree, nearest(p)) \in DOMAIN tree /\ under(Root, place(tree, nearest(p)))
  BY DEF resolves
<1> HIDE DEF p
<1>3. PICK k \in 0..Len(p) : /\ nearest(p) = Upto(p, k)
                             /\ k < Len(p) => ~there(tree, entry(tree, Upto(p, k + 1)))
  BY <1>1, NearestIs
<1>4. SafeAt(tree, p, k)
  BY <1>2, <1>3 DEF SafeAt
<1> QED
  BY <1>4 DEF Safe, p

Within(d) == d = Nowhere \/ under(Root, d)

\* What a safe request leads to is in the data directory.
LEMMA SafeEntry ==
  ASSUME NEW t, Good(t), NEW p \in Path, NoDots(p), Safe(t, p)
  PROVE  /\ Within(place(t, p)) /\ Within(entry(t, p))
         /\ place(t, p) \in Path /\ entry(t, p) \in Path
<1>1. t \in Trees /\ SameOutside(t)
  BY DEF Good, Rooted
<1>2. place(t, p) \in Path /\ entry(t, p) \in Path
  BY <1>1, WalkResult, PlaceIs
<1>3. PICK k \in 0..Len(p) : SafeAt(t, p, k)
  BY DEF Safe
<1>4. CASE k = Len(p)
  <2>1. under(Root, place(t, p))
    BY <1>3, <1>4, UptoIs DEF SafeAt
  <2>2. under(Root, entry(t, p))
    BY <1>1, <2>1, EntryWithin
  <2> QED
    BY <1>2, <2>1, <2>2 DEF Within
<1>5. CASE k # Len(p)
  <2>1. Len(p) \in Nat /\ k \in 0 .. Len(p) - 1 /\ k < Len(p) /\ k + 1 \in 1..Len(p)
        /\ k + 1 \in 0..Len(p) /\ Len(p) \in k + 1 .. Len(p)
    BY <1>3, <1>5, UptoIs
  <2> DEFINE q == Upto(p, k)
             x == p[k + 1]
             c == Append(q, x)
  <2>2. Upto(p, k + 1) = c /\ x \in Names /\ x # ".."
    BY <2>1, UptoNext DEF NoDots
  <2>3. q \in Path /\ place(t, q) \in DOMAIN t /\ under(Root, place(t, q))
        /\ ~there(t, entry(t, Upto(p, k + 1)))
    BY <1>3, <2>1, UptoIs DEF SafeAt
  <2>4. PICK r \in Path : Upto(p, Len(p)) = Upto(p, k + 1) \o r
    BY <2>1, UptoRest
  <2>5. Upto(p, Len(p)) = p
    BY UptoIs
  <2> HIDE DEF q, x
  <2>6. p = c \o r
    BY <2>2, <2>4, <2>5
  <2>7. ~there(t, entry(t, c))
    BY <2>2, <2>3
  <2>8. place(t, q) \in Path
    BY <1>1, <2>3, WalkResult, PlaceIs
  <2>9. Within(entry(t, c))
    <3>1. \/ entry(t, c) = Nowhere
          \/ entry(t, c) = Append(place(t, q), x)
      BY <1>1, <2>2, <2>3, LastName
    <3>2. under(Root, Append(place(t, q), x))
      BY <2>2, <2>3, <2>8, UnderChild, RootPath
    <3> QED
      BY <3>1, <3>2 DEF Within
  <2>10. ASSUME NEW follow PROVE Within(walk(t, c \o r, follow))
    <3>1. walk(t, c \o r, follow) = Nowhere \/ walk(t, c \o r, follow) = entry(t, c)
      BY <1>1, <2>2, <2>3, <2>7, Beyond
    <3> QED
      BY <2>9, <3>1 DEF Within
  <2>11. Within(place(t, c \o r)) /\ Within(entry(t, c \o r))
    BY <2>10, PlaceIs
  <2> QED
    BY <1>2, <2>6, <2>11
<1> QED
  BY <1>4, <1>5
-----------------------------------------------------------------------------
(* The calls *)

LEMMA WalkHeld ==
  ASSUME NEW t, Good(t), NEW p \in Path, NEW follow, Within(walk(t, p, follow))
  PROVE  /\ walk(t, p, follow) \in Path
         /\ walk(t, p, follow) # Nowhere =>
              /\ under(Root, walk(t, p, follow)) /\ walk(t, p, follow) # <<>>
              /\ isDir(t, Front(walk(t, p, follow)))
<1> DEFINE e == walk(t, p, follow)
<1>1. e \in Path /\ Held(t, e)
  BY WalkResult, ParentIsThere DEF Good, Rooted
<1> HIDE DEF e
<1>2. e # Nowhere => under(Root, e) /\ e # <<>>
  BY <1>1, InRoot DEF Within, e
<1>3. e # Nowhere => isDir(t, Front(e))
  BY <1>1, <1>2 DEF Held
<1> QED
  BY <1>1, <1>2, <1>3 DEF e

LEMMA CreateGood ==
  ASSUME NEW t, Good(t), NEW p \in Path, Within(place(t, p))
  PROVE  Good(create(t, p))
<1> DEFINE e == place(t, p)
<1>1. e \in Path /\ (e # Nowhere => under(Root, e) /\ isDir(t, Front(e)))
  BY WalkHeld, PlaceIs
<1>2. create(t, p) = IF e = Nowhere \/ isDir(t, e) THEN t ELSE put(t, e, File)
  BY DEF create
<1> HIDE DEF e
<1>3. ASSUME e # Nowhere, ~isDir(t, e) PROVE Good(put(t, e, File))
  BY <1>1, <1>3, PutGood, DirIsNode
<1> QED
  BY <1>2, <1>3

LEMMA MakeGood ==
  ASSUME NEW t, Good(t), NEW p \in Path, Within(entry(t, p)), NEW node \in Node
  PROVE  /\ Good(make(t, entry(t, p), node)) /\ Grows(t, make(t, entry(t, p), node))
<1> DEFINE e == entry(t, p)
           u == make(t, e, node)
<1>1. e \in Path /\ (e # Nowhere => under(Root, e) /\ isDir(t, Front(e)))
  BY WalkHeld, PlaceIs
<1>2. u = IF e = Nowhere \/ there(t, e) THEN t ELSE put(t, e, node)
  BY DEF make
<1> HIDE DEF e
<1>3. ASSUME e # Nowhere, ~there(t, e)
      PROVE  Good(put(t, e, node)) /\ Grows(t, put(t, e, node))
  <2>1. ~isDir(t, e) /\ e \notin DOMAIN t
    BY <1>3 DEF isDir, there
  <2> QED
    BY <1>1, <1>3, <2>1, PutGood DEF Grows
<1>4. Grows(t, t)
  BY DEF Grows
<1> HIDE DEF u
<1>5. Good(u) /\ Grows(t, u)
  BY <1>2, <1>3, <1>4
<1> QED
  BY <1>5 DEF u, e

LEMMA RemoveGood ==
  ASSUME NEW t, Good(t), NEW p \in Path, Within(entry(t, p))
  PROVE  Good(removeAll(t, p)) /\ Good(remove(t, p))
<1> DEFINE e == entry(t, p)
<1>1. e \in Path /\ (e # Nowhere => under(Root, e))
  BY WalkHeld, PlaceIs
<1>2. removeAll(t, p) = IF e \in DOMAIN t THEN drop(t, e) ELSE t
  BY DEF removeAll
<1>3. remove(t, p) = removeAll(t, p) \/ remove(t, p) = t
  BY DEF remove
<1> HIDE DEF e
<1>4. ASSUME e \in DOMAIN t PROVE Good(drop(t, e))
  <2>1. e # Nowhere
    BY <1>4, TreeNodes DEF Good, Rooted
  <2> QED
    BY <1>1, <2>1, DropGood
<1>5. Good(removeAll(t, p))
  BY <1>2, <1>4
<1> QED
  BY <1>3, <1>5

LEMMA RenameGood ==
  ASSUME NEW t, Good(t), NEW p \in Path, NEW q \in Path,
         Within(entry(t, p)), Within(entry(t, q))
  PROVE  Good(rename(t, p, q))
<1> DEFINE s == entry(t, p)
           d == entry(t, q)
<1>1. s \in Path /\ (s # Nowhere => under(Root, s))
  BY WalkHeld, PlaceIs
<1>2. d \in Path /\ (d # Nowhere => under(Root, d) /\ isDir(t, Front(d)))
  BY WalkHeld, PlaceIs
<1>3. \/ rename(t, p, q) = t
      \/ /\ rename(t, p, q) = moved(t, s, d)
         /\ s \in DOMAIN t /\ d # Nowhere /\ ~under(s, d)
  BY DEF rename
<1> HIDE DEF s, d
<1>4. ASSUME s \in DOMAIN t, d # Nowhere, ~under(s, d) PROVE Good(moved(t, s, d))
  <2>1. s # Nowhere
    BY <1>4, TreeNodes DEF Good, Rooted
  <2> QED
    BY <1>1, <1>2, <1>4, <2>1, MovedGood
<1> QED
  BY <1>3, <1>4

\* What mkdir keeps is kept by mkdirAll.
LEMMA MkdirAllKeeps ==
  ASSUME NEW t, NEW p \in Path, NEW X, t \in X,
         \A u \in X : \A n \in 1..Len(p) : mkdir(u, Upto(p, n)) \in X
  PROVE  mkdirAll(t, p) \in X
<1> DEFINE N == Len(p)
           Made(u, n) == IF n = 0 \/ isDir(t, place(t, Upto(p, n))) THEN t ELSE mkdir(u, Upto(p, n))
           step == [z \in X \X (1..N) |-> Made(z[1], z[2])]
           Is(g) == g = [n \in 0..N |-> IF n = 0 \/ isDir(t, place(t, Upto(p, n))) THEN t
                                        ELSE mkdir(g[n - 1], Upto(p, n))]
<1>1. N \in Nat
  BY LenProperties DEF Path
<1>2. ASSUME NEW u \in X, NEW n \in 1..N PROVE Made(u, n) \in X
  OBVIOUS
<1>3. Is(CHOOSE f : Is(f)) => mkdirAll(t, p) = (CHOOSE f : Is(f))[N]
  BY DEF mkdirAll, Upto
<1>a. ASSUME NEW g, NEW n \in 1..N
      PROVE  Made(g[n - 1], n) = IF n = 0 \/ isDir(t, place(t, Upto(p, n))) THEN t
                                 ELSE mkdir(g[n - 1], Upto(p, n))
  OBVIOUS
<1>b. Made(t, 0) = t
  OBVIOUS
<1> HIDE DEF Made
<1>4. step \in [X \X (1..N) -> X]
  BY <1>2
<1>5. ASSUME NEW u \in X, NEW n \in 1..N PROVE step[<<u, n>>] = Made(u, n)
  OBVIOUS
<1> HIDE DEF step, N
<1>6. PICK g \in [0..N -> X] : Computes(g, N, t, step)
  BY <1>1, <1>4, Recursion
<1>7. ASSUME NEW n \in 1..N PROVE g[n] = Made(g[n - 1], n)
  <2>1. n - 1 \in 0..N /\ n \in 0..N
    BY <1>1
  <2> QED
    BY <1>5, <1>6, <2>1 DEF Computes
<1>8. Is(g)
  <2>1. ASSUME NEW n \in 0..N
        PROVE  g[n] = IF n = 0 \/ isDir(t, place(t, Upto(p, n))) THEN t
                      ELSE mkdir(g[n - 1], Upto(p, n))
    <3>1. CASE n = 0
      BY <1>6, <3>1 DEF Computes
    <3>2. CASE n # 0
      <4>1. n \in 1..N
        BY <1>1, <3>2
      <4> QED
        BY <1>7, <1>a, <4>1
    <3> QED
      BY <3>1, <3>2
  <2> QED
    BY <1>6, <2>1
<1> DEFINE h == CHOOSE f : Is(f)
<1>9. Is(h)
  BY <1>8
<1>10. mkdirAll(t, p) = h[N]
  BY <1>3, <1>9
<1> HIDE DEF h
<1>11. \A n \in 0..N : h[n] \in X
  <2> DEFINE S == {n \in 0..N : h[n] \in X}
  <2>1. 0 \in S
    BY <1>1, <1>9
  <2>2. ASSUME NEW n \in 1..N, n - 1 \in S PROVE n \in S
    <3>1. n \in 0..N /\ h[n - 1] \in X
      BY <1>1, <2>2
    <3>2. h[n] = IF n = 0 \/ isDir(t, place(t, Upto(p, n))) THEN t
                 ELSE mkdir(h[n - 1], Upto(p, n))
      BY <1>9, <3>1
    <3>3. h[n] = Made(h[n - 1], n)
      BY <3>2, <1>a
    <3> QED
      BY <1>2, <3>1, <3>3
  <2> HIDE DEF S
  <2>3. \A n \in 0..N : n \in S
    BY <1>1, <2>1, <2>2, UpTo
  <2> QED
    BY <2>3 DEF S
<1> QED
  BY <1>1, <1>10, <1>11

LEMMA UptoUpto ==
  ASSUME NEW p \in Path, NEW m \in 0..Len(p), NEW n \in 0..m
  PROVE  Len(Upto(p, m)) = m /\ Upto(p, m) \in Path /\ Upto(Upto(p, m), n) = Upto(p, n)
<1>1. Len(p) \in Nat /\ n \in 0..Len(p)
  BY UptoIs
<1> DEFINE q == Upto(p, m)
           a == Upto(q, n)
           b == Upto(p, n)
<1>2. q \in Path /\ Len(q) = m /\ \A i \in 1..m : q[i] = p[i]
  BY UptoIs
<1>3. b \in Path /\ Len(b) = n /\ \A i \in 1..n : b[i] = p[i]
  BY <1>1, UptoIs
<1> HIDE DEF q, b
<1>4. a \in Path /\ Len(a) = n /\ \A i \in 1..n : a[i] = q[i]
  BY <1>2, UptoIs
<1> HIDE DEF a
<1>5. a = b
  BY <1>1, <1>2, <1>3, <1>4, SeqEqual DEF Path
<1> QED
  BY <1>2, <1>5 DEF a, b, q

\* The walk of q \o s is at the place of q after m names, and goes on from there.
Passes(t, q, s, follow, m) ==
  /\ EndsAt(t, q, m)
  /\ walk(t, q \o s, follow) = Result(trace(t, spot(place(t, q), s), follow)[Lookups - m])

LEMMA BelowPasses ==
  ASSUME NEW t \in Trees, NEW q \in Path, isDir(t, place(t, q)), NEW s \in Path, s # <<>>, NEW follow
  PROVE  \E m \in 0..Lookups : Passes(t, q, s, follow, m)
<1>1. PICK m \in 0..Lookups :
        /\ EndsAt(t, q, m)
        /\ walk(t, q \o s, follow) = Result(trace(t, spot(place(t, q), s), follow)[Lookups - m])
  BY Below
<1> QED
  BY <1>1 DEF Passes

\* What is made below what is there.
LEMMA PlaceOfNew ==
  ASSUME NEW t \in Trees, NEW u \in Trees, Grows(t, u), NEW q \in Path, NEW x \in Names, x # "..",
         isDir(t, place(t, q)), entry(t, Append(q, x)) # Nowhere,
         Append(place(t, q), x) \in DOMAIN u, u[Append(place(t, q), x)].kind = "dir"
  PROVE  place(u, Append(q, x)) = Append(place(t, q), x)
<1> DEFINE real == place(t, q)
           s == <<x>>
<1>1. real \in Path
  BY WalkResult, PlaceIs
<1>2. s \in Path /\ s # <<>> /\ Append(q, x) = q \o s /\ s = <<x>> \o <<>> /\ <<>> \in Path
  BY OneName, RootPath, AppendConcat, AppendIsConcat DEF Path
<1> HIDE DEF s
<1>3. there(t, real)
  BY DEF isDir, there
<1>4. /\ \A n \in 0..Lookups : trace(u, Outset(q), Following)[n] = trace(t, Outset(q), Following)[n]
      /\ place(u, q) = real
  BY <1>3, StillLeads, PlaceIs
<1>5. isDir(u, real)
  BY DEF isDir, Grows
<1>6. PICK m \in 0..Lookups : Passes(t, q, s, Staying, m)
  BY <1>2, BelowPasses
<1>b. /\ EndsAt(t, q, m)
      /\ walk(t, q \o s, Staying) = Result(trace(t, spot(real, s), Staying)[Lookups - m])
  BY <1>6 DEF Passes
<1>c. isDir(u, place(u, q))
  BY <1>4, <1>5
<1>7. PICK n \in 0..Lookups : Passes(u, q, s, Following, n)
  BY <1>2, <1>c, BelowPasses
<1>d. /\ EndsAt(u, q, n)
      /\ walk(u, q \o s, Following) = Result(trace(u, spot(real, s), Following)[Lookups - n])
  BY <1>4, <1>7 DEF Passes
<1> HIDE DEF real
<1>8. Lookups \in Nat /\ m \in Nat /\ n \in Nat
  BY PathsAssumption
<1>9. m = n
  <2>1. EndsAt(u, q, m)
    <3>1. m \in 0..Lookups /\ \A j \in 0 .. m - 1 : j \in 0..Lookups
      BY <1>8
    <3> QED
      BY <1>4, <1>b, <3>1 DEF EndsAt
  <2> QED
    BY <1>d, <1>8, <2>1, EndsOnce
<1>10. m # Lookups
  <2>1. SUFFICES ASSUME m = Lookups PROVE FALSE
    OBVIOUS
  <2>2. Lookups - m = 0 /\ spot(real, s) \in Spots
    BY <1>1, <1>2, <1>8, <2>1, SpotParts
  <2>3. trace(t, spot(real, s), Staying)[0] = spot(real, s)
    BY <2>2, TraceOf
  <2>a. Result(spot(real, s)) = Nowhere
    BY <1>2, ResultOf
  <2>4. Result(trace(t, spot(real, s), Staying)[Lookups - m]) = Nowhere
    BY <2>2, <2>3, <2>a
  <2>5. entry(t, Append(q, x)) = walk(t, q \o s, Staying)
    BY <1>2, PlaceIs
  <2> QED
    BY <1>b, <2>4, <2>5
<1>11. Lookups - n \in 1..Lookups
  BY <1>8, <1>9, <1>10
<1>12. ~Leads(u[Append(real, x)], Following, <<>>)
  BY DEF Leads, real
<1>13. Result(trace(u, spot(real, s), Following)[Lookups - n]) = Append(real, x)
  BY <1>1, <1>5, <1>11, <1>12, IntoName DEF s
<1>14. place(u, Append(q, x)) = walk(u, q \o s, Following)
  BY <1>2, PlaceIs
<1> QED
  BY <1>d, <1>13, <1>14 DEF real

\* A directory that is made on the way of a safe request leaves it safe.
LEMMA MakeSafe ==
  ASSUME NEW t, Good(t), NEW p \in Path, NoDots(p), Safe(t, p), NEW n \in 1..Len(p)
  PROVE  /\ Good(mkdir(t, Upto(p, n))) /\ Grows(t, mkdir(t, Upto(p, n)))
         /\ Safe(mkdir(t, Upto(p, n)), p)
<1> DEFINE e == entry(t, Upto(p, n))
           u == mkdir(t, Upto(p, n))
<1>1. t \in Trees /\ Closed(t)
  BY DEF Good, Rooted
<1>2. Len(p) \in Nat /\ n \in 0..Len(p) /\ n - 1 \in 0 .. Len(p) - 1 /\ (n - 1) + 1 = n
  BY UptoIs
<1>3. u = IF e = Nowhere \/ there(t, e) THEN t ELSE put(t, e, Dir)
  BY DEF mkdir, make
<1>4. e \in Path
  BY <1>1, <1>2, UptoIs, WalkResult, PlaceIs
<1>5. CASE e = Nowhere \/ there(t, e)
  BY <1>3, <1>5 DEF Grows
<1>6. CASE ~(e = Nowhere \/ there(t, e))
  <2>1. PICK k \in 0..Len(p) : SafeAt(t, p, k)
    BY DEF Safe
  <2> DEFINE q == Upto(p, k)
             real == place(t, q)
  <2>2. /\ real \in DOMAIN t /\ under(Root, real)
        /\ k < Len(p) => ~there(t, entry(t, Upto(p, k + 1)))
    BY <2>1 DEF SafeAt
  <2>3. real \in Path /\ real # <<>> /\ real # Nowhere
    BY <1>1, <2>2, TreeNodes
  <2>a. /\ q \in Path /\ Upto(p, n) \in Path
        /\ \E z \in Path, y \in Names : Upto(p, n) = Append(z, y) /\ y # ".."
    <3>1. Upto(p, n) = Append(Upto(p, n - 1), p[n]) /\ p[n] \in Names /\ p[n] # ".."
      BY <1>2, UptoNext DEF NoDots
    <3>2. n - 1 \in 0..Len(p)
      BY <1>2
    <3> QED
      BY <1>2, <3>1, <3>2, UptoIs
  <2>4. n > k
    <3>1. SUFFICES ASSUME n <= k PROVE FALSE
      BY <1>2
    <3>2. k \in n..Len(p)
      BY <1>2, <3>1
    <3>3. PICK r \in Path : q = Upto(p, n) \o r
      BY <1>2, <3>2, UptoRest
    <3>4. PICK z \in Path, y \in Names : Upto(p, n) = Append(z, y) /\ y # ".."
      BY <2>a
    <3>5. \/ walk(t, Append(z, y) \o r, Following) = Nowhere
          \/ walk(t, Append(z, y) \o r, Following) = entry(t, Append(z, y))
      BY <1>1, <1>6, <3>4, Beyond
    <3>6. real = walk(t, Append(z, y) \o r, Following)
      BY <3>3, <3>4, PlaceIs
    <3> QED
      BY <1>6, <2>2, <2>3, <3>4, <3>5, <3>6 DEF there
  <2>5. k \in 0 .. Len(p) - 1 /\ k < Len(p) /\ k + 1 \in 0..Len(p) /\ k + 1 \in 1..Len(p)
    BY <1>2, <2>4
  <2> DEFINE x == p[k + 1]
             c == Append(q, x)
  <2>6. Upto(p, k + 1) = c /\ x \in Names /\ x # ".."
    BY <2>5, UptoNext DEF NoDots
  <2>7. n = k + 1
    <3>1. SUFFICES ASSUME n # k + 1 PROVE FALSE
      OBVIOUS
    <3>2. n \in k + 1 .. Len(p) /\ n > k + 1
      BY <1>2, <2>4, <2>5, <3>1
    <3>3. PICK r \in Path : Upto(p, n) = Upto(p, k + 1) \o r /\ r # <<>>
      BY <2>5, <3>2, UptoRest
    <3> HIDE DEF q, x, real
    <3>4. ~there(t, entry(t, c))
      BY <2>2, <2>5, <2>6
    <3>5. walk(t, c \o r, Staying) = Nowhere
      BY <1>1, <2>a, <2>6, <3>3, <3>4, Beyond
    <3>6. e = walk(t, c \o r, Staying)
      BY <2>6, <3>3, PlaceIs
    <3> QED
      BY <1>6, <3>5, <3>6
  <2> HIDE DEF q, x
  <2>8. entry(t, c) = e /\ e = Append(real, x) /\ isDir(t, real)
    BY <1>1, <1>6, <2>a, <2>6, <2>7, LastName
  <2>9. under(Root, e) /\ Front(e) = real /\ e \notin DOMAIN t /\ ~isDir(t, e) /\ e # <<>>
    <3>1. under(Root, Append(real, x)) /\ Front(Append(real, x)) = real
      BY <2>2, <2>3, <2>6, UnderChild, Child, RootPath
    <3> QED
      BY <1>6, <2>8, <3>1 DEF there, isDir
  <2> HIDE DEF real, e
  <2>10. u = put(t, e, Dir)
    BY <1>3, <1>6
  <2> HIDE DEF u
  <2>b. isDir(t, Front(e)) /\ Dir \in Node
    BY <2>8, <2>9, DirIsNode
  <2>11. /\ Good(u) /\ e \in DOMAIN u /\ u[e] = Dir
         /\ \A z : z \in DOMAIN u => z = e \/ z \in DOMAIN t
         /\ \A z \in DOMAIN t : z # e => z \in DOMAIN u /\ u[z] = t[z]
    <3> DEFINE a == put(t, e, Dir)
    <3>1. /\ Good(a) /\ e \in DOMAIN a /\ a[e] = Dir
          /\ \A z : z \in DOMAIN a => z = e \/ z \in DOMAIN t
          /\ \A z \in DOMAIN t : z # e => z \in DOMAIN a /\ a[z] = t[z]
      BY <1>4, <2>9, <2>b, PutGood
    <3> HIDE DEF a
    <3> QED
      BY <2>10, <3>1 DEF a
  <2>12. Grows(t, u)
    BY <2>9, <2>11 DEF Grows
  <2>13. place(u, c) = e
    <3>1. u \in Trees /\ u[e].kind = "dir"
      BY <2>11, DirIsNode DEF Good, Rooted
    <3>2. place(u, Append(q, x)) = Append(place(t, q), x)
      BY <1>1, <1>6, <2>6, <2>8, <2>11, <2>12, <2>a, <3>1, PlaceOfNew DEF real
    <3> QED
      BY <2>8, <3>2 DEF real
  <2>14. k + 1 < Len(p) => ~there(u, entry(u, Upto(p, (k + 1) + 1)))
    <3>1. SUFFICES ASSUME k + 1 < Len(p), there(u, entry(u, Upto(p, (k + 1) + 1))) PROVE FALSE
      OBVIOUS
    <3> DEFINE y == p[(k + 1) + 1]
               z == entry(u, Append(c, y))
    <3>2. Upto(p, (k + 1) + 1) = Append(c, y) /\ y \in Names /\ y # ".."
      <4>1. k + 1 \in 0 .. Len(p) - 1 /\ (k + 1) + 1 \in 1..Len(p)
        BY <1>2, <2>5, <3>1
      <4> QED
        BY <2>6, <4>1, UptoNext DEF NoDots
    <3> HIDE DEF y
    <3>3. c \in Path /\ u \in Trees
      BY <2>5, <2>6, <2>11, UptoIs DEF Good, Rooted
    <3>4. z = Nowhere \/ z = Append(e, y)
      BY <2>13, <3>2, <3>3, LastName
    <3>5. there(u, z)
      BY <3>1, <3>2
    <3>6. Nowhere \notin DOMAIN u /\ Nowhere # <<>>
      BY <3>3, TreeNodes, RootPath
    <3>7. Append(e, y) # <<>> /\ Append(e, y) # e /\ Front(Append(e, y)) = e
      BY <1>4, <3>2, Child, UnderChild
    <3>8. Append(e, y) \notin DOMAIN t
      BY <1>1, <2>9, <3>7 DEF Closed
    <3> QED
      BY <2>11, <3>4, <3>5, <3>6, <3>7, <3>8 DEF there
  <2>15. SafeAt(u, p, k + 1)
    BY <2>6, <2>9, <2>11, <2>13, <2>14 DEF SafeAt
  <2> QED
    BY <2>5, <2>11, <2>12, <2>15 DEF Safe, u
<1> QED
  BY <1>5, <1>6

LEMMA GrowsTwice == \A t, u, v : Grows(t, u) /\ Grows(u, v) => Grows(t, v)
BY DEF Grows

LEMMA MkdirAllSafe ==
  ASSUME NEW t, Good(t), NEW p \in Path, NoDots(p), Safe(t, p), NEW m \in 0..Len(p)
  PROVE  /\ Good(mkdirAll(t, Upto(p, m))) /\ Grows(t, mkdirAll(t, Upto(p, m)))
         /\ Safe(mkdirAll(t, Upto(p, m)), p)
<1> DEFINE X == {u \in Trees : Good(u) /\ Grows(t, u) /\ Safe(u, p)}
           q == Upto(p, m)
<1>1. Len(p) \in Nat /\ q \in Path /\ Len(q) = m
  BY UptoIs
<1>2. t \in X
  BY DEF Grows, Good, Rooted
<1>3. ASSUME NEW u \in X, NEW n \in 1..Len(q) PROVE mkdir(u, Upto(q, n)) \in X
  <2>1. n \in 1..Len(p) /\ n \in 0..m
    BY <1>1
  <2>2. Upto(q, n) = Upto(p, n)
    BY <2>1, UptoUpto
  <2> HIDE DEF q
  <2> DEFINE v == mkdir(u, Upto(p, n))
  <2>3. Good(v) /\ Grows(u, v) /\ Safe(v, p)
    BY <2>1, MakeSafe
  <2> HIDE DEF v
  <2>4. v \in X
    BY <2>3, GrowsTwice DEF Good, Rooted
  <2> QED
    BY <2>2, <2>4 DEF v
<1> HIDE DEF X, q
<1>4. mkdirAll(t, q) \in X
  BY <1>1, <1>2, <1>3, MkdirAllKeeps
<1> QED
  BY <1>4 DEF X, q

\* The parent of a request.
LEMMA FrontUpto ==
  ASSUME NEW p \in Path, p # <<>>
  PROVE  Len(p) - 1 \in 0..Len(p) /\ Front(p) = Upto(p, Len(p) - 1)
BY Parent DEF Front, Upto

\* Paths in the data directory that hold no "..".
DataPath(p) == p \in Path /\ under(Root, p) /\ NoDots(p)

LEMMA DataPaths ==
  /\ \A request \in Path : DataPath(full(request))
  /\ \A p : DataPath(p) => p # <<>> /\ \A n \in 1..Len(p) : DataPath(Upto(p, n))
  /\ \A p, name : DataPath(p) /\ name \in Path /\ NoDots(name) => DataPath(p \o name)
  /\ \A p : DataPath(p) /\ p # Root => DataPath(Front(p))
  /\ DataPath(Root)
<1>1. ASSUME NEW request \in Path PROVE DataPath(full(request))
  <2>1. clean(request) \in Path /\ Root \in Path
    BY CleanIs, RootPath
  <2>2. full(request) \in Path /\ NoDots(full(request)) /\ full(request) = Root \o clean(request)
    BY FullIs
  <2>3. under(Root, Root \o clean(request))
    BY <2>1, Joined
  <2> QED
    BY <2>2, <2>3 DEF DataPath
<1>2. ASSUME NEW p, DataPath(p) PROVE p # <<>> /\ p \in Path /\ Len(p) \in Nat
  BY <1>2, InRoot, LenProperties DEF DataPath, Path
<1>3. ASSUME NEW p, DataPath(p), NEW n \in 1..Len(p) PROVE DataPath(Upto(p, n))
  <2>1. p \in Path /\ under(Root, p) /\ NoDots(p) /\ Len(p) \in Nat /\ n \in 0..Len(p)
    BY <1>2, <1>3 DEF DataPath
  <2> DEFINE q == Upto(p, n)
  <2>2. q \in Path /\ Len(q) = n /\ under(q, p) /\ \A i \in 1..n : q[i] = p[i]
    BY <2>1, UptoIs
  <2> HIDE DEF q
  <2>3. NoDots(q)
    BY <2>1, <2>2 DEF NoDots
  <2>4. under(Root, q)
    <3>1. under(Root, q) \/ under(q, Root)
      BY <2>1, <2>2, UnderBoth, RootPath
    <3>2. q # <<>>
      BY <2>1, <2>2, EmptySeq
    <3> QED
      BY <2>2, <3>1, <3>2, RootPath
  <2> QED
    BY <2>2, <2>3, <2>4 DEF DataPath, q
<1>4. ASSUME NEW p, NEW name, DataPath(p), name \in Path, NoDots(name) PROVE DataPath(p \o name)
  <2>1. p \in Path /\ under(Root, p) /\ NoDots(p)
    BY <1>4 DEF DataPath
  <2>2. p \o name \in Path /\ under(p, p \o name)
    BY <1>4, <2>1, Joined
  <2>3. NoDots(p \o name)
    BY <1>4, <2>1, NoDotsConcat
  <2>4. under(Root, p \o name)
    BY <2>1, <2>2, UnderTransitive, RootPath
  <2> QED
    BY <2>2, <2>3, <2>4 DEF DataPath
<1>5. ASSUME NEW p, DataPath(p), p # Root PROVE DataPath(Front(p))
  <2>1. p \in Path /\ p # <<>> /\ Len(p) \in Nat
    BY <1>2, <1>5
  <2>2. Front(p) = Upto(p, Len(p) - 1) /\ Len(p) - 1 \in 0..Len(p)
    BY <2>1, FrontUpto
  <2>3. under(Root, Front(p))
    BY <1>5, <2>1, UnderParent, RootPath DEF DataPath
  <2>4. Len(p) - 1 # 0
    <3>1. Len(p) - 1 = 0 => Front(p) = <<>>
      BY <2>1, <2>2, UptoIs
    <3> QED
      BY <2>3, <3>1, RootPath
  <2> DEFINE N == Len(p)
  <2>a. N \in Nat /\ N - 1 \in 0..N /\ N - 1 # 0
    BY <2>1, <2>2, <2>4
  <2> HIDE DEF N
  <2>b. N - 1 \in 1..N
    BY <2>a
  <2>5. Len(p) - 1 \in 1..Len(p)
    BY <2>b DEF N
  <2> QED
    BY <1>3, <1>5, <2>2, <2>5
<1>6. DataPath(Root)
  <2>1. NoDots(Root)
    BY DEF NoDots, Root
  <2> QED
    BY <2>1, RootPath, UnderItself DEF DataPath
<1> QED
  BY <1>1, <1>2, <1>3, <1>4, <1>5, <1>6

PlainGood(t) == Good(t) /\ PlainTree(t)

LEMMA PlainWithin ==
  ASSUME NEW t, PlainGood(t), NEW p, DataPath(p), NEW follow
  PROVE  /\ Within(walk(t, p, follow)) /\ walk(t, p, follow) \in Path
         /\ p # Root => walk(t, p, follow) # Root
<1>1. t \in Trees /\ PlainTree(t) /\ p \in Path /\ under(Root, p) /\ NoDots(p)
  BY DEF PlainGood, Good, Rooted, DataPath
<1>2. walk(t, p, follow) \in Path
  BY <1>1, WalkResult
<1>3. PICK m \in Path : p = Root \o m
  BY <1>1, Joined, RootPath
<1>4. NoDots(m)
  BY <1>1, <1>3, RootFirst, NoDotsHead
<1>5. m = <<>> => p = Root
  BY <1>3, RootPath, ConcatEmptySeq DEF Path
<1>6. \/ walk(t, p, follow) = Nowhere
      \/ /\ under(Root, walk(t, p, follow))
         /\ m # <<>> => walk(t, p, follow) # Root
  BY <1>1, <1>3, <1>4, PlainWalk
<1> QED
  BY <1>2, <1>5, <1>6, RootPath, UnderItself DEF Within

LEMMA PlainPut ==
  ASSUME NEW t, PlainGood(t), NEW e \in Path, under(Root, e), e # Root, isDir(t, Front(e)), ~isDir(t, e),
         NEW node \in Node, node.kind = "link" => plainLink(node)
  PROVE  PlainGood(put(t, e, node))
<1> DEFINE u == put(t, e, node)
<1>1. Good(t) /\ PlainTree(t)
  BY DEF PlainGood
<1>2. /\ Good(u) /\ e \in DOMAIN u /\ u[e] = node
      /\ \A q : q \in DOMAIN u => q = e \/ q \in DOMAIN t
      /\ \A q \in DOMAIN t : q # e => q \in DOMAIN u /\ u[q] = t[q]
  BY <1>1, PutGood
<1> HIDE DEF u
<1>3. isDir(u, Root)
  BY <1>1, <1>2, RootPath DEF isDir, PlainTree
<1>4. ASSUME NEW q \in DOMAIN u, under(Root, q), u[q].kind = "link" PROVE plainLink(u[q])
  <2>1. CASE q = e
    BY <1>2, <1>4, <2>1
  <2>2. CASE q # e
    <3>1. q \in DOMAIN t /\ u[q] = t[q]
      BY <1>2, <2>2
    <3> QED
      BY <1>1, <1>4, <3>1 DEF PlainTree
  <2> QED
    BY <2>1, <2>2
<1> QED
  BY <1>2, <1>3, <1>4 DEF PlainGood, PlainTree, u

LEMMA PlainCreate ==
  ASSUME NEW t, PlainGood(t), NEW p, DataPath(p)
  PROVE  PlainGood(create(t, p))
<1> DEFINE e == place(t, p)
<1>1. Good(t) /\ p \in Path /\ Within(walk(t, p, Following)) /\ e = walk(t, p, Following)
  BY PlainWithin, PlaceIs DEF PlainGood, DataPath
<1>2. e \in Path /\ (e # Nowhere => under(Root, e) /\ isDir(t, Front(e)))
  BY <1>1, WalkHeld
<1>3. create(t, p) = IF e = Nowhere \/ isDir(t, e) THEN t ELSE put(t, e, File)
  BY DEF create
<1> HIDE DEF e
<1>4. ASSUME e # Nowhere, ~isDir(t, e) PROVE PlainGood(put(t, e, File))
  <2>1. e # Root
    BY <1>4 DEF PlainGood, PlainTree
  <2>2. File \in Node /\ File.kind # "link"
    BY DirIsNode
  <2> QED
    BY <1>2, <1>4, <2>1, <2>2, PlainPut
<1> QED
  BY <1>3, <1>4

LEMMA PlainMake ==
  ASSUME NEW t, PlainGood(t), NEW p, DataPath(p), NEW node \in Node,
         node.kind = "link" => plainLink(node)
  PROVE  PlainGood(make(t, entry(t, p), node))
<1> DEFINE e == entry(t, p)
<1>1. Good(t) /\ p \in Path /\ Within(walk(t, p, Staying)) /\ e = walk(t, p, Staying)
  BY PlainWithin, PlaceIs DEF PlainGood, DataPath
<1>2. e \in Path /\ (e # Nowhere => under(Root, e) /\ isDir(t, Front(e)))
  BY <1>1, WalkHeld
<1>3. make(t, e, node) = IF e = Nowhere \/ there(t, e) THEN t ELSE put(t, e, node)
  BY DEF make
<1> HIDE DEF e
<1>4. ASSUME e # Nowhere, ~there(t, e) PROVE PlainGood(put(t, e, node))
  <2>1. e # Root /\ ~isDir(t, e)
    BY <1>4, RootPath DEF PlainGood, PlainTree, isDir, there
  <2> QED
    BY <1>2, <1>4, <2>1, PlainPut
<1>5. PlainGood(make(t, e, node))
  BY <1>3, <1>4
<1> QED
  BY <1>5 DEF e

LEMMA PlainMkdirAll ==
  ASSUME NEW t, PlainGood(t), NEW p, DataPath(p)
  PROVE  PlainGood(mkdirAll(t, p))
<1> DEFINE X == {u \in Trees : PlainGood(u)}
<1>1. t \in X /\ p \in Path
  BY DEF PlainGood, Good, Rooted, DataPath
<1>2. ASSUME NEW u \in X, NEW n \in 1..Len(p) PROVE mkdir(u, Upto(p, n)) \in X
  <2>1. DataPath(Upto(p, n)) /\ PlainGood(u)
    BY DataPaths
  <2>2. PlainGood(mkdir(u, Upto(p, n)))
    BY <2>1, PlainMake, DirIsNode DEF mkdir
  <2> QED
    BY <2>2 DEF PlainGood, Good, Rooted
<1> HIDE DEF X
<1>3. mkdirAll(t, p) \in X
  BY <1>1, <1>2, MkdirAllKeeps
<1> QED
  BY <1>3 DEF X

LEMMA PlainRemove ==
  ASSUME NEW t, PlainGood(t), NEW p, DataPath(p), p # Root
  PROVE  PlainGood(remove(t, p))
<1> DEFINE e == entry(t, p)
<1>1. /\ Good(t) /\ PlainTree(t) /\ p \in Path /\ Within(walk(t, p, Staying)) /\ e \in Path
      /\ e = walk(t, p, Staying) /\ e # Root
  BY PlainWithin, PlaceIs DEF PlainGood, DataPath
<1>2. remove(t, p) = t \/ (e \in DOMAIN t /\ remove(t, p) = drop(t, e))
  BY DEF remove, removeAll
<1> HIDE DEF e
<1>3. ASSUME e \in DOMAIN t PROVE PlainGood(drop(t, e))
  <2> DEFINE u == drop(t, e)
  <2>1. e # Nowhere /\ t \in Trees /\ e # <<>>
    BY <1>1, <1>3, TreeNodes DEF Good, Rooted
  <2>2. under(Root, e)
    BY <1>1, <2>1 DEF Within
  <2>3. /\ \A q : q \in DOMAIN u <=> q \in DOMAIN t /\ ~under(e, q)
        /\ \A q \in DOMAIN u : u[q] = t[q]
    BY <1>1, <2>1, DropTree
  <2>4. Good(u)
    BY <1>1, <2>2, DropGood
  <2>5. ~under(e, Root)
    BY <1>1, <2>1, RootPath
  <2> HIDE DEF u
  <2>6. PlainTree(u)
    BY <1>1, <2>3, <2>5, RootPath DEF PlainTree, isDir
  <2> QED
    BY <2>4, <2>6 DEF PlainGood, u
<1> QED
  BY <1>2, <1>3
-----------------------------------------------------------------------------
(* The invariant *)

\* No request has left Root.
Jailed == Good(tree) /\ strayed = {}

\* The file system is a tree, and no request has left Root before an unpacking did.
JailInv == Rooted(tree) /\ (astray \/ Jailed)

\* Requests that make good trees and look at Root only stray nowhere.
LEMMA Ended ==
  ASSUME Jailed, NEW t, Good(t), NEW seen, \A p \in seen : Within(p), ends(t, seen)
  PROVE  Jailed'
<1>1. tree' = t /\ strayed = {}
  BY DEF ends, Jailed
<1>2. strayed' = {}
  <2>1. SUFFICES ASSUME NEW p \in strayed' PROVE FALSE
    OBVIOUS
  <2>2. /\ p \in seen \cup DOMAIN t \cup DOMAIN tree
        /\ p # Nowhere /\ ~under(Root, p)
        /\ p \in seen \/ p \notin DOMAIN t \cap DOMAIN tree \/ t[p] # tree[p]
    BY <1>1, <2>1 DEF ends, outsideOf
  <2>3. p \notin seen
    BY <2>2 DEF Within
  <2>4. p \in DOMAIN Outside
    BY <2>2, <2>3 DEF Jailed, Good, SameOutside
  <2>5. p \in DOMAIN t /\ p \in DOMAIN tree /\ t[p] = tree[p]
    BY <2>4 DEF Jailed, Good, SameOutside
  <2> QED
    BY <2>2, <2>3, <2>5
<1> QED
  BY <1>1, <1>2 DEF Jailed

LEMMA Served ==
  ASSUME Jailed, NEW t, Good(t), NEW seen, \A p \in seen : Within(p), served(t, seen)
  PROVE  Jailed'
BY Ended DEF served

\* What is known of a request that resolves.
Asked(t, p) ==
  /\ p \in Path /\ p # <<>> /\ NoDots(p) /\ Safe(t, p)
  /\ Within(place(t, p)) /\ Within(entry(t, p))

LEMMA AskedIn ==
  ASSUME NEW t, Good(t), NEW p, DataPath(p), Safe(t, p)
  PROVE  Asked(t, p)
<1>1. p \in Path /\ NoDots(p) /\ p # <<>>
  BY InRoot DEF DataPath
<1> QED
  BY <1>1, SafeEntry DEF Asked

LEMMA SafeRequest ==
  ASSUME Jailed, NEW request \in Paths, NEW allowMissing \in BOOLEAN, resolves(request, allowMissing)
  PROVE  request \in Path /\ Asked(tree, full(request)) /\ DataPath(full(request))
<1>1. request \in Path /\ tree \in Trees /\ Good(tree)
  BY PathsAssumption DEF Jailed, Good, Rooted, Path
<1>2. Safe(tree, full(request))
  <2>1. CASE allowMissing = TRUE
    BY <1>1, <2>1, ResolvesMissing
  <2>2. CASE allowMissing = FALSE
    BY <1>1, <2>2, ResolvesExisting
  <2> QED
    BY <2>1, <2>2
<1>3. DataPath(full(request))
  BY <1>1, DataPaths
<1> QED
  BY <1>1, <1>2, <1>3, AskedIn

\* A request whose directories are made.
LEMMA ParentsMade ==
  ASSUME NEW t, Good(t), NEW p, DataPath(p), Asked(t, p)
  PROVE  /\ Good(mkdirAll(t, Front(p))) /\ Asked(mkdirAll(t, Front(p)), p)
         /\ Grows(t, mkdirAll(t, Front(p)))
         /\ Good(mkdirAll(t, p))
<1>1. p \in Path /\ p # <<>> /\ NoDots(p) /\ Safe(t, p)
  BY DEF Asked
<1>2. Len(p) - 1 \in 0..Len(p) /\ Front(p) = Upto(p, Len(p) - 1)
  BY <1>1, FrontUpto
<1>3. Len(p) \in 0..Len(p) /\ p = Upto(p, Len(p))
  BY <1>1, UptoIs
<1> DEFINE u == mkdirAll(t, Front(p))
<1>4. Good(u) /\ Grows(t, u) /\ Safe(u, p)
  BY <1>1, <1>2, MkdirAllSafe
<1>5. Good(mkdirAll(t, p))
  <2>1. Good(mkdirAll(t, Upto(p, Len(p))))
    BY <1>1, <1>3, MkdirAllSafe
  <2> QED
    BY <1>3, <2>1
<1> HIDE DEF u
<1>6. Asked(u, p)
  BY <1>4, AskedIn
<1> QED
  BY <1>4, <1>5, <1>6 DEF u

LEMMA ReadIn ==
  ASSUME Jailed, NEW request \in Paths,
         Read(request) \/ LookAt(request) \/ \E allowMissing \in BOOLEAN : Change(request, allowMissing)
  PROVE  Jailed'
<1>1. /\ \E allowMissing \in BOOLEAN : resolves(request, allowMissing)
      /\ \/ served(tree, {place(tree, full(request))})
         \/ served(tree, {entry(tree, full(request))})
  BY DEF Read, LookAt, Change
<1>2. Within(place(tree, full(request))) /\ Within(entry(tree, full(request)))
  BY <1>1, SafeRequest DEF Asked
<1>3. Good(tree)
  BY DEF Jailed
<1>4. CASE served(tree, {place(tree, full(request))})
  <2>1. \A p \in {place(tree, full(request))} : Within(p)
    BY <1>2
  <2> QED
    BY <1>3, <1>4, <2>1, Served
<1>5. CASE served(tree, {entry(tree, full(request))})
  <2>1. \A p \in {entry(tree, full(request))} : Within(p)
    BY <1>2
  <2> QED
    BY <1>3, <1>5, <2>1, Served
<1> QED
  BY <1>1, <1>4, <1>5

LEMMA FmZipIn ==
  ASSUME Jailed, NEW request \in Paths, FmZip(request)
  PROVE  Jailed'
<1> DEFINE e == entry(tree, full(request))
           seen == IF ~isDir(tree, e) THEN {}
                   ELSE {p \in DOMAIN tree : under(e, p) /\ tree[p].kind = "file"}
<1>1. resolves(request, FALSE) /\ served(tree, seen)
  BY DEF FmZip
<1>2. Asked(tree, full(request))
  BY <1>1, SafeRequest
<1>3. Good(tree) /\ tree \in Trees
  BY DEF Jailed, Good, Rooted
<1>4. e \in Path /\ Within(e)
  BY <1>2, <1>3, WalkResult, PlaceIs DEF Asked
<1> HIDE DEF e
<1>5. ASSUME NEW p \in seen PROVE Within(p)
  <2>1. isDir(tree, e) /\ p \in DOMAIN tree /\ under(e, p)
    BY <1>5
  <2>2. e # Nowhere /\ p \in Path
    BY <1>3, <2>1, TreeNodes, RootPath DEF isDir
  <2>3. under(Root, p)
    BY <1>4, <2>1, <2>2, UnderTransitive, RootPath DEF Within
  <2> QED
    BY <2>3 DEF Within
<1> HIDE DEF seen
<1> QED
  BY <1>1, <1>3, <1>5, Served

LEMMA WriteIn ==
  ASSUME Jailed, NEW request \in Paths, Filewrite(request) \/ FmWrite(request)
  PROVE  Jailed'
<1> DEFINE p == full(request)
           u == mkdirAll(tree, Front(p))
<1>1. resolves(request, TRUE)
  BY DEF Filewrite, FmWrite
<1>2. Asked(tree, p) /\ Good(tree) /\ DataPath(p)
  BY <1>1, SafeRequest DEF Jailed
<1>3. \/ served(create(tree, p), {place(tree, p)})
      \/ served(create(u, p), {place(u, p)})
  BY DEF Filewrite, FmWrite
<1> HIDE DEF p
<1>4. Good(u) /\ Asked(u, p)
  BY <1>2, ParentsMade
<1> HIDE DEF u
<1>5. ASSUME NEW t, Good(t), Asked(t, p), served(create(t, p), {place(t, p)}) PROVE Jailed'
  <2>1. Good(create(t, p))
    BY <1>5, CreateGood DEF Asked
  <2>2. \A q \in {place(t, p)} : Within(q)
    BY <1>5 DEF Asked
  <2> QED
    BY <1>5, <2>1, <2>2, Served
<1> QED
  BY <1>2, <1>3, <1>4, <1>5

LEMMA MkdirIn ==
  ASSUME Jailed, NEW request \in Paths, Mkdir(request) \/ FmMkdir(request)
  PROVE  Jailed'
<1> DEFINE p == full(request)
<1>1. resolves(request, TRUE)
  BY DEF Mkdir, FmMkdir
<1>2. Asked(tree, p) /\ Good(tree) /\ DataPath(p)
  BY <1>1, SafeRequest DEF Jailed
<1>3. served(mkdir(tree, p), {}) \/ served(mkdirAll(tree, p), {})
  BY DEF Mkdir, FmMkdir
<1> HIDE DEF p
<1>4. Good(mkdir(tree, p))
  BY <1>2, MakeGood, DirIsNode DEF mkdir, Asked
<1>5. Good(mkdirAll(tree, p))
  BY <1>2, ParentsMade
<1> QED
  BY <1>3, <1>4, <1>5, Served

LEMMA RemoveIn ==
  ASSUME Jailed, NEW request \in Paths, SftpRemove(request) \/ FmRm(request)
  PROVE  Jailed'
<1> DEFINE p == full(request)
<1>1. \E allowMissing \in BOOLEAN : resolves(request, allowMissing)
  BY DEF SftpRemove, FmRm
<1>2. Asked(tree, p) /\ Good(tree)
  BY <1>1, SafeRequest DEF Jailed
<1>3. served(remove(tree, p), {}) \/ served(removeAll(tree, p), {})
  BY DEF SftpRemove, FmRm
<1> HIDE DEF p
<1>4. Good(remove(tree, p)) /\ Good(removeAll(tree, p))
  BY <1>2, RemoveGood DEF Asked
<1> QED
  BY <1>3, <1>4, Served

LEMMA RenameIn ==
  ASSUME Jailed, NEW request \in Paths, NEW target \in Paths, Rename(request, target)
  PROVE  Jailed'
<1> DEFINE p == full(request)
           q == full(target)
<1>1. resolves(request, TRUE) /\ resolves(target, TRUE) /\ served(rename(tree, p, q), {})
  BY DEF Rename
<1>2. Asked(tree, p) /\ Asked(tree, q) /\ Good(tree)
  BY <1>1, SafeRequest DEF Jailed
<1> HIDE DEF p, q
<1>3. Good(rename(tree, p, q))
  BY <1>2, RenameGood DEF Asked
<1> QED
  BY <1>1, <1>3, Served

LEMMA MoveIn ==
  ASSUME Jailed, NEW src \in Paths, NEW dst \in Paths, FmMove(src, dst)
  PROVE  Jailed'
<1> DEFINE s == full(src)
           d == full(dst)
           t == mkdirAll(tree, Front(d))
<1>1. resolves(src, FALSE) /\ resolves(dst, TRUE) /\ served(rename(t, s, d), {})
  BY DEF FmMove
<1>2. /\ src \in Path /\ tree \in Trees /\ Good(tree)
      /\ Asked(tree, d) /\ DataPath(d) /\ s \in Path
  BY <1>1, SafeRequest DEF Jailed, Good, Rooted, DataPath
<1>3. place(tree, s) \in DOMAIN tree /\ under(Root, place(tree, s))
  BY <1>1, <1>2, ResolvesExisting
<1> HIDE DEF s, d
<1>4. Good(t) /\ Asked(t, d) /\ Grows(tree, t)
  BY <1>2, ParentsMade
<1> HIDE DEF t
<1>5. place(t, s) = place(tree, s)
  <2>1. there(tree, walk(tree, s, Following)) /\ t \in Trees
    BY <1>3, <1>4, PlaceIs DEF there, Good, Rooted
  <2>2. walk(t, s, Following) = walk(tree, s, Following)
    BY <1>2, <1>4, <2>1, StillLeads
  <2> QED
    BY <2>2, PlaceIs
<1>6. under(Root, entry(t, s))
  BY <1>2, <1>3, <1>4, <1>5, EntryWithin DEF Good, Rooted
<1>7. Good(rename(t, s, d))
  BY <1>2, <1>4, <1>6, RenameGood DEF Asked, Within
<1> QED
  BY <1>1, <1>7, Served

LEMMA LinkIn ==
  ASSUME NEW target \in Targets
  PROVE  Link(target) \in Node /\ (plainLink(target) => plainLink(Link(target)))
BY PathsAssumption DEF Link, Node, plainLink

LEMMA SymlinkIn ==
  ASSUME Jailed, NEW request \in Paths, NEW target \in Targets, Symlink(request, target)
  PROVE  Jailed'
<1> DEFINE p == full(request)
           e == entry(tree, p)
           t == remove(tree, p)
<1>1. resolves(request, TRUE) /\ served(symlink(t, p, target), {})
  BY DEF Symlink
<1>2. Asked(tree, p) /\ Good(tree) /\ tree \in Trees
  BY <1>1, SafeRequest DEF Jailed, Good, Rooted
<1> HIDE DEF p
<1>3. p \in Path /\ Within(e) /\ e = walk(tree, p, Staying)
  BY <1>2, PlaceIs DEF Asked
<1>4. Good(t)
  BY <1>2, <1>3, RemoveGood
<1>5. t = tree \/ (e \in DOMAIN tree /\ t = drop(tree, e))
  BY DEF remove, removeAll
<1>6. e \in Path
  BY <1>2, <1>3, WalkResult
<1> HIDE DEF e, t
<1>7. Within(entry(t, p))
  <2>1. CASE t = tree
    BY <1>3, <2>1, PlaceIs
  <2>2. CASE e \in DOMAIN tree /\ t = drop(tree, e)
    <3>1. e # <<>>
      BY <1>2, <2>2, TreeNodes
    <3>2. \/ walk(drop(tree, e), p, Staying) = walk(tree, p, Staying)
          \/ walk(drop(tree, e), p, Staying) \in {e, Nowhere}
      BY <1>2, <1>3, <1>6, <3>1, DropWalk
    <3>3. Within(walk(t, p, Staying))
      BY <1>3, <2>2, <3>2 DEF Within
    <3> QED
      BY <3>3, PlaceIs
  <2> QED
    BY <1>5, <2>1, <2>2
<1>8. Good(symlink(t, p, target))
  BY <1>3, <1>4, <1>7, MakeGood, LinkIn DEF symlink
<1> QED
  BY <1>1, <1>8, Served

\* An archive is unpacked in a data directory with plain links.
LEMMA PlainServed ==
  ASSUME Jailed, NEW t, PlainGood(t), NEW u, PlainGood(u), NEW p, DataPath(p),
         ends(t, {place(u, p)})
  PROVE  Jailed'
<1>1. Within(walk(u, p, Following))
  BY PlainWithin
<1>2. \A q \in {place(u, p)} : Within(q)
  BY <1>1, PlaceIs
<1> QED
  BY <1>2, Ended DEF PlainGood

LEMMA CleanPath ==
  ASSUME NEW name \in Paths, cleanName(name), NEW p, DataPath(p)
  PROVE  DataPath(p \o name) /\ p \o name # Root /\ DataPath(Front(p \o name))
<1>1. name \in Path /\ name # <<>> /\ NoDots(name) /\ p \in Path /\ under(Root, p)
  BY CleanNames, PathsAssumption DEF Path, DataPath
<1>2. DataPath(p \o name)
  BY <1>1, DataPaths
<1>3. p \o name # Root
  <2>1. /\ Len(p \o name) = Len(p) + Len(name) /\ Len(p) \in Nat
        /\ Len(name) \in Nat /\ Len(name) > 0 /\ Len(Root) = 1 /\ Len(Root) <= Len(p)
    BY <1>1, ConcatProperties, LenProperties, EmptySeq DEF Path, under, Root
  <2> QED
    BY <2>1
<1> QED
  BY <1>2, <1>3, DataPaths

\* The calls make a tree of a tree, wherever the links lead them.
LEMMA WalkRooted ==
  ASSUME NEW t, Rooted(t), NEW p \in Path, NEW follow
  PROVE  /\ walk(t, p, follow) \in Path
         /\ walk(t, p, follow) \notin {<<>>, Nowhere} => isDir(t, Front(walk(t, p, follow)))
BY WalkResult, ParentIsThere DEF Rooted, Held

LEMMA CreateRooted ==
  ASSUME NEW t, Rooted(t), NEW p \in Path
  PROVE  Rooted(create(t, p))
<1> DEFINE e == place(t, p)
<1>1. e \in Path /\ (e \notin {<<>>, Nowhere} => isDir(t, Front(e)))
  BY WalkRooted, PlaceIs
<1>2. create(t, p) = IF e = Nowhere \/ isDir(t, e) THEN t ELSE put(t, e, File)
  BY DEF create
<1> HIDE DEF e
<1>3. ASSUME e # Nowhere, ~isDir(t, e) PROVE Rooted(put(t, e, File))
  <2>1. e # <<>>
    BY <1>3 DEF isDir
  <2> QED
    BY <1>1, <1>3, <2>1, PutRooted, DirIsNode
<1> QED
  BY <1>2, <1>3

LEMMA MakeRooted ==
  ASSUME NEW t, Rooted(t), NEW p \in Path, NEW node \in Node
  PROVE  Rooted(make(t, entry(t, p), node))
<1> DEFINE e == entry(t, p)
<1>1. e \in Path /\ (e \notin {<<>>, Nowhere} => isDir(t, Front(e)))
  BY WalkRooted, PlaceIs
<1>2. make(t, e, node) = IF e = Nowhere \/ there(t, e) THEN t ELSE put(t, e, node)
  BY DEF make
<1> HIDE DEF e
<1>3. ASSUME e # Nowhere, ~there(t, e) PROVE Rooted(put(t, e, node))
  <2>1. e # <<>> /\ ~isDir(t, e)
    BY <1>3 DEF isDir, there
  <2> QED
    BY <1>1, <1>3, <2>1, PutRooted
<1>4. Rooted(make(t, e, node))
  BY <1>2, <1>3
<1> QED
  BY <1>4 DEF e

LEMMA MkdirAllRooted ==
  ASSUME NEW t, Rooted(t), NEW p, DataPath(p)
  PROVE  Rooted(mkdirAll(t, p))
<1> DEFINE X == {u \in Trees : Rooted(u)}
<1>1. t \in X /\ p \in Path
  BY DEF Rooted, DataPath
<1>2. ASSUME NEW u \in X, NEW n \in 1..Len(p) PROVE mkdir(u, Upto(p, n)) \in X
  <2>1. Upto(p, n) \in Path /\ Rooted(u)
    BY DataPaths DEF DataPath
  <2>2. Rooted(mkdir(u, Upto(p, n)))
    BY <2>1, MakeRooted, DirIsNode DEF mkdir
  <2> QED
    BY <2>2 DEF Rooted
<1> HIDE DEF X
<1>3. mkdirAll(t, p) \in X
  BY <1>1, <1>2, MkdirAllKeeps
<1> QED
  BY <1>3 DEF X

LEMMA RemoveRooted ==
  ASSUME NEW t, Rooted(t), NEW p \in Path
  PROVE  Rooted(remove(t, p))
<1> DEFINE e == entry(t, p)
<1>1. e \in Path
  BY WalkRooted, PlaceIs
<1>2. remove(t, p) = t \/ remove(t, p) = drop(t, e)
  BY DEF remove, removeAll
<1> HIDE DEF e
<1> QED
  BY <1>1, <1>2, DropRooted

\* An archive is unpacked over other links: it stays in Root or goes astray.
LEMMA Unpacked ==
  ASSUME Jailed, NEW t, Rooted(t), NEW seen, ~plain, unpacked(t, seen)
  PROVE  JailInv'
<1>1. /\ tree' = t /\ strayed' = strayed \cup outsideOf(t, seen)
      /\ astray' = (astray \/ (~plain /\ outsideOf(t, seen) # {}))
  BY DEF unpacked, ends
<1>2. CASE outsideOf(t, seen) = {}
  <2>1. strayed' = {}
    BY <1>1, <1>2 DEF Jailed
  <2>2. ASSUME NEW p, p \in DOMAIN t \cup DOMAIN tree, p # Nowhere, ~under(Root, p)
        PROVE  p \in DOMAIN t /\ p \in DOMAIN tree /\ t[p] = tree[p]
    BY <1>2, <2>2 DEF outsideOf
  <2>3. /\ \A p \in DOMAIN t : p # Nowhere
        /\ \A p \in DOMAIN Outside : p # Nowhere /\ ~under(Root, p)
    BY TreeNodes, OutsideAssumption DEF Rooted
  <2>4. SameOutside(t)
    BY <2>2, <2>3 DEF SameOutside, Jailed, Good
  <2> QED
    BY <1>1, <2>1, <2>4 DEF JailInv, Jailed, Good
<1>3. CASE outsideOf(t, seen) # {}
  BY <1>1, <1>3 DEF JailInv
<1> QED
  BY <1>2, <1>3

LEMMA UnzipIn ==
  ASSUME Jailed, NEW request \in Paths, NEW name \in Paths, Unzip(request, name)
  PROVE  JailInv'
<1> DEFINE p == full(request)
           t == mkdirAll(tree, p)
           q == p \o name
           u == mkdirAll(t, Front(q))
<1>1. /\ resolves(request, TRUE)
      /\ cleanName(name) => unpacked(create(u, q), {place(u, q)})
      /\ ~cleanName(name) => unpacked(t, {})
  BY DEF Unzip
<1>2. DataPath(p) /\ Rooted(tree) /\ (plain => PlainGood(tree))
  BY <1>1, SafeRequest, CleanNames DEF Jailed, PlainGood, Good
<1> HIDE DEF p
<1>3. Rooted(t) /\ (plain => PlainGood(t))
  BY <1>2, PlainMkdirAll, MkdirAllRooted
<1> HIDE DEF t
<1>4. CASE cleanName(name)
  <2>1. DataPath(q) /\ DataPath(Front(q))
    BY <1>2, <1>4, CleanPath
  <2> HIDE DEF q
  <2>2. Rooted(u) /\ (plain => PlainGood(u))
    BY <1>3, <2>1, PlainMkdirAll, MkdirAllRooted
  <2> HIDE DEF u
  <2>3. Rooted(create(u, q)) /\ (plain => PlainGood(create(u, q)))
    BY <2>1, <2>2, PlainCreate, CreateRooted DEF DataPath
  <2>4. unpacked(create(u, q), {place(u, q)})
    BY <1>1, <1>4
  <2>5. CASE plain
    <3>1. Jailed'
      BY <2>1, <2>2, <2>3, <2>4, <2>5, PlainServed DEF unpacked
    <3> QED
      BY <3>1 DEF JailInv, Jailed, Good
  <2>6. CASE ~plain
    BY <2>3, <2>4, <2>6, Unpacked
  <2> QED
    BY <2>5, <2>6
<1>5. CASE ~cleanName(name)
  <2>1. CASE plain
    <3>1. Jailed'
      BY <1>1, <1>3, <1>5, <2>1, Ended DEF PlainGood, unpacked
    <3> QED
      BY <3>1 DEF JailInv, Jailed, Good
  <2>2. CASE ~plain
    BY <1>1, <1>3, <1>5, <2>2, Unpacked
  <2> QED
    BY <2>1, <2>2
<1> QED
  BY <1>4, <1>5

LEMMA UntarIn ==
  ASSUME Jailed, NEW name \in Paths, NEW link \in Paths, NEW target \in Targets,
         Untar(name, link, target)
  PROVE  JailInv'
<1> DEFINE p == Root \o name
           q == Root \o link
           r == mkdirAll(tree, Front(p))
           t == create(r, p)
           v == remove(t, q)
           u == mkdirAll(v, Front(q))
           z == IF plainLink(target) THEN symlink(u, q, target) ELSE t
<1>1. cleanName(name) /\ cleanName(link) /\ unpacked(z, {place(t, p)})
  BY DEF Untar
<1>2. Rooted(tree) /\ (plain => PlainGood(tree))
  BY <1>1, CleanNames DEF Jailed, PlainGood, Good
<1>3. /\ DataPath(p) /\ DataPath(Front(p))
      /\ DataPath(q) /\ q # Root /\ DataPath(Front(q))
  BY <1>1, CleanPath, DataPaths
<1>p. p \in Path /\ q \in Path
  BY <1>3 DEF DataPath
<1> HIDE DEF p, q
<1>4. Rooted(r) /\ (plain => PlainGood(r))
  BY <1>2, <1>3, PlainMkdirAll, MkdirAllRooted
<1> HIDE DEF r
<1>5. Rooted(t) /\ (plain => PlainGood(t))
  BY <1>3, <1>p, <1>4, PlainCreate, CreateRooted
<1> HIDE DEF t
<1>6. Rooted(v) /\ (plain => PlainGood(v))
  BY <1>3, <1>p, <1>5, PlainRemove, RemoveRooted
<1> HIDE DEF v
<1>7. Rooted(u) /\ (plain => PlainGood(u))
  BY <1>3, <1>6, PlainMkdirAll, MkdirAllRooted
<1> HIDE DEF u
<1>8. /\ Rooted(symlink(u, q, target))
      /\ plain /\ plainLink(target) => PlainGood(symlink(u, q, target))
  BY <1>3, <1>p, <1>7, PlainMake, MakeRooted, LinkIn DEF symlink
<1>9. Rooted(z) /\ (plain => PlainGood(z))
  BY <1>5, <1>8
<1> HIDE DEF z
<1>10. CASE plain
  <2>1. Jailed'
    BY <1>1, <1>3, <1>5, <1>9, <1>10, PlainServed DEF unpacked
  <2> QED
    BY <2>1 DEF JailInv, Jailed, Good
<1>11. CASE ~plain
  BY <1>1, <1>9, <1>11, Unpacked
<1> QED
  BY <1>10, <1>11

LEMMA ContainerIn ==
  ASSUME Jailed, NEW p \in Paths, cleanName(p),
         NEW node \in {Dir, File} \cup {Link(target) : target \in Targets}, ContainerPuts(p, node)
  PROVE  Jailed'
<1> DEFINE q == Root \o p
           t == drop(tree, q)
<1>1. isDir(tree, Front(q)) /\ tree' = put(t, q, node) /\ strayed' = {}
  BY DEF ContainerPuts, Jailed
<1>2. node \in Node
  BY DirIsNode, LinkIn
<1>3. q \in Path /\ under(Root, q) /\ q # <<>>
  BY CleanPath, DataPaths, InRoot DEF DataPath
<1>4. Good(tree) /\ tree \in Trees
  BY DEF Jailed, Good, Rooted
<1> HIDE DEF q
<1>5. Good(t)
  BY <1>3, <1>4, DropGood
<1>6. /\ \A x : x \in DOMAIN t <=> x \in DOMAIN tree /\ ~under(q, x)
      /\ \A x \in DOMAIN t : t[x] = tree[x]
  BY <1>3, <1>4, DropTree
<1> HIDE DEF t
<1>7. ~isDir(t, q)
  BY <1>3, <1>6, UnderItself DEF isDir
<1>8. isDir(t, Front(q))
  <2>1. Len(Front(q)) = Len(q) - 1 /\ Len(q) \in Nat
    BY <1>3, Parent
  <2>2. ~under(q, Front(q))
    BY <2>1 DEF under
  <2> QED
    BY <1>1, <1>6, <2>2 DEF isDir
<1>9. Good(put(t, q, node))
  BY <1>2, <1>3, <1>5, <1>7, <1>8, PutGood
<1> QED
  BY <1>1, <1>9 DEF Jailed

LEMMA JailStep == JailInv /\ [JailNext]_jailVars => JailInv'
<1> SUFFICES ASSUME JailInv, [JailNext]_jailVars PROVE JailInv'
  OBVIOUS
<1>1. Jailed' => JailInv'
  BY DEF JailInv, Jailed, Good
<1>2. ASSUME Jailed, NEW request \in Paths, Ask(request) PROVE JailInv'
  BY <1>1, <1>2, ReadIn, FmZipIn, WriteIn, MkdirIn, RemoveIn, RenameIn, MoveIn, SymlinkIn, UnzipIn,
     UntarIn DEF Ask
<1>3. ASSUME Jailed, NEW p \in {q \in Paths : cleanName(q)},
             NEW node \in {Dir, File} \cup {Link(target) : target \in Targets},
             ContainerPuts(p, node)
      PROVE  JailInv'
  BY <1>1, <1>3, ContainerIn
<1>4. CASE UNCHANGED jailVars
  BY <1>4 DEF JailInv, Jailed, jailVars
<1>5. JailNext => Jailed
  BY DEF JailNext, JailInv
<1> QED
  BY <1>2, <1>3, <1>4, <1>5 DEF JailNext

LEMMA JailStart == JailInit => JailInv
BY Fresh DEF JailInit, JailInv, Jailed, Good, Rooted

LEMMA JailInvariant == JailSpec => []JailInv
BY JailStart, JailStep, PTL DEF JailSpec

LEMMA JailIsTyped == JailInv => JailTypeOK
BY TreeNodes, NodeTo DEF JailInv, JailTypeOK, Rooted, Closed

LEMMA InsideHolds == JailInv => ServedInside
BY DEF JailInv, Jailed, ServedInside, Good, SameOutside

\* What is in the file system has a parent that is a directory.
THEOREM JailTypes == JailSpec => []JailTypeOK
BY JailIsTyped, JailInvariant, PTL

\* No file operation of wings leaves the data directory, whatever links the
\* container puts there, before an archive is unpacked over one of them; and
\* unpacking over links of the kind that wings makes stays inside as well.
THEOREM InsideTheJail == JailSpec => []ServedInside
BY InsideHolds, JailInvariant, PTL
=============================================================================
