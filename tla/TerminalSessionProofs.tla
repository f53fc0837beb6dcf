----------------------- MODULE TerminalSessionProofs ------------------------
(***************************************************************************)
(* The output of a console session, for any subscribers, capacities and    *)
(* amount of output.  The ring, a channel and what its subscriber received *)
(* are runs of consecutive pieces that end where the fragment held back    *)
(* begins; a step extends every run by the same chunks, or moves a chunk   *)
(* from the front of a channel to what was received.                       *)
(***************************************************************************)
EXTENDS TerminalSession, SequenceTheorems, WellFoundedInduction, TLAPS

\* The pieces after a up to b.
Run(a, b) == [k \in 1..(b - a) |-> a + k]

Counts == 0..MaxPieces

\* c says after which piece every chunk of q begins and ends.
Splits(c, q) ==
  /\ c \in [0..Len(q) -> Counts]
  /\ \A i, j \in 0..Len(q) : i <= j => c[i] <= c[j]
  /\ \A i \in 1..Len(q) : text(q[i]) = Run(c[i - 1], c[i])

\* The chunks of q hold the pieces after a up to b, each once and in order.
Cut(q, a, b) ==
  \E c \in [0..Len(q) -> Counts] : Splits(c, q) /\ c[0] = a /\ c[Len(q)] = b

\* The pieces that went out.
sent == made - Len(pending)

\* The types of what a broadcast changes, and of the rest.
OutputTypes ==
  /\ made \in 0..MaxPieces
  /\ pending \in Seq(Pieces)
  /\ ring \in Seq(Chunks) /\ Len(ring) <= RingCap
  /\ chan \in [Subscribers -> Seq(Chunks)] /\ \A u \in Subscribers : Len(chan[u]) <= ChanCap
  /\ lossy \subseteq Subscribers

OtherTypes ==
  /\ closed \in BOOLEAN
  /\ subs \subseteq Subscribers
  /\ chanSt \in [Subscribers -> {"none", "open", "closed", "panic"}]
  /\ stdin \in 0..StdinCap
  /\ attach \in {"running", "ended", "closing", "done"}
  /\ pc \in [Typists -> {"idle", "select", "echo"}]
  /\ got \in [Subscribers -> Seq(Pieces)]

Shape == OutputTypes /\ OtherTypes

\* Who is in the list of a session, and what became of the others.
Members ==
  /\ closed => subs = {} /\ pending = <<>>
  /\ ChannelsSafe
  /\ \A u \in Subscribers : chanSt[u] = "none" => got[u] = <<>> /\ chan[u] = <<>> /\ u \notin subs

\* The fragment held back is the end of the output, and the ring what is before it.
RingCut ==
  ~closed => /\ Len(pending) <= made /\ pending = Run(sent, made)
             /\ \E a \in Counts : Cut(ring, a, sent)

ChanCut ==
  ~closed => \A u \in subs \ lossy : \E a, b \in Counts :
    a <= b /\ got[u] = Run(a, b) /\ Cut(chan[u], b, sent)

SessionInv == Shape /\ Members /\ RingCut /\ ChanCut

-----------------------------------------------------------------------------
(* Runs of pieces *)

\* A run holds consecutive pieces.
LEMMA RunProperties ==
  ASSUME NEW a \in Nat, NEW b \in Nat, a <= b
  PROVE  /\ Run(a, b) \in Seq(Nat) /\ Len(Run(a, b)) = b - a
         /\ \A i \in 1..(b - a) : Run(a, b)[i] = a + i
         /\ Run(a, a) = <<>>
         /\ b <= MaxPieces => Run(a, b) \in Seq(Pieces)
<1>1. b - a \in Nat
  OBVIOUS
<1>2. \A k \in 1..(b - a) : a + k \in Nat /\ (b <= MaxPieces => a + k \in Pieces)
  BY CapsAssumption DEF Pieces
<1>3. Run(a, a) = <<>>
  <2>1. 1..(a - a) = {}
    OBVIOUS
  <2>2. Run(a, a) = [k \in {} |-> a + k]
    BY <2>1 DEF Run
  <2> QED
    BY <2>2, EmptySeq, IsASeq
<1>4. Run(a, b) \in Seq(Nat) /\ Len(Run(a, b)) = b - a
  BY <1>1, <1>2, IsASeq, LenProperties DEF Run
<1>5. b <= MaxPieces => Run(a, b) \in Seq(Pieces)
  BY <1>1, <1>2, IsASeq DEF Run
<1> QED
  BY <1>3, <1>4, <1>5 DEF Run

\* Two runs that meet are one.
LEMMA RunConcat ==
  ASSUME NEW a \in Nat, NEW b \in Nat, NEW d \in Nat, a <= b, b <= d
  PROVE  Run(a, b) \o Run(b, d) = Run(a, d)
<1> DEFINE q == Run(a, b)
           r == Run(b, d)
           s == Run(a, d)
<1>1. /\ q \in Seq(Nat) /\ Len(q) = b - a /\ \A i \in 1..(b - a) : q[i] = a + i
      /\ r \in Seq(Nat) /\ Len(r) = d - b /\ \A i \in 1..(d - b) : r[i] = b + i
      /\ s \in Seq(Nat) /\ Len(s) = d - a /\ \A i \in 1..(d - a) : s[i] = a + i
  <2>1. q \in Seq(Nat) /\ Len(q) = b - a /\ \A i \in 1..(b - a) : q[i] = a + i
    BY RunProperties
  <2>2. r \in Seq(Nat) /\ Len(r) = d - b /\ \A i \in 1..(d - b) : r[i] = b + i
    BY RunProperties
  <2>3. a <= d
    OBVIOUS
  <2>4. s \in Seq(Nat) /\ Len(s) = d - a /\ \A i \in 1..(d - a) : s[i] = a + i
    BY <2>3, RunProperties
  <2> QED
    BY <2>1, <2>2, <2>4
<1> HIDE DEF q, r, s
<1>2. /\ q \o r \in Seq(Nat)
      /\ Len(q \o r) = Len(q) + Len(r)
      /\ \A i \in 1..(Len(q) + Len(r)) : (q \o r)[i] = IF i <= Len(q) THEN q[i] ELSE r[i - Len(q)]
  BY <1>1, ConcatProperties
<1>3. ASSUME NEW i \in 1..(d - a) PROVE (q \o r)[i] = s[i]
  <2>1. i \in 1..(Len(q) + Len(r))
    BY <1>1
  <2>2. CASE i <= b - a
    <3>1. i \in 1..(b - a)
      BY <2>2
    <3> QED
      BY <1>1, <1>2, <2>1, <2>2, <3>1
  <2>3. CASE ~(i <= b - a)
    <3>1. i - (b - a) \in 1..(d - b)
      BY <2>3
    <3>2. (q \o r)[i] = r[i - (b - a)]
      BY <1>1, <1>2, <2>1, <2>3
    <3>3. r[i - (b - a)] = b + (i - (b - a))
      BY <1>1, <3>1
    <3> QED
      BY <1>1, <3>2, <3>3
  <2> QED
    BY <2>2, <2>3
<1>4. Len(q \o r) = d - a
  BY <1>1, <1>2
<1>5. q \o r = s
  BY <1>1, <1>2, <1>3, <1>4, SeqEqual
<1> QED
  BY <1>5 DEF q, r, s

\* The next piece extends a run.
LEMMA RunAppend ==
  ASSUME NEW a \in Nat, NEW b \in Nat, a <= b
  PROVE  Append(Run(a, b), b + 1) = Run(a, b + 1)
<1>0. b + 1 \in Nat /\ b <= b + 1 /\ a <= b + 1
  OBVIOUS
<1>1. Run(b, b + 1) = <<b + 1>>
  <2>1. /\ Run(b, b + 1) \in Seq(Nat) /\ Len(Run(b, b + 1)) = (b + 1) - b
        /\ \A i \in 1..((b + 1) - b) : Run(b, b + 1)[i] = b + i
    BY <1>0, RunProperties
  <2>2. <<b + 1>> \in Seq(Nat) /\ Len(<<b + 1>>) = 1 /\ <<b + 1>>[1] = b + 1
    OBVIOUS
  <2>3. (b + 1) - b = 1 /\ 1 \in 1..1 /\ \A i \in 1..1 : i = 1
    OBVIOUS
  <2>4. Len(Run(b, b + 1)) = 1 /\ Run(b, b + 1)[1] = b + 1
    BY <2>1, <2>3
  <2>5. \A i \in 1..1 : Run(b, b + 1)[i] = <<b + 1>>[i]
    BY <2>2, <2>3, <2>4
  <2> QED
    BY <2>1, <2>2, <2>4, <2>5, SeqEqual
<1>2. Run(a, b) \in Seq(Nat)
  BY RunProperties
<1>3. Append(Run(a, b), b + 1) = Run(a, b) \o <<b + 1>>
  BY <1>2, AppendIsConcat
<1>4. Run(a, b) \o Run(b, b + 1) = Run(a, b + 1)
  BY <1>0, RunConcat
<1> QED
  BY <1>1, <1>3, <1>4

\* A run is the latest output.
LEMMA RunIsLatest ==
  ASSUME NEW a \in Nat, NEW b \in Nat, a <= b PROVE latest(Run(a, b), b)
<1>1. Len(Run(a, b)) = b - a
  BY RunProperties
<1>2. b - (b - a) = a
  OBVIOUS
<1> QED
  BY <1>1, <1>2 DEF latest, Run

-----------------------------------------------------------------------------
(* Chunks that are cut out of the output *)

\* The text of a fragment is the fragment, the text of a marker nothing.
LEMMA ChunkTypes ==
  /\ \A q \in Seq(Pieces) : q \in Chunks /\ text(q) = q
  /\ \A x \in Markers : x \in Chunks /\ text(x) = <<>>
  /\ \A x \in Chunks : text(x) \in Seq(Pieces)
<1>1. <<>> \in Seq(Pieces)
  OBVIOUS
<1> QED
  BY <1>1, MarkersAssumption DEF Chunks, text

\* A number of pieces is a natural number within the bound.
LEMMA CountsTypes == MaxPieces \in Nat /\ Counts \subseteq Nat /\ \A n \in Counts : n <= MaxPieces
BY CapsAssumption DEF Counts

\* No chunks hold no pieces.
LEMMA CutEmpty == ASSUME NEW a \in Counts PROVE Cut(<<>>, a, a)
<1> DEFINE c == [k \in 0..0 |-> a]
<1>1. Len(<<>>) = 0
  OBVIOUS
<1>2. c \in [0..0 -> Counts] /\ c[0] = a
  OBVIOUS
<1>3. Splits(c, <<>>)
  BY <1>1, <1>2, CountsTypes DEF Splits
<1> QED
  BY <1>1, <1>2, <1>3 DEF Cut

\* One chunk that is a run of pieces, or a marker.
LEMMA CutSingle ==
  ASSUME NEW a \in Counts, NEW b \in Counts, a <= b, NEW x, text(x) = Run(a, b)
  PROVE  Cut(<<x>>, a, b)
<1> DEFINE c == [k \in 0..1 |-> IF k = 0 THEN a ELSE b]
<1>1. Len(<<x>>) = 1 /\ <<x>>[1] = x
  OBVIOUS
<1>2. c \in [0..1 -> Counts] /\ c[0] = a /\ c[1] = b
  OBVIOUS
<1> HIDE DEF c
<1>3. \A i, j \in 0..1 : i <= j => c[i] <= c[j]
  <2>1. \A i \in 0..1 : i = 0 \/ i = 1
    OBVIOUS
  <2> QED
    BY <1>2, <2>1, CountsTypes
<1>4. \A i \in 1..1 : i = 1 /\ i - 1 = 0
  OBVIOUS
<1>5. Splits(c, <<x>>)
  BY <1>1, <1>2, <1>3, <1>4 DEF Splits
<1> QED
  BY <1>1, <1>2, <1>5 DEF Cut

\* Chunks that go on where others end.
LEMMA CutConcat ==
  ASSUME NEW q \in Seq(Chunks), NEW r \in Seq(Chunks), NEW a, NEW b, NEW d, Cut(q, a, b), Cut(r, b, d)
  PROVE  Cut(q \o r, a, d)
<1>1. PICK f \in [0..Len(q) -> Counts] : Splits(f, q) /\ f[0] = a /\ f[Len(q)] = b
  BY DEF Cut
<1>2. PICK g \in [0..Len(r) -> Counts] : Splits(g, r) /\ g[0] = b /\ g[Len(r)] = d
  BY DEF Cut
<1> DEFINE m == Len(q)
           n == Len(r)
           s == q \o r
           c == [k \in 0..(m + n) |-> IF k <= m THEN f[k] ELSE g[k - m]]
<1>3. m \in Nat /\ n \in Nat
  OBVIOUS
<1>4. Len(s) = m + n /\ \A i \in 1..(m + n) : s[i] = IF i <= m THEN q[i] ELSE r[i - m]
  BY ConcatProperties
<1> HIDE DEF m, n, s
<1>5. \A k \in 0..m : c[k] = f[k]
  BY <1>3
<1>6. \A k \in 0..n : c[m + k] = g[k]
  <2>1. ASSUME NEW k \in 0..n PROVE c[m + k] = g[k]
    <3>1. m + k \in 0..(m + n) /\ (m + k) - m = k
      BY <1>3
    <3>2. CASE k = 0
      BY <1>1, <1>2, <1>3, <3>1, <3>2 DEF m
    <3>3. CASE k # 0
      <4>1. ~(m + k <= m)
        BY <1>3, <3>3
      <4> QED
        BY <3>1, <4>1
    <3> QED
      BY <3>2, <3>3
  <2> QED
    BY <2>1
<1>7. c \in [0..(m + n) -> Counts]
  <2>1. ASSUME NEW k \in 0..(m + n) PROVE (IF k <= m THEN f[k] ELSE g[k - m]) \in Counts
    <3>0. f \in [0..m -> Counts] /\ g \in [0..n -> Counts]
      BY <1>1, <1>2 DEF m, n
    <3>1. CASE k <= m
      <4>1. k \in 0..m
        BY <1>3, <3>1
      <4> QED
        BY <3>0, <3>1, <4>1
    <3>2. CASE ~(k <= m)
      <4>1. k - m \in 0..n
        BY <1>3, <3>2
      <4> QED
        BY <3>0, <3>2, <4>1
    <3> QED
      BY <3>1, <3>2
  <2> QED
    BY <2>1
<1> HIDE DEF c
<1>8. \A k \in 0..(m + n) : k \in 0..m \/ (k - m \in 0..n /\ k = m + (k - m))
  BY <1>3
<1>9. \A i, j \in 0..(m + n) : i <= j => c[i] <= c[j]
  <2>1. SUFFICES ASSUME NEW i \in 0..(m + n), NEW j \in 0..(m + n), i <= j PROVE c[i] <= c[j]
    OBVIOUS
  <2>2. \A x \in 0..m : f[x] \in Nat /\ f[x] <= f[m]
    <3>1. f \in [0..m -> Counts] /\ \A x, y \in 0..m : x <= y => f[x] <= f[y]
      BY <1>1 DEF Splits, m
    <3>2. \A x \in 0..m : x <= m /\ m \in 0..m
      BY <1>3
    <3> QED
      BY <3>1, <3>2, CountsTypes
  <2>3. \A y \in 0..n : g[y] \in Nat /\ g[0] <= g[y]
    <3>1. g \in [0..n -> Counts] /\ \A x, y \in 0..n : x <= y => g[x] <= g[y]
      BY <1>2 DEF Splits, n
    <3>2. \A x \in 0..n : 0 <= x /\ 0 \in 0..n
      BY <1>3
    <3> QED
      BY <3>1, <3>2, CountsTypes
  <2>4. CASE j \in 0..m
    <3>1. i \in 0..m
      BY <1>3, <2>1, <2>4
    <3> QED
      BY <1>1, <1>5, <2>1, <2>4, <3>1 DEF Splits, m
  <2>5. CASE j - m \in 0..n /\ j = m + (j - m)
    <3>1. c[j] = g[j - m]
      BY <1>6, <2>5
    <3>2. CASE i \in 0..m
      <4>1. c[i] = f[i] /\ f[i] <= f[m] /\ f[m] = g[0] /\ g[0] <= g[j - m]
        BY <1>1, <1>2, <1>5, <2>2, <2>3, <2>5, <3>2 DEF m
      <4>2. f[i] \in Nat /\ f[m] \in Nat /\ g[j - m] \in Nat
        BY <1>3, <2>2, <2>3, <2>5, <3>2
      <4> QED
        BY <3>1, <4>1, <4>2
    <3>3. CASE i - m \in 0..n /\ i = m + (i - m)
      <4>1. c[i] = g[i - m] /\ i - m <= j - m
        BY <1>3, <1>6, <2>1, <3>3
      <4> QED
        BY <1>2, <2>5, <3>1, <3>3, <4>1 DEF Splits, n
    <3> QED
      BY <1>8, <3>2, <3>3
  <2> QED
    BY <1>8, <2>4, <2>5
<1>10. ASSUME NEW i \in 1..(m + n) PROVE text(s[i]) = Run(c[i - 1], c[i])
  <2>1. CASE i <= m
    <3>1. i \in 1..m /\ i \in 0..m /\ i - 1 \in 0..m
      BY <1>3, <2>1
    <3> QED
      BY <1>1, <1>4, <1>5, <2>1, <3>1 DEF Splits, m
  <2>2. CASE ~(i <= m)
    <3>1. i - m \in 1..n /\ i - m \in 0..n /\ (i - m) - 1 \in 0..n /\ m + (i - m) = i /\ m + ((i - m) - 1) = i - 1
      BY <1>3, <2>2
    <3>2. c[i] = g[i - m] /\ c[i - 1] = g[(i - m) - 1]
      BY <1>6, <3>1
    <3>3. text(r[i - m]) = Run(g[(i - m) - 1], g[i - m])
      BY <1>2, <3>1 DEF Splits, n
    <3> QED
      BY <1>4, <2>2, <3>2, <3>3
  <2> QED
    BY <2>1, <2>2
<1>11. Splits(c, s)
  BY <1>4, <1>7, <1>9, <1>10 DEF Splits
<1>12. c[0] = a /\ c[m + n] = d
  <2>1. 0 \in 0..m /\ n \in 0..n
    BY <1>3
  <2> QED
    BY <1>1, <1>2, <1>5, <1>6, <2>1 DEF n
<1> QED
  BY <1>4, <1>7, <1>11, <1>12 DEF Cut, s

\* Chunks dropped at the front leave chunks that end where they did.
LEMMA CutSuffix ==
  ASSUME NEW q \in Seq(Chunks), NEW a, NEW d, Cut(q, a, d), NEW k \in 1..(Len(q) + 1)
  PROVE  \E b \in Counts : Cut(SubSeq(q, k, Len(q)), b, d)
<1>1. PICK f \in [0..Len(q) -> Counts] : Splits(f, q) /\ f[0] = a /\ f[Len(q)] = d
  BY DEF Cut
<1> DEFINE m == Len(q)
           n == m - k + 1
           r == SubSeq(q, k, m)
           c == [i \in 0..n |-> f[k - 1 + i]]
<1>2. m \in Nat /\ k \in Nat /\ k >= 1 /\ k <= m + 1 /\ n \in Nat
  OBVIOUS
<1>3. /\ f \in [0..m -> Counts]
      /\ \A i, j \in 0..m : i <= j => f[i] <= f[j]
      /\ \A i \in 1..m : text(q[i]) = Run(f[i - 1], f[i])
  BY <1>1 DEF Splits
<1>4. Len(r) = n /\ \A i \in 1..n : r[i] = q[k + i - 1]
  <2>1. k \in Int /\ m \in Int /\ \A i \in k..m : q[i] \in Chunks
    BY <1>2, ElementOfSeq
  <2>2. /\ Len(SubSeq(q, k, m)) = IF k <= m THEN m - k + 1 ELSE 0
        /\ \A i \in 1..(m - k + 1) : SubSeq(q, k, m)[i] = q[k + i - 1]
    BY <2>1, SubSeqProperties
  <2> QED
    BY <1>2, <2>2
<1> HIDE DEF r
<1>5. \A i \in 0..n : k - 1 + i \in 0..m
  BY <1>2
<1>6. c \in [0..n -> Counts] /\ \A i \in 0..n : c[i] = f[k - 1 + i]
  BY <1>3, <1>5
<1> HIDE DEF c
<1>7. \A i, j \in 0..n : i <= j => c[i] <= c[j]
  <2>1. SUFFICES ASSUME NEW i \in 0..n, NEW j \in 0..n, i <= j PROVE c[i] <= c[j]
    OBVIOUS
  <2>2. k - 1 + i <= k - 1 + j
    BY <1>2, <2>1
  <2> QED
    BY <1>3, <1>5, <1>6, <2>2
<1>8. ASSUME NEW i \in 1..n PROVE text(r[i]) = Run(c[i - 1], c[i])
  <2>1. i \in 0..n /\ i - 1 \in 0..n /\ k - 1 + i \in 1..m /\ k + i - 1 = k - 1 + i /\ k - 1 + (i - 1) = (k - 1 + i) - 1
    BY <1>2
  <2>2. text(q[k - 1 + i]) = Run(f[(k - 1 + i) - 1], f[k - 1 + i])
    BY <1>3, <2>1
  <2>3. r[i] = q[k - 1 + i] /\ c[i] = f[k - 1 + i] /\ c[i - 1] = f[(k - 1 + i) - 1]
    BY <1>4, <1>6, <2>1
  <2> QED
    BY <2>2, <2>3
<1>9. c[n] = d /\ c[0] \in Counts
  <2>1. n \in 0..n /\ 0 \in 0..n /\ k - 1 + n = m
    BY <1>2
  <2> QED
    BY <1>1, <1>6, <2>1
<1>10. Cut(r, c[0], d)
  BY <1>4, <1>6, <1>7, <1>8, <1>9 DEF Cut, Splits
<1> QED
  BY <1>9, <1>10 DEF r

\* The chunk in front and the rest.
LEMMA CutHead ==
  ASSUME NEW q \in Seq(Chunks), NEW a, NEW d, Cut(q, a, d), q # <<>>
  PROVE  \E b \in Counts : a \in Counts /\ a <= b /\ text(Head(q)) = Run(a, b) /\ Cut(Tail(q), b, d)
<1>1. PICK f \in [0..Len(q) -> Counts] : Splits(f, q) /\ f[0] = a /\ f[Len(q)] = d
  BY DEF Cut
<1> DEFINE m == Len(q)
           r == Tail(q)
           n == m - 1
           c == [i \in 0..n |-> f[i + 1]]
<1>2. m \in Nat /\ m >= 1 /\ n \in Nat
  BY EmptySeq
<1>3. /\ f \in [0..m -> Counts]
      /\ \A i, j \in 0..m : i <= j => f[i] <= f[j]
      /\ \A i \in 1..m : text(q[i]) = Run(f[i - 1], f[i])
  BY <1>1 DEF Splits
<1>4. Len(r) = n /\ \A i \in 1..n : r[i] = q[i + 1]
  BY HeadTailProperties
<1>5. Head(q) = q[1]
  BY <1>2
<1> HIDE DEF r
<1>6. c \in [0..n -> Counts] /\ \A i \in 0..n : c[i] = f[i + 1]
  <2>1. \A i \in 0..n : i + 1 \in 0..m
    BY <1>2
  <2> QED
    BY <1>3, <2>1
<1> HIDE DEF c
<1>7. \A i, j \in 0..n : i <= j => c[i] <= c[j]
  <2>1. SUFFICES ASSUME NEW i \in 0..n, NEW j \in 0..n, i <= j PROVE c[i] <= c[j]
    OBVIOUS
  <2>2. i + 1 \in 0..m /\ j + 1 \in 0..m /\ i + 1 <= j + 1
    BY <1>2, <2>1
  <2> QED
    BY <1>3, <1>6, <2>2
<1>8. ASSUME NEW i \in 1..n PROVE text(r[i]) = Run(c[i - 1], c[i])
  <2>1. i \in 0..n /\ i - 1 \in 0..n /\ i + 1 \in 1..m /\ (i + 1) - 1 = i /\ (i - 1) + 1 = i
    BY <1>2
  <2>2. text(q[i + 1]) = Run(f[(i + 1) - 1], f[i + 1])
    BY <1>3, <2>1
  <2>3. r[i] = q[i + 1] /\ c[i] = f[i + 1] /\ c[i - 1] = f[i]
    BY <1>4, <1>6, <2>1
  <2> QED
    BY <2>1, <2>2, <2>3
<1>9. c[n] = d /\ c[0] = f[1] /\ c[0] \in Counts
  <2>1. n \in 0..n /\ 0 \in 0..n /\ n + 1 = m /\ 0 + 1 = 1
    BY <1>2
  <2> QED
    BY <1>1, <1>6, <2>1
<1>10. Cut(r, f[1], d)
  BY <1>4, <1>6, <1>7, <1>8, <1>9 DEF Cut, Splits
<1>11. a \in Counts /\ a <= f[1] /\ text(Head(q)) = Run(a, f[1])
  <2>1. 0 \in 0..m /\ 1 \in 0..m /\ 1 \in 1..m /\ 0 <= 1 /\ 1 - 1 = 0
    BY <1>2
  <2> QED
    BY <1>1, <1>3, <1>5, <2>1
<1> QED
  BY <1>9, <1>10, <1>11 DEF r

\* What FlattenSeq returns, given the concatenations of the first i sequences.
LEMMA FlattenValue ==
  ASSUME NEW s, NEW n \in Nat, n > 0, Len(s) = n, NEW g, g = [i \in 1..n |-> g[i]],
         g[1] = s[1], \A i \in 2..n : g[i] = g[i - 1] \o s[i]
  PROVE  FlattenSeq(s) = g[n]
<1> DEFINE Fixed(f) == f = [i \in 1..n |-> IF i = 1 THEN s[i] ELSE f[i - 1] \o s[i]]
           flatten == CHOOSE f : Fixed(f)
<1>1. FlattenSeq(s) = flatten[n]
  BY DEF FlattenSeq
<1>2. Fixed(g)
  <2>1. ASSUME NEW i \in 1..n PROVE g[i] = IF i = 1 THEN s[i] ELSE g[i - 1] \o s[i]
    <3>1. i = 1 \/ i \in 2..n
      OBVIOUS
    <3> QED
      BY <3>1
  <2> QED
    BY <2>1
<1>3. Fixed(flatten)
  BY <1>2
<1> HIDE DEF flatten
<1>4. flatten[1] = s[1] /\ \A i \in 2..n : flatten[i] = flatten[i - 1] \o s[i]
  <2>1. \A i \in 1..n : flatten[i] = IF i = 1 THEN s[i] ELSE flatten[i - 1] \o s[i]
    BY <1>3
  <2>2. 1 \in 1..n
    OBVIOUS
  <2>3. ASSUME NEW i \in 2..n PROVE i \in 1..n /\ i # 1
    OBVIOUS
  <2> QED
    BY <2>1, <2>2, <2>3
<1> HIDE DEF Fixed
<1> DEFINE T == {i \in 1..n : flatten[i] # g[i]}
           R == {ss \in Nat \X Nat : ss[1] < ss[2]}
<1>5. ASSUME T # {} PROVE FALSE
  <2>1. IsWellFoundedOn(R, Nat)
    BY NatLessThanWellFounded DEF OpToRel
  <2>2. T \subseteq Nat
    OBVIOUS
  <2> HIDE DEF R
  <2>3. PICK i \in T : \A m \in T : ~ (<<m, i>> \in R)
    <3> HIDE DEF T
    <3> QED
      BY <1>5, <2>1, <2>2, WFMin
  <2>4. i \in 2..n
    <3>1. i \in 1..n /\ flatten[i] # g[i]
      OBVIOUS
    <3>2. i # 1
      BY <1>4, <3>1
    <3> QED
      BY <3>1, <3>2
  <2>5. i - 1 \in 1..n /\ <<i - 1, i>> \in R
    BY <2>4 DEF R
  <2>6. flatten[i - 1] = g[i - 1]
    BY <2>3, <2>5
  <2>7. flatten[i] = g[i]
    BY <1>4, <2>4, <2>6
  <2> QED
    BY <2>7
<1> QED
  BY <1>1, <1>5

\* The pieces in chunks that were cut out of the output.
LEMMA CutPieces ==
  ASSUME NEW q \in Seq(Chunks), NEW a, NEW d, Cut(q, a, d)
  PROVE  a \in Counts /\ d \in Counts /\ a <= d /\ pieces(q) = Run(a, d)
<1>1. PICK f \in [0..Len(q) -> Counts] : Splits(f, q) /\ f[0] = a /\ f[Len(q)] = d
  BY DEF Cut
<1> DEFINE n == Len(q)
           s == [i \in 1..n |-> text(q[i])]
           g == [i \in 1..n |-> Run(f[0], f[i])]
<1>2. n \in Nat
  OBVIOUS
<1>3. /\ f \in [0..n -> Counts]
      /\ \A i, j \in 0..n : i <= j => f[i] <= f[j]
      /\ \A i \in 1..n : text(q[i]) = Run(f[i - 1], f[i])
  BY <1>1 DEF Splits
<1> HIDE DEF n
<1>4. a \in Counts /\ d \in Counts /\ a <= d
  <2>1. 0 \in 0..n /\ n \in 0..n /\ 0 <= n
    BY <1>2
  <2> QED
    BY <1>1, <1>3, <2>1 DEF n
<1>5. s \in Seq(Seq(Pieces)) /\ Len(s) = n
  <2>1. \A i \in 1..n : text(q[i]) \in Seq(Pieces)
    BY ElementOfSeq, ChunkTypes DEF n
  <2> QED
    BY <1>2, <2>1, IsASeq, LenProperties
<1>6. pieces(q) = FlattenSeq(s)
  BY DEF pieces, n
<1>7. CASE n = 0
  <2>1. s = <<>>
    BY <1>5, <1>7, EmptySeq
  <2>2. FlattenSeq(s) = <<>>
    BY <1>5, <1>7, <2>1 DEF FlattenSeq
  <2>3. a = d
    BY <1>1, <1>7 DEF n
  <2>4. Run(a, d) = <<>>
    BY <1>4, <2>3, RunProperties, CountsTypes
  <2> QED
    BY <1>4, <1>6, <2>2, <2>4
<1>8. CASE n > 0
  <2>1. \A i \in 0..n : f[i] \in Nat
    BY <1>3, CountsTypes
  <2>2. g[1] = s[1]
    <3>1. 1 \in 1..n /\ 1 - 1 = 0
      BY <1>2, <1>8
    <3> QED
      BY <1>3, <3>1
  <2>3. ASSUME NEW i \in 2..n PROVE g[i] = g[i - 1] \o s[i]
    <3>1. i \in 1..n /\ i - 1 \in 1..n /\ 0 \in 0..n /\ i - 1 \in 0..n /\ i \in 0..n /\ 0 <= i - 1 /\ i - 1 <= i
      BY <1>2, <2>3
    <3>2. f[0] <= f[i - 1] /\ f[i - 1] <= f[i] /\ f[0] \in Nat /\ f[i - 1] \in Nat /\ f[i] \in Nat
      BY <1>3, <2>1, <3>1
    <3>3. Run(f[0], f[i - 1]) \o Run(f[i - 1], f[i]) = Run(f[0], f[i])
      BY <3>2, RunConcat
    <3> QED
      BY <1>3, <3>1, <3>3
  <2>4. g = [i \in 1..n |-> g[i]]
    OBVIOUS
  <2>5. n \in 1..n
    BY <1>2, <1>8
  <2>6. g[n] = Run(a, d)
    BY <1>1, <2>5 DEF n
  <2>7. Len(s) = n
    BY <1>5
  <2> HIDE DEF g, s
  <2>8. FlattenSeq(s) = g[n]
    BY <1>2, <1>8, <2>2, <2>3, <2>4, <2>7, FlattenValue
  <2> QED
    BY <1>4, <1>6, <2>6, <2>8
<1> QED
  BY <1>2, <1>7, <1>8

-----------------------------------------------------------------------------
(* What goes out *)

\* The types are those of the module, and the ring and the channels are sequences.
LEMMA ShapeIsTyped == Shape => TypeOK
<1>1. \A q \in Seq(Chunks) : \A i \in 1..Len(q) : q[i] \in Chunks
  BY ElementOfSeq
<1>2. SUFFICES ASSUME Shape PROVE TypeOK
  OBVIOUS
<1>3. OutputTypes /\ OtherTypes
  BY <1>2 DEF Shape
<1>4. \A i \in 1..Len(ring) : ring[i] \in Chunks
  BY <1>1, <1>3 DEF OutputTypes
<1>5. \A u \in Subscribers : \A i \in 1..Len(chan[u]) : chan[u][i] \in Chunks
  BY <1>1, <1>3 DEF OutputTypes
<1> QED
  BY <1>3, <1>4, <1>5 DEF TypeOK, OutputTypes, OtherTypes

\* Keeping the last n chunks.
LEMMA LastOfType ==
  ASSUME NEW q \in Seq(Chunks), NEW n \in Nat \ {0}
  PROVE  /\ lastOf(q, n) \in Seq(Chunks) /\ Len(lastOf(q, n)) <= n
         /\ \A a, d : Cut(q, a, d) => \E b \in Counts : Cut(lastOf(q, n), b, d)
<1> DEFINE k == IF Len(q) > n THEN Len(q) - n + 1 ELSE 1
<1>1. k \in 1..(Len(q) + 1) /\ Len(q) \in Nat /\ Len(q) - k + 1 <= n
  OBVIOUS
<1>2. lastOf(q, n) = SubSeq(q, k, Len(q))
  BY DEF lastOf
<1> HIDE DEF k
<1>3. \A i \in k..Len(q) : q[i] \in Chunks
  <2>1. \A i \in k..Len(q) : i \in 1..Len(q)
    BY <1>1
  <2> QED
    BY <2>1, ElementOfSeq
<1>4. /\ SubSeq(q, k, Len(q)) \in Seq(Chunks)
      /\ Len(SubSeq(q, k, Len(q))) = IF k <= Len(q) THEN Len(q) - k + 1 ELSE 0
  BY <1>1, <1>3, SubSeqProperties
<1>5. \A a, d : Cut(q, a, d) => \E b \in Counts : Cut(SubSeq(q, k, Len(q)), b, d)
  BY <1>1, CutSuffix
<1> QED
  BY <1>1, <1>2, <1>4, <1>5

\* Keeping the first n chunks.
LEMMA FirstOfType ==
  ASSUME NEW q \in Seq(Chunks), NEW n \in Nat
  PROVE  /\ firstOf(q, n) \in Seq(Chunks) /\ Len(firstOf(q, n)) <= n
         /\ Len(q) <= n => firstOf(q, n) = q
<1> DEFINE k == IF Len(q) < n THEN Len(q) ELSE n
<1>1. k \in Nat /\ k <= Len(q) /\ k <= n /\ Len(q) \in Nat /\ (Len(q) <= n => k = Len(q))
  OBVIOUS
<1>2. firstOf(q, n) = SubSeq(q, 1, k)
  BY DEF firstOf
<1> HIDE DEF k
<1>3. \A i \in 1..k : q[i] \in Chunks
  <2>1. \A i \in 1..k : i \in 1..Len(q)
    BY <1>1
  <2> QED
    BY <2>1, ElementOfSeq
<1>4. /\ SubSeq(q, 1, k) \in Seq(Chunks)
      /\ Len(SubSeq(q, 1, k)) = IF 1 <= k THEN k - 1 + 1 ELSE 0
  BY <1>1, <1>3, SubSeqProperties
<1>5. SubSeq(q, 1, Len(q)) = q
  BY SubSeqFull
<1>6. Len(SubSeq(q, 1, k)) <= n
  BY <1>1, <1>4
<1>7. Len(q) <= n => SubSeq(q, 1, k) = q
  BY <1>1, <1>5
<1> QED
  BY <1>2, <1>4, <1>6, <1>7

\* What a broadcast leaves of the output: the fragment held back is its end, and
\* the chunks that went out fill the gap to where it begins.
OutputStep ==
  /\ made' \in Counts
  /\ pending' \in Seq(Pieces)
  /\ Len(pending') <= made'
  /\ pending' = Run(sent', made')
  /\ \/ UNCHANGED <<ring, chan, lossy>> /\ sent' = sent
     \/ \E items \in Seq(Chunks) : emit(items) /\ Cut(items, sent, sent')

\* The number of pieces that went out.
LEMMA SentType ==
  ASSUME OutputTypes, Len(pending) <= made
  PROVE  sent \in Counts /\ sent <= made /\ made \in Counts /\ made \in Nat /\ sent \in Nat
<1>1. Len(pending) \in Nat /\ made \in Nat /\ made <= MaxPieces /\ MaxPieces \in Nat
  BY CapsAssumption DEF OutputTypes
<1> QED
  BY <1>1 DEF sent, Counts

\* The fragment held back goes out as the pieces that did not go out yet.
LEMMA HeldOut ==
  ASSUME SessionInv, ~closed
  PROVE  held \in Seq(Chunks) /\ Cut(held, sent, made)
<1>1. OutputTypes /\ Len(pending) <= made /\ pending = Run(sent, made)
  BY DEF SessionInv, RingCut, Shape
<1>2. sent \in Counts /\ made \in Counts /\ sent <= made /\ sent \in Nat /\ made \in Nat
  BY <1>1, SentType
<1>3. CASE pending = <<>>
  <2>1. Len(pending) = 0
    BY <1>3
  <2>2. sent = made
    BY <1>2, <2>1 DEF sent
  <2>3. <<>> \in Seq(Chunks)
    OBVIOUS
  <2> QED
    BY <1>2, <1>3, <2>2, <2>3, CutEmpty DEF held
<1>4. CASE pending # <<>>
  <2>1. pending \in Chunks /\ text(pending) = pending
    BY <1>1, ChunkTypes DEF OutputTypes
  <2>2. <<pending>> \in Seq(Chunks)
    BY <2>1
  <2>3. Cut(<<pending>>, sent, made)
    BY <1>1, <1>2, <2>1, CutSingle
  <2> QED
    BY <1>4, <2>2, <2>3 DEF held
<1> QED
  BY <1>3, <1>4

\* Nothing is held back after the fragment went out.
LEMMA NothingHeld ==
  ASSUME made' \in Counts, pending' = <<>>
  PROVE  sent' = made' /\ pending' \in Seq(Pieces) /\ Len(pending') <= made' /\ pending' = Run(sent', made')
<1>0. Len(<<>>) = 0
  OBVIOUS
<1>1. Len(pending') = 0
  BY <1>0
<1>5. made' \in Nat
  BY CountsTypes
<1>6. \A n \in Nat : n - 0 = n
  OBVIOUS
<1>2. sent' = made'
  BY <1>1, <1>5, <1>6 DEF sent
<1>3. Run(made', made') = <<>>
  BY <1>5, RunProperties
<1>4. <<>> \in Seq(Pieces)
  OBVIOUS
<1> QED
  BY <1>1, <1>2, <1>3, <1>4, <1>5

\* The fragment goes out by itself, or before a marker.
LEMMA FragmentOut ==
  ASSUME SessionInv, ~closed, pending' = <<>>, made' = made,
         NEW marker \in Markers, emit(held) \/ emit(held \o <<marker>>)
  PROVE  OutputStep
<1>1. OutputTypes /\ Len(pending) <= made
  BY DEF SessionInv, RingCut, Shape
<1>2. sent \in Counts /\ made \in Counts /\ made \in Nat
  BY <1>1, SentType
<1>3. sent' = made /\ pending' \in Seq(Pieces) /\ Len(pending') <= made' /\ pending' = Run(sent', made')
  BY <1>2, NothingHeld
<1>4. held \in Seq(Chunks) /\ Cut(held, sent, made)
  BY HeldOut
<1>5. held \o <<marker>> \in Seq(Chunks) /\ Cut(held \o <<marker>>, sent, made)
  <2>1. marker \in Chunks /\ text(marker) = <<>>
    BY ChunkTypes
  <2>2. Run(made, made) = <<>> /\ made <= made
    BY <1>2, RunProperties
  <2>3. Cut(<<marker>>, made, made)
    BY <1>2, <2>1, <2>2, CutSingle
  <2>4. <<marker>> \in Seq(Chunks)
    BY <2>1
  <2> QED
    BY <1>4, <2>3, <2>4, CutConcat, ConcatProperties
<1> QED
  BY <1>2, <1>3, <1>4, <1>5 DEF OutputStep

\* An end or error marker, with the fragment before it (broadcastMarker).
LEMMA MarkerOut ==
  ASSUME SessionInv, ~closed, NEW marker \in Markers, broadcastMarker(marker)
  PROVE  OutputStep
BY FragmentOut DEF broadcastMarker

\* New output, which goes out up to its last newline (broadcast).
LEMMA PieceOut ==
  ASSUME SessionInv, ~closed, broadcast
  PROVE  OutputStep
<1> DEFINE k == made + 1
           line == Append(pending, k)
<1>1. OutputTypes /\ Len(pending) <= made /\ pending = Run(sent, made)
  BY DEF SessionInv, RingCut, Shape
<1>2. sent \in Counts /\ made \in Counts /\ sent <= made /\ sent \in Nat /\ made \in Nat /\ MaxPieces \in Nat
  BY <1>1, SentType, CapsAssumption
<1>3. CASE k > MaxPieces
  <2>1. UNCHANGED output
    BY <1>3 DEF broadcast
  <2> QED
    BY <1>1, <1>2, <2>1 DEF output, OutputStep, OutputTypes, sent
<1>4. CASE ~(k > MaxPieces)
  <2>1. k \in Nat /\ k \in Counts /\ k \in Pieces /\ sent <= k
    BY <1>2, <1>4 DEF Counts, Pieces
  <2>2. line = Run(sent, k)
    BY <1>1, <1>2, RunAppend
  <2>3. line \in Seq(Pieces) /\ Len(line) = Len(pending) + 1
    BY <1>1, <2>1, AppendProperties DEF OutputTypes
  <2>4. <<line>> \in Seq(Chunks) /\ Cut(<<line>>, sent, k)
    <3>1. line \in Chunks /\ text(line) = line
      BY <2>3, ChunkTypes
    <3> HIDE DEF line, k
    <3>2. <<line>> \in Seq(Chunks)
      BY <3>1
    <3> QED
      BY <1>2, <2>1, <2>2, <3>1, <3>2, CutSingle
  <2>5. \/ emit(<<line>>) /\ pending' = <<>> /\ made' = k
        \/ k < MaxPieces /\ emit(<<line>>) /\ pending' = <<k + 1>> /\ made' = k + 1
        \/ pending' = line /\ made' = k /\ UNCHANGED <<ring, chan, lossy>>
    BY <1>4 DEF broadcast
  <2> HIDE DEF line, k
  <2>6. CASE emit(<<line>>) /\ pending' = <<>> /\ made' = k
    <3>1. sent' = k /\ pending' \in Seq(Pieces) /\ Len(pending') <= made' /\ pending' = Run(sent', made')
      BY <2>1, <2>6, NothingHeld
    <3> QED
      BY <2>1, <2>4, <2>6, <3>1 DEF OutputStep
  <2>7. CASE k < MaxPieces /\ emit(<<line>>) /\ pending' = <<k + 1>> /\ made' = k + 1
    <3>1. made' \in Counts /\ k + 1 \in Pieces
      BY <1>2, <2>1, <2>7 DEF Counts, Pieces
    <3>2. Len(pending') = 1 /\ pending' \in Seq(Pieces)
      BY <2>7, <3>1
    <3>3. sent' = k
      BY <2>1, <2>7, <3>2 DEF sent
    <3>4. Run(k, k + 1) = <<k + 1>>
      <4>1. Run(k, k) = <<>>
        BY <2>1, RunProperties
      <4>2. Append(Run(k, k), k + 1) = Run(k, k + 1)
        BY <2>1, RunAppend
      <4>3. Append(<<>>, k + 1) = <<k + 1>>
        OBVIOUS
      <4> QED
        BY <4>1, <4>2, <4>3
    <3>5. Len(pending') <= made' /\ pending' = Run(sent', made')
      BY <2>1, <2>7, <3>2, <3>3, <3>4
    <3>6. emit(<<line>>) /\ Cut(<<line>>, sent, sent')
      BY <2>4, <2>7, <3>3
    <3> QED
      BY <2>4, <3>1, <3>2, <3>5, <3>6 DEF OutputStep
  <2>8. CASE pending' = line /\ made' = k /\ UNCHANGED <<ring, chan, lossy>>
    <3>1. sent' = sent
      <4>1. sent' = k - Len(line)
        BY <2>8 DEF sent
      <4>2. Len(pending) \in Nat
        BY <1>1 DEF OutputTypes
      <4> QED
        BY <1>2, <2>3, <4>1, <4>2 DEF k, sent
    <3>2. Len(line) <= k
      <4>1. Len(pending) \in Nat
        BY <1>1 DEF OutputTypes
      <4> QED
        BY <1>1, <1>2, <2>3, <4>1 DEF k
    <3> QED
      BY <2>1, <2>2, <2>3, <2>8, <3>1, <3>2 DEF OutputStep
  <2> QED
    BY <2>5, <2>6, <2>7, <2>8
<1> QED
  BY <1>3, <1>4

\* Output reaches the ring and every subscriber.
LEMMA OutputPreserves ==
  ASSUME SessionInv, ~closed, OutputStep, UNCHANGED <<closed, subs, chanSt, got>>
  PROVE  OutputTypes' /\ RingCut' /\ ChanCut' /\ \A u \in Subscribers \ subs : chan'[u] = chan[u]
<1>1. OutputTypes /\ OtherTypes /\ Len(pending) <= made
  BY DEF SessionInv, RingCut, Shape
<1>2. PICK a \in Counts : Cut(ring, a, sent)
  BY DEF SessionInv, RingCut
<1>3. \A u \in subs \ lossy : \E b, d \in Counts : b <= d /\ got[u] = Run(b, d) /\ Cut(chan[u], d, sent)
  BY DEF SessionInv, ChanCut
<1>4. made' \in 0..MaxPieces /\ pending' \in Seq(Pieces) /\ Len(pending') <= made' /\ pending' = Run(sent', made')
  BY DEF OutputStep, Counts
<1>5. CASE UNCHANGED <<ring, chan, lossy>> /\ sent' = sent
  <2>1. OutputTypes'
    BY <1>1, <1>4, <1>5 DEF OutputTypes
  <2>2. RingCut'
    BY <1>2, <1>4, <1>5 DEF RingCut
  <2>3. ChanCut'
    BY <1>3, <1>5 DEF ChanCut
  <2> QED
    BY <1>5, <2>1, <2>2, <2>3
<1>6. ASSUME NEW items \in Seq(Chunks), emit(items), Cut(items, sent, sent')
      PROVE  OutputTypes' /\ RingCut' /\ ChanCut' /\ \A u \in Subscribers \ subs : chan'[u] = chan[u]
  <2>1. /\ ring' = lastOf(ring \o items, RingCap)
        /\ chan' = [u \in Subscribers |-> IF u \in subs THEN firstOf(chan[u] \o items, ChanCap) ELSE chan[u]]
        /\ lossy' = lossy \cup {u \in subs : Len(chan[u] \o items) > ChanCap}
    BY <1>6 DEF emit
  <2>2. RingCap \in Nat \ {0} /\ ChanCap \in Nat
    BY CapsAssumption
  <2>3. ring \o items \in Seq(Chunks) /\ \A u \in Subscribers : chan[u] \in Seq(Chunks) /\ chan[u] \o items \in Seq(Chunks)
    BY <1>1, ConcatProperties DEF OutputTypes
  <2>4. ring' \in Seq(Chunks) /\ Len(ring') <= RingCap
    BY <2>1, <2>2, <2>3, LastOfType
  <2>5. ASSUME NEW u \in Subscribers
        PROVE  firstOf(chan[u] \o items, ChanCap) \in Seq(Chunks) /\ Len(firstOf(chan[u] \o items, ChanCap)) <= ChanCap
               /\ (Len(chan[u] \o items) <= ChanCap => firstOf(chan[u] \o items, ChanCap) = chan[u] \o items)
    BY <2>2, <2>3, FirstOfType
  <2>6. OutputTypes'
    <3>1. chan' \in [Subscribers -> Seq(Chunks)]
      BY <2>1, <2>3, <2>5
    <3>2. ASSUME NEW u \in Subscribers PROVE Len(chan'[u]) <= ChanCap
      BY <1>1, <2>1, <2>5 DEF OutputTypes
    <3>3. lossy' \subseteq Subscribers
      BY <1>1, <2>1 DEF OutputTypes, OtherTypes
    <3> QED
      BY <1>4, <2>4, <3>1, <3>2, <3>3 DEF OutputTypes
  <2>7. RingCut'
    <3>1. Cut(ring \o items, a, sent')
      BY <1>1, <1>2, <1>6, CutConcat DEF OutputTypes
    <3>2. \E b \in Counts : Cut(lastOf(ring \o items, RingCap), b, sent')
      BY <2>2, <2>3, <3>1, LastOfType
    <3> QED
      BY <1>4, <2>1, <3>2 DEF RingCut
  <2>8. ChanCut'
    <3>1. ASSUME NEW u \in subs' \ lossy'
          PROVE  \E b, d \in Counts : b <= d /\ got'[u] = Run(b, d) /\ Cut(chan'[u], d, sent')
      <4>1. u \in subs \ lossy /\ u \in Subscribers /\ ~(Len(chan[u] \o items) > ChanCap)
        BY <1>1, <2>1, <3>1 DEF OtherTypes
      <4>2. Len(chan[u] \o items) <= ChanCap
        <5>1. Len(chan[u] \o items) \in Nat
          BY <2>3, <4>1, LenProperties
        <5> QED
          BY <2>2, <4>1, <5>1
      <4>3. PICK b, d \in Counts : b <= d /\ got[u] = Run(b, d) /\ Cut(chan[u], d, sent)
        BY <1>3, <4>1
      <4>4. chan'[u] = chan[u] \o items
        BY <2>1, <2>5, <4>1, <4>2
      <4>5. Cut(chan[u] \o items, d, sent')
        BY <1>6, <2>3, <4>1, <4>3, CutConcat
      <4> QED
        BY <4>3, <4>4, <4>5
    <3> QED
      BY <3>1 DEF ChanCut
  <2>9. \A u \in Subscribers \ subs : chan'[u] = chan[u]
    BY <2>1
  <2> QED
    BY <2>6, <2>7, <2>8, <2>9
<1> QED
  BY <1>5, <1>6 DEF OutputStep

-----------------------------------------------------------------------------
(* The steps *)

\* A new session has put nothing out and has no subscribers.
LEMMA Initial == Init => SessionInv
<1> SUFFICES ASSUME Init PROVE SessionInv
  OBVIOUS
<1>1. <<>> \in Seq(Chunks) /\ <<>> \in Seq(Pieces) /\ Len(<<>>) = 0
  OBVIOUS
<1>2. 0 \in Counts /\ 0 \in 0..MaxPieces /\ RingCap \in Nat /\ ChanCap \in Nat /\ 0 \in 0..StdinCap
  BY CapsAssumption DEF Counts
<1>3. OutputTypes /\ OtherTypes
  <2>1. ring = <<>> /\ pending = <<>> /\ made = 0 /\ lossy = {} /\ chan = [u \in Subscribers |-> <<>>]
    BY DEF Init
  <2>2. Len(ring) <= RingCap /\ \A u \in Subscribers : Len(chan[u]) <= ChanCap
    <3>1. \A n \in Nat : 0 <= n
      OBVIOUS
    <3> QED
      BY <1>1, <1>2, <2>1, <3>1
  <2>3. chan \in [Subscribers -> Seq(Chunks)]
    BY <1>1, <2>1
  <2>4. OutputTypes
    BY <1>1, <1>2, <2>1, <2>2, <2>3 DEF OutputTypes
  <2>5. got \in [Subscribers -> Seq(Pieces)]
    BY <1>1 DEF Init
  <2>6. OtherTypes
    BY <1>2, <2>5 DEF Init, OtherTypes
  <2> QED
    BY <2>4, <2>6
<1>4. sent = 0 /\ Run(0, 0) = <<>>
  <2>1. 0 \in Nat /\ 0 <= 0 /\ 0 - 0 = 0
    OBVIOUS
  <2>2. sent = 0
    BY <1>1, <2>1 DEF Init, sent
  <2>3. Run(0, 0) = <<>>
    BY <2>1, RunProperties
  <2> QED
    BY <2>2, <2>3
<1>5. Cut(<<>>, 0, 0)
  BY <1>2, CutEmpty
<1>6. Members
  BY DEF Init, Members, ChannelsSafe
<1>7. RingCut
  BY <1>1, <1>2, <1>4, <1>5 DEF Init, RingCut
<1>8. ChanCut
  BY DEF Init, ChanCut
<1> QED
  BY <1>3, <1>6, <1>7, <1>8 DEF SessionInv, Shape

\* A step that touches neither the output nor the subscribers.
LEMMA QuietPreserves ==
  ASSUME SessionInv, UNCHANGED <<closed, output, membership, got>>, OtherTypes'
  PROVE  SessionInv'
<1>1. OutputTypes
  BY DEF SessionInv, Shape
<1>2. UNCHANGED <<closed, made, pending, ring, chan, lossy, subs, chanSt, got>>
  BY DEF output, membership
<1>3. OutputTypes' /\ sent' = sent
  <2>1. OutputTypes'
    BY <1>1, <1>2 DEF OutputTypes
  <2>2. sent' = sent
    BY <1>2 DEF sent
  <2> QED
    BY <2>1, <2>2
<1>4. Shape'
  BY <1>3 DEF Shape
<1>5. Members'
  BY <1>2 DEF SessionInv, Members, ChannelsSafe
<1>6. RingCut' /\ ChanCut'
  BY <1>2, <1>3 DEF SessionInv, RingCut, ChanCut
<1> QED
  BY <1>4, <1>5, <1>6 DEF SessionInv

\* A step that puts something out, or does nothing to a closed session.
LEMMA BroadcastPreserves ==
  ASSUME SessionInv, UNCHANGED <<closed, membership, got>>, OtherTypes',
         UNCHANGED output \/ (~closed /\ OutputStep)
  PROVE  SessionInv'
<1>1. CASE UNCHANGED output
  BY <1>1, QuietPreserves
<1>2. CASE ~closed /\ OutputStep
  <2>1. UNCHANGED <<closed, subs, chanSt, got>>
    BY DEF membership
  <2>2. OutputTypes' /\ RingCut' /\ ChanCut' /\ \A u \in Subscribers \ subs : chan'[u] = chan[u]
    BY <1>2, <2>1, OutputPreserves
  <2>3. Shape'
    BY <2>2 DEF Shape
  <2>4. Members'
    <3>1. Members
      BY DEF SessionInv
    <3>2. closed' => subs' = {} /\ pending' = <<>>
      BY <1>2
    <3>3. ChannelsSafe'
      BY <2>1, <3>1 DEF Members, ChannelsSafe
    <3>4. ASSUME NEW u \in Subscribers, chanSt'[u] = "none"
          PROVE  got'[u] = <<>> /\ chan'[u] = <<>> /\ u \notin subs'
      <4>1. got[u] = <<>> /\ chan[u] = <<>> /\ u \notin subs
        BY <2>1, <3>1, <3>4 DEF Members
      <4> QED
        BY <2>1, <2>2, <4>1
    <3> QED
      BY <3>2, <3>3, <3>4 DEF Members
  <2> QED
    BY <2>2, <2>3, <2>4 DEF SessionInv
<1> QED
  BY <1>1, <1>2

\* A late subscriber is given the ring, and what goes out later goes on from there.
LEMMA SubscribePreserves ==
  ASSUME SessionInv, NEW u \in Subscribers, Subscribe(u)
  PROVE  SessionInv'
<1>1. OutputTypes /\ OtherTypes /\ Members /\ RingCut /\ ChanCut
  BY DEF SessionInv, Shape
<1>2. /\ chanSt[u] = "none"
      /\ chan' = [chan EXCEPT ![u] = firstOf(ring, ChanCap)]
      /\ chanSt' = [chanSt EXCEPT ![u] = IF closed THEN "closed" ELSE "open"]
      /\ subs' = IF closed THEN subs ELSE subs \cup {u}
      /\ UNCHANGED <<closed, made, pending, ring, lossy, stdin, attach, pc, got>>
  BY DEF Subscribe
<1>3. firstOf(ring, ChanCap) = ring /\ Len(ring) <= ChanCap
  <2>1. Len(ring) <= ChanCap
    <3>1. Len(ring) \in Nat /\ RingCap \in Nat /\ ChanCap \in Nat /\ Len(ring) <= RingCap /\ RingCap <= ChanCap
      BY <1>1, CapsAssumption DEF OutputTypes
    <3> QED
      BY <3>1
  <2> QED
    BY <1>1, <2>1, FirstOfType, CapsAssumption DEF OutputTypes
<1>4. sent' = sent
  BY <1>2 DEF sent
<1>5. Shape'
  <2>1. OutputTypes'
    BY <1>1, <1>2, <1>3 DEF OutputTypes
  <2>2. OtherTypes'
    BY <1>1, <1>2 DEF OtherTypes
  <2> QED
    BY <2>1, <2>2 DEF Shape
<1>6. Members'
  BY <1>1, <1>2 DEF Members, ChannelsSafe, OtherTypes
<1>7. RingCut'
  BY <1>1, <1>2, <1>4 DEF RingCut
<1>8. ASSUME ~closed', NEW v \in subs' \ lossy'
      PROVE  \E a, b \in Counts : a <= b /\ got'[v] = Run(a, b) /\ Cut(chan'[v], b, sent')
  <2>1. CASE v = u
    <3>1. PICK a \in Counts : Cut(ring, a, sent)
      BY <1>1, <1>2, <1>8 DEF RingCut
    <3>2. got'[u] = <<>> /\ chan'[u] = ring
      BY <1>1, <1>2, <1>3 DEF Members, OutputTypes
    <3>3. Run(a, a) = <<>> /\ a <= a
      BY CountsTypes, RunProperties
    <3> QED
      BY <1>4, <2>1, <3>1, <3>2, <3>3
  <2>2. CASE v # u
    <3>1. v \in subs \ lossy /\ v \in Subscribers /\ got'[v] = got[v] /\ chan'[v] = chan[v]
      BY <1>1, <1>2, <1>8, <2>2 DEF OtherTypes, OutputTypes
    <3> QED
      BY <1>1, <1>2, <1>4, <1>8, <3>1 DEF ChanCut
  <2> QED
    BY <2>1, <2>2
<1>9. ChanCut'
  BY <1>8 DEF ChanCut
<1> QED
  BY <1>5, <1>6, <1>7, <1>9 DEF SessionInv

\* What a subscriber takes from the front of its channel joins what it has.
LEMMA ReceivePreserves ==
  ASSUME SessionInv, NEW u \in Subscribers, Receive(u)
  PROVE  SessionInv'
<1>1. OutputTypes /\ OtherTypes /\ Members /\ RingCut /\ ChanCut
  BY DEF SessionInv, Shape
<1> DEFINE x == Head(chan[u])
<1>2. /\ chan[u] # <<>> /\ chan[u] \in Seq(Chunks)
      /\ chan' = [chan EXCEPT ![u] = Tail(chan[u])]
      /\ got' = IF x \in Markers THEN got ELSE [got EXCEPT ![u] = got[u] \o x]
      /\ UNCHANGED <<closed, made, pending, ring, lossy, subs, chanSt, stdin, attach, pc>>
  BY <1>1 DEF Receive, membership, OutputTypes
<1>3. /\ x \in Chunks /\ Tail(chan[u]) \in Seq(Chunks)
      /\ Len(Tail(chan[u])) = Len(chan[u]) - 1
  BY <1>2, HeadTailProperties
<1>4. text(x) \in Seq(Pieces) /\ got[u] \in Seq(Pieces) /\ got[u] \o text(x) \in Seq(Pieces)
  <2>1. text(x) \in Seq(Pieces) /\ got[u] \in Seq(Pieces)
    BY <1>1, <1>3, ChunkTypes DEF OtherTypes
  <2> HIDE DEF x
  <2> QED
    BY <2>1, ConcatProperties
<1> HIDE DEF x
<1>5. got'[u] = got[u] \o text(x) /\ got' \in [Subscribers -> Seq(Pieces)]
      /\ \A v \in Subscribers : v # u => got'[v] = got[v]
  <2>1. got \in [Subscribers -> Seq(Pieces)]
    BY <1>1 DEF OtherTypes
  <2>2. CASE x \in Markers
    <3>1. text(x) = <<>> /\ got' = got
      BY <1>2, <2>2 DEF text
    <3>2. got[u] \o <<>> = got[u]
      BY <1>4, ConcatEmptySeq
    <3> QED
      BY <2>1, <3>1, <3>2
  <2>3. CASE x \notin Markers
    <3>1. text(x) = x /\ got' = [got EXCEPT ![u] = got[u] \o x]
      BY <1>2, <2>3 DEF text
    <3> QED
      BY <1>4, <2>1, <3>1
  <2> QED
    BY <2>2, <2>3
<1>6. sent' = sent
  BY <1>2 DEF sent
<1>7. Shape'
  <2>1. Len(Tail(chan[u])) <= ChanCap
    <3>1. Len(chan[u]) \in Nat /\ Len(chan[u]) <= ChanCap /\ ChanCap \in Nat
      BY <1>1, <1>2, CapsAssumption DEF OutputTypes
    <3> QED
      BY <1>3, <3>1
  <2>2. OutputTypes'
    BY <1>1, <1>2, <1>3, <2>1 DEF OutputTypes
  <2>3. OtherTypes'
    BY <1>1, <1>2, <1>5 DEF OtherTypes
  <2> QED
    BY <2>2, <2>3 DEF Shape
<1>8. ASSUME NEW v \in subs \ lossy, ~closed
      PROVE  \E a, b \in Counts : a <= b /\ got'[v] = Run(a, b) /\ Cut(chan'[v], b, sent')
  <2>0. v \in Subscribers
    BY <1>1, <1>8 DEF OtherTypes
  <2>1. PICK a, b \in Counts : a <= b /\ got[v] = Run(a, b) /\ Cut(chan[v], b, sent)
    BY <1>1, <1>8 DEF ChanCut
  <2>2. CASE v = u
    <3>1. PICK d \in Counts : b <= d /\ text(x) = Run(b, d) /\ Cut(Tail(chan[u]), d, sent)
      BY <1>2, <2>1, <2>2, CutHead DEF x
    <3>2. a \in Nat /\ b \in Nat /\ d \in Nat /\ a <= d
      BY <2>1, <3>1, CountsTypes
    <3>3. Run(a, b) \o Run(b, d) = Run(a, d)
      BY <2>1, <3>1, <3>2, RunConcat
    <3>4. got'[u] = Run(a, d) /\ chan'[u] = Tail(chan[u])
      BY <1>1, <1>2, <1>5, <2>1, <2>2, <3>1, <3>3 DEF OutputTypes
    <3> QED
      BY <1>6, <2>2, <3>1, <3>2, <3>4
  <2>3. CASE v # u
    <3>1. got'[v] = got[v] /\ chan'[v] = chan[v]
      BY <1>1, <1>2, <1>5, <2>0, <2>3 DEF OutputTypes
    <3> QED
      BY <1>6, <2>1, <3>1
  <2> QED
    BY <2>2, <2>3
<1>9. ChanCut'
  BY <1>2, <1>8 DEF ChanCut
<1>10. RingCut'
  BY <1>1, <1>2, <1>6 DEF RingCut
<1>11. Members'
  <2>1. chanSt[u] # "none"
    BY <1>1, <1>2 DEF Members
  <2> QED
    BY <1>1, <1>2, <1>5, <2>1 DEF Members, ChannelsSafe
<1> QED
  BY <1>7, <1>9, <1>10, <1>11 DEF SessionInv

\* A subscriber that leaves; its channel is closed unless close was faster.
LEMMA UnsubscribePreserves ==
  ASSUME SessionInv, NEW u \in Subscribers, Unsubscribe(u)
  PROVE  SessionInv'
<1>1. OutputTypes /\ OtherTypes /\ Members /\ RingCut /\ ChanCut
  BY DEF SessionInv, Shape
<1>2. /\ chanSt[u] # "none"
      /\ chanSt' = [v \in Subscribers |-> IF v \notin {u} \cap subs THEN chanSt[v]
                                          ELSE IF chanSt[v] = "open" THEN "closed" ELSE "panic"]
      /\ subs' = subs \ {u}
      /\ UNCHANGED <<closed, made, pending, ring, chan, lossy, stdin, attach, pc, got>>
  BY DEF Unsubscribe, closeChans, output
<1>3. sent' = sent
  BY <1>2 DEF sent
<1>4. Shape'
  <2>1. OutputTypes'
    BY <1>1, <1>2 DEF OutputTypes
  <2>2. OtherTypes'
    BY <1>1, <1>2 DEF OtherTypes
  <2> QED
    BY <2>1, <2>2 DEF Shape
<1>5. Members'
  <2>1. ASSUME NEW v \in Subscribers
        PROVE  /\ v \in subs' => chanSt'[v] = "open"
               /\ chanSt'[v] # "panic"
               /\ chanSt'[v] = "none" => chanSt[v] = "none"
    BY <1>1, <1>2 DEF Members, ChannelsSafe
  <2>2. ChannelsSafe'
    <3>1. subs' \subseteq Subscribers
      BY <1>1, <1>2 DEF OtherTypes
    <3> QED
      BY <2>1, <3>1 DEF ChannelsSafe
  <2> QED
    BY <1>1, <1>2, <2>1, <2>2 DEF Members
<1>6. RingCut'
  BY <1>1, <1>2, <1>3 DEF RingCut
<1>7. ChanCut'
  BY <1>1, <1>2, <1>3 DEF ChanCut
<1> QED
  BY <1>4, <1>5, <1>6, <1>7 DEF SessionInv, Shape

\* close: every channel of the list is open, and is closed once; a session that
\* is closed already is left alone.
LEMMA ClosePreserves ==
  ASSUME SessionInv, close, UNCHANGED got, stdin' \in 0..StdinCap,
         attach' \in {"running", "ended", "closing", "done"}, pc' \in [Typists -> {"idle", "select", "echo"}]
  PROVE  SessionInv'
<1>1. OutputTypes /\ OtherTypes /\ Members
  BY DEF SessionInv, Shape
<1>2. CASE closed
  <2>1. UNCHANGED <<closed, output, membership, got>>
    BY <1>1, <1>2 DEF close, output, OtherTypes
  <2>2. OtherTypes'
    BY <1>1, <2>1 DEF OtherTypes, membership
  <2> QED
    BY <2>1, <2>2, QuietPreserves
<1>3. CASE ~closed
  <2>1. /\ closed' = TRUE /\ pending' = <<>> /\ subs' = {}
        /\ chanSt' = [v \in Subscribers |-> IF v \notin subs THEN chanSt[v]
                                            ELSE IF chanSt[v] = "open" THEN "closed" ELSE "panic"]
        /\ UNCHANGED <<made, ring, chan, lossy, got>>
    BY <1>3 DEF close, closeChans
  <2>2. OutputTypes'
    <3>1. <<>> \in Seq(Pieces)
      OBVIOUS
    <3> QED
      BY <1>1, <2>1, <3>1 DEF OutputTypes
  <2>3. OtherTypes'
    BY <1>1, <2>1 DEF OtherTypes
  <2>4. ASSUME NEW v \in Subscribers
        PROVE  chanSt'[v] # "panic" /\ (chanSt'[v] = "none" => chanSt[v] = "none")
    BY <1>1, <2>1 DEF Members, ChannelsSafe
  <2>5. Members'
    BY <1>1, <2>1, <2>4 DEF Members, ChannelsSafe
  <2>6. RingCut' /\ ChanCut'
    BY <2>1 DEF RingCut, ChanCut
  <2> QED
    BY <2>2, <2>3, <2>5, <2>6 DEF SessionInv, Shape
<1> QED
  BY <1>2, <1>3

\* Every step of the session, its console process and its clients.
LEMMA Inductive == SessionInv /\ [Next]_vars => SessionInv'
<1> SUFFICES ASSUME SessionInv, [Next]_vars PROVE SessionInv'
  OBVIOUS
<1>0. OtherTypes
  BY DEF SessionInv, Shape
<1>1. CASE FlushPending
  <2>1. ~closed /\ emit(held) /\ pending' = <<>> /\ UNCHANGED <<closed, made, membership, stdin, attach, pc, got>>
    BY <1>1 DEF FlushPending
  <2>2. End \in Markers
    BY DEF Markers
  <2>3. OutputStep
    BY <2>1, <2>2, FragmentOut
  <2>4. OtherTypes'
    BY <1>0, <2>1 DEF OtherTypes, membership
  <2> QED
    BY <2>1, <2>3, <2>4, BroadcastPreserves
<1>2. CASE AttachOutput
  <2>1. broadcast /\ UNCHANGED <<closed, membership, stdin, attach, pc, got>>
    BY <1>2 DEF AttachOutput
  <2>2. UNCHANGED output \/ (~closed /\ OutputStep)
    <3>1. CASE closed
      BY <2>1, <3>1 DEF broadcast
    <3>2. CASE ~closed
      BY <2>1, <3>2, PieceOut
    <3> QED
      BY <3>1, <3>2
  <2>3. OtherTypes'
    BY <1>0, <2>1 DEF OtherTypes, membership
  <2> QED
    BY <2>1, <2>2, <2>3, BroadcastPreserves
<1>3. CASE AttachInput
  <2>1. UNCHANGED <<closed, output, membership, attach, pc, got>> /\ stdin > 0 /\ stdin' = stdin - 1
    BY <1>3 DEF AttachInput
  <2>2. stdin' \in 0..StdinCap
    BY <1>0, <2>1, CapsAssumption DEF OtherTypes
  <2>3. OtherTypes'
    BY <1>0, <2>1, <2>2 DEF OtherTypes, membership
  <2> QED
    BY <2>1, <2>3, QuietPreserves
<1>4. CASE AttachExit
  <2>1. /\ attach' = "ended" /\ UNCHANGED <<closed, membership, stdin, pc, got>>
        /\ broadcastMarker(Error) \/ UNCHANGED output
    BY <1>4 DEF AttachExit
  <2>2. UNCHANGED output \/ (~closed /\ OutputStep)
    <3>1. Error \in Markers
      BY DEF Markers
    <3>2. CASE broadcastMarker(Error) /\ closed
      BY <3>2 DEF broadcastMarker
    <3>3. CASE broadcastMarker(Error) /\ ~closed
      BY <3>1, <3>3, MarkerOut
    <3> QED
      BY <2>1, <3>2, <3>3
  <2>3. OtherTypes'
    BY <1>0, <2>1 DEF OtherTypes, membership
  <2> QED
    BY <2>1, <2>2, <2>3, BroadcastPreserves
<1>5. CASE AttachEnd
  <2>1. /\ attach' = "closing" /\ UNCHANGED <<closed, membership, stdin, pc, got>>
        /\ broadcastMarker(End)
    BY <1>5 DEF AttachEnd
  <2>2. UNCHANGED output \/ (~closed /\ OutputStep)
    <3>1. End \in Markers
      BY DEF Markers
    <3>2. CASE closed
      BY <2>1, <3>2 DEF broadcastMarker
    <3>3. CASE ~closed
      BY <2>1, <3>1, <3>3, MarkerOut
    <3> QED
      BY <3>2, <3>3
  <2>3. OtherTypes'
    BY <1>0, <2>1 DEF OtherTypes, membership
  <2> QED
    BY <2>1, <2>2, <2>3, BroadcastPreserves
<1>6. CASE AttachClose
  <2>1. close /\ attach' = "done" /\ UNCHANGED <<stdin, pc, got>>
    BY <1>6 DEF AttachClose
  <2> QED
    BY <1>0, <2>1, ClosePreserves DEF OtherTypes
<1>7. CASE CloseByOther
  <2>1. close /\ UNCHANGED <<stdin, attach, pc, got>>
    BY <1>7 DEF CloseByOther
  <2> QED
    BY <1>0, <2>1, ClosePreserves DEF OtherTypes
<1>8. CASE \E u \in Subscribers : Subscribe(u) \/ Receive(u) \/ Unsubscribe(u)
  BY <1>8, SubscribePreserves, ReceivePreserves, UnsubscribePreserves
<1>9. ASSUME NEW t \in Typists, InputCheck(t) \/ InputSelect(t)
      PROVE  SessionInv'
  <2>1. /\ UNCHANGED <<closed, output, membership, attach, got>>
        /\ stdin' \in 0..StdinCap
        /\ pc' \in [Typists -> {"idle", "select", "echo"}]
    <3>1. stdin \in 0..StdinCap /\ pc \in [Typists -> {"idle", "select", "echo"}] /\ StdinCap \in Nat
      BY <1>0, CapsAssumption DEF OtherTypes
    <3>2. CASE InputCheck(t)
      BY <3>1, <3>2 DEF InputCheck, goto
    <3>3. CASE InputSelect(t)
      BY <3>1, <3>3 DEF InputSelect, goto
    <3> QED
      BY <1>9, <3>2, <3>3
  <2>2. OtherTypes'
    BY <1>0, <2>1 DEF OtherTypes, membership
  <2> QED
    BY <2>1, <2>2, QuietPreserves
<1>10. ASSUME NEW t \in Typists, InputEcho(t) PROVE SessionInv'
  <2>1. broadcast /\ pc' = [pc EXCEPT ![t] = "idle"] /\ UNCHANGED <<closed, membership, stdin, attach, got>>
    BY <1>10 DEF InputEcho, goto
  <2>2. UNCHANGED output \/ (~closed /\ OutputStep)
    <3>1. CASE closed
      BY <2>1, <3>1 DEF broadcast
    <3>2. CASE ~closed
      BY <2>1, <3>2, PieceOut
    <3> QED
      BY <3>1, <3>2
  <2>3. OtherTypes'
    BY <1>0, <2>1 DEF OtherTypes, membership
  <2> QED
    BY <2>1, <2>2, <2>3, BroadcastPreserves
<1>11. CASE UNCHANGED vars
  <2>1. UNCHANGED <<closed, output, membership, stdin, attach, pc, got>>
    BY <1>11 DEF vars
  <2>2. OtherTypes'
    BY <1>0, <2>1 DEF OtherTypes, membership
  <2> QED
    BY <2>1, <2>2, QuietPreserves
<1> QED
  BY <1>1, <1>2, <1>3, <1>4, <1>5, <1>6, <1>7, <1>8, <1>9, <1>10, <1>11 DEF Next, Input

-----------------------------------------------------------------------------
(* The theorems *)

\* The inductive invariant: what the ring and the channels hold is cut out of
\* the output, and ends where the fragment held back begins.
THEOREM SessionInvariant == Spec => []SessionInv
BY Initial, Inductive, PTL DEF Spec

\* Every variable of a session keeps its type: the ring keeps at most RingCap
\* chunks and no channel exceeds its capacity (emitLocked).
THEOREM TypeCorrect == Spec => []TypeOK
<1>1. SessionInv => TypeOK
  BY ShapeIsTyped DEF SessionInv
<1> QED
  BY <1>1, SessionInvariant, PTL

\* What the ring of a live session replays, followed by the fragment held back,
\* is the latest output, in its order (broadcast, flushPending).
THEOREM OutputInOrder == Spec => []RingInOrder
<1>1. SessionInv => RingInOrder
  <2>1. SUFFICES ASSUME SessionInv, ~closed PROVE latest(pieces(ring) \o pending, made)
    BY DEF RingInOrder
  <2>2. OutputTypes /\ Len(pending) <= made /\ pending = Run(sent, made)
    BY <2>1 DEF SessionInv, Shape, RingCut
  <2>3. PICK a \in Counts : Cut(ring, a, sent)
    BY <2>1 DEF SessionInv, RingCut
  <2>4. sent \in Nat /\ made \in Nat /\ sent <= made
    BY <2>2, SentType
  <2>5. a \in Nat /\ a <= sent /\ pieces(ring) = Run(a, sent)
    BY <2>2, <2>3, CutPieces, CountsTypes DEF OutputTypes
  <2>6. a <= made
    BY <2>4, <2>5
  <2>7. pieces(ring) \o pending = Run(a, made)
    BY <2>2, <2>4, <2>5, RunConcat
  <2> QED
    BY <2>4, <2>5, <2>6, <2>7, RunIsLatest
<1> QED
  BY <1>1, SessionInvariant, PTL

\* What a subscriber received, followed by what waits in its channel, is the
\* latest output that went out, without a gap or a repetition between the replay
\* and the live chunks, unless its channel was full at a send (subscribe).
THEOREM ReplayJoins == Spec => []ReplayJoinsLive
<1>1. SessionInv => ReplayJoinsLive
  <2>1. SUFFICES ASSUME SessionInv, NEW u \in subs \ lossy PROVE latest(got[u] \o pieces(chan[u]), sent)
    BY DEF ReplayJoinsLive, sent
  <2>2. u \in Subscribers /\ ~closed /\ OutputTypes /\ chan[u] \in Seq(Chunks)
    BY <2>1 DEF SessionInv, Shape, OutputTypes, OtherTypes, Members
  <2>3. PICK a, b \in Counts : a <= b /\ got[u] = Run(a, b) /\ Cut(chan[u], b, sent)
    BY <2>1, <2>2 DEF SessionInv, ChanCut
  <2>4. Len(pending) <= made
    BY <2>1, <2>2 DEF SessionInv, RingCut
  <2>5. sent \in Nat
    BY <2>2, <2>4, SentType
  <2>6. b <= sent /\ pieces(chan[u]) = Run(b, sent)
    BY <2>2, <2>3, CutPieces
  <2>7. a \in Nat /\ b \in Nat
    BY <2>3, CountsTypes
  <2>8. a <= sent
    BY <2>3, <2>5, <2>6, <2>7
  <2>9. got[u] \o pieces(chan[u]) = Run(a, sent)
    BY <2>3, <2>5, <2>6, <2>7, RunConcat
  <2> QED
    BY <2>5, <2>7, <2>8, <2>9, RunIsLatest
<1> QED
  BY <1>1, SessionInvariant, PTL

\* No send and no close of a channel panics, in whatever order the session is
\* closed and its subscribers leave (close, and the function subscribe returns).
THEOREM ChannelsNeverPanic == Spec => []ChannelsSafe
<1>1. SessionInv => ChannelsSafe
  BY DEF SessionInv, Members
<1> QED
  BY <1>1, SessionInvariant, PTL
=============================================================================
