-------------------------- MODULE FrontDoorProofs ---------------------------
(***************************************************************************)
(* What stands between a client and the node, behind each of its doors.    *)
(*                                                                         *)
(* The token buckets of internal/auth and the audit log do what they       *)
(* promise for any rates, bursts, addresses and keys.  What was let        *)
(* through since any moment is bounded, although a full map forgets        *)
(* buckets: the bound alone is not inductive; what has been let through    *)
(* and what the bucket would still give, together, stay below it.          *)
(*                                                                         *)
(* A configuration wings starts with has the keys of its file, for any     *)
(* file: reading is followed line by line, and a key or role that went to  *)
(* the wrong entry leaves another one without, which Validate refuses.     *)
(*                                                                         *)
(* A websocket, and the console that uses it: that at most one close frame *)
(* goes out is not inductive by itself, it rests on who is about to send   *)
(* one, which the swap of the flag grants to a single actor, once.  The    *)
(* console uses a connection as WsConn says, so what is proved of the      *)
(* handshake holds of it.                                                  *)
(*                                                                         *)
(* At last the doors side by side: the invariants of the parts hold        *)
(* together, of every behaviour of FrontDoor.                              *)
(***************************************************************************)
EXTENDS FrontDoor, PathJailProofs

\* What a limiter would let id have at this moment.
available(map, id, rate, burst) ==
  IF id \in DOMAIN map THEN refilled(map[id], rate, burst).tokens ELSE burst

Buckets(map, burst) ==
  \A x \in DOMAIN map : map[x] \in [tokens : 0..burst, last : 0..now]

countOf(map, id) == IF id \in DOMAIN map THEN map[id] ELSE 0

LimitInv ==
  /\ now \in Nat /\ window \in 0..now
  /\ Buckets(clients, IpBurst) /\ Buckets(keys, KeyBurst)
  /\ byHost \in [Hosts -> Nat]
  /\ \A id \in DOMAIN byKey : byKey[id] \in Nat
  /\ \A h \in Hosts :
       byHost[h] * Cost + available(clients, h, IpRate, IpBurst)
         <= IpBurst + IpRate * (now - window)
  /\ \A id :
       countOf(byKey, id) * Cost + available(keys, id, KeyRate, KeyBurst)
         <= KeyBurst + KeyRate * (now - window)

-----------------------------------------------------------------------------
\* A product grows with its second factor.
LEMMA Monotone ==
  ASSUME NEW a \in Nat, NEW b \in Nat, NEW c \in Nat, b <= c
  PROVE  a * b \in Nat /\ a * c \in Nat /\ a * b <= a * c
<1>1. PICK d \in Nat : c = b + d
  <2>1. c - b \in Nat /\ c = b + (c - b)
    OBVIOUS
  <2> QED
    BY <2>1
<1>2. a * d \in Nat /\ a * b \in Nat /\ a * c = a * b + a * d
  BY <1>1
<1> QED
  BY <1>2

\* What a bucket holds after its refill: no more than the burst, and all of it
\* when the bucket is old.
LEMMA Refill ==
  ASSUME now \in Nat, NEW rate \in Nat, NEW burst \in Nat,
         NEW b \in [tokens : 0..burst, last : 0..now]
  PROVE  /\ refilled(b, rate, burst) \in [tokens : 0..burst, last : 0..now]
         /\ refilled(b, rate, burst).last = now
         /\ \A age \in Nat : b.last < now - age /\ rate * age >= burst =>
              refilled(b, rate, burst).tokens = burst
<1>1. now - b.last \in Nat
  OBVIOUS
<1>2. rate * (now - b.last) \in Nat
  BY <1>1
<1>3. ASSUME NEW age \in Nat, b.last < now - age, rate * age >= burst
      PROVE  rate * (now - b.last) >= burst
  <2>1. age <= now - b.last
    BY <1>3
  <2>2. rate * age \in Nat /\ rate * age <= rate * (now - b.last)
    BY <1>1, <2>1, Monotone
  <2> QED
    BY <1>2, <1>3, <2>2
<1>4. b.tokens \in 0..burst
  OBVIOUS
<1> QED
  BY <1>2, <1>3, <1>4 DEF refilled

\* Making room forgets full buckets only.
LEMMA Room ==
  ASSUME now \in Nat, NEW rate \in Nat, NEW burst \in Nat, NEW age \in Nat, rate * age >= burst,
         NEW map, NEW id, Buckets(map, burst)
  PROVE  /\ Buckets(roomFor(map, id, age), burst)
         /\ id \in DOMAIN map => roomFor(map, id, age) = map
         /\ id \notin DOMAIN map => id \notin DOMAIN roomFor(map, id, age)
         /\ \A x : available(roomFor(map, id, age), x, rate, burst) = available(map, x, rate, burst)
<1> DEFINE small == pruned(map, age)
<1>1. /\ DOMAIN small \subseteq DOMAIN map
      /\ \A x \in DOMAIN small : small[x] = map[x]
      /\ \A x \in DOMAIN map \ DOMAIN small : ~(map[x].last >= now - age)
  BY DEF pruned
<1>2. ASSUME NEW x \in DOMAIN map, x \notin DOMAIN small
      PROVE  refilled(map[x], rate, burst).tokens = burst
  <2>1. map[x] \in [tokens : 0..burst, last : 0..now]
    BY DEF Buckets
  <2>2. map[x].last < now - age
    BY <1>1, <1>2, <2>1
  <2> QED
    BY <2>1, <2>2, Refill
<1>3. \A x : available(small, x, rate, burst) = available(map, x, rate, burst)
  BY <1>1, <1>2 DEF available
<1>4. Buckets(small, burst)
  BY <1>1 DEF Buckets
<1>5. (roomFor(map, id, age) = small /\ id \notin DOMAIN map) \/ roomFor(map, id, age) = map
  BY DEF roomFor
<1> HIDE DEF small
<1> QED
  BY <1>1, <1>3, <1>4, <1>5

\* A bucket that is looked at is refilled, and gives Cost if it has it; the
\* buckets of the others are left as they are.
LEMMA TakeOne ==
  ASSUME now \in Nat, Cost \in Nat,
         NEW rate \in Nat, NEW burst \in Nat, NEW map, NEW id, Buckets(map, burst),
         NEW b, b = refilled(bucketOf(map, id, burst), rate, burst)
  PROVE  /\ b.tokens = available(map, id, rate, burst) /\ b.tokens \in 0..burst
         /\ Buckets(stored(map, id, taken(b)), burst)
         /\ \A x : x # id =>
              available(stored(map, id, taken(b)), x, rate, burst) = available(map, x, rate, burst)
         /\ available(stored(map, id, taken(b)), id, rate, burst)
              = IF b.tokens < Cost THEN b.tokens ELSE b.tokens - Cost
<1> DEFINE Bucketed == [tokens : 0..burst, last : 0..now]
<1>1. bucketOf(map, id, burst) \in Bucketed
  BY DEF bucketOf, Buckets
<1>2. b \in Bucketed /\ b.last = now
  BY <1>1, Refill
<1>3. b.tokens = available(map, id, rate, burst)
  <2>1. CASE id \in DOMAIN map
    BY <2>1 DEF available, bucketOf
  <2>2. CASE id \notin DOMAIN map
    <3>1. bucketOf(map, id, burst) = [tokens |-> burst, last |-> now]
      BY <2>2 DEF bucketOf
    <3>2. rate * (now - now) = 0
      OBVIOUS
    <3> QED
      BY <2>2, <3>1, <3>2 DEF available, refilled
  <2> QED
    BY <2>1, <2>2
<1>4. taken(b) = [tokens |-> IF b.tokens < Cost THEN b.tokens ELSE b.tokens - Cost, last |-> now]
  BY <1>2 DEF taken
<1>5. taken(b) \in Bucketed
  BY <1>2, <1>4
<1> DEFINE new == stored(map, id, taken(b))
<1>6. /\ DOMAIN new = DOMAIN map \cup {id} /\ new[id] = taken(b)
      /\ \A x \in DOMAIN map : x # id => new[x] = map[x]
  BY DEF stored
<1>7. Buckets(new, burst)
  BY <1>5, <1>6 DEF Buckets
<1>8. \A x : x # id => available(new, x, rate, burst) = available(map, x, rate, burst)
  BY <1>6 DEF available
<1>9. available(new, id, rate, burst) = taken(b).tokens
  <2>1. rate * (now - now) = 0 /\ taken(b).last = now /\ taken(b).tokens \in 0..burst
    BY <1>4, <1>5
  <2> QED
    BY <1>6, <2>1 DEF available, refilled
<1> QED
  BY <1>2, <1>3, <1>4, <1>7, <1>8, <1>9

\* Nobody has used a bucket that is not there.
LEMMA NoneUsed ==
  ASSUME NEW rate, NEW burst, NEW id
  PROVE  available(NoBuckets, id, rate, burst) = burst /\ countOf(NoBuckets, id) = 0
BY DEF available, countOf, NoBuckets

LEMMA CountOne ==
  ASSUME NEW map, NEW id, \A x \in DOMAIN map : map[x] \in Nat
  PROVE  /\ \A x \in DOMAIN counted(map, id) : counted(map, id)[x] \in Nat
         /\ \A x : countOf(map, x) \in Nat /\ countOf(counted(map, id), x)
                     = countOf(map, x) + (IF x = id THEN 1 ELSE 0)
BY DEF countOf, counted

\* In a tick a bucket gains no more than its rate.
LEMMA Gain ==
  ASSUME now \in Nat, now' = now + 1, NEW rate \in Nat, NEW burst \in Nat,
         NEW map, Buckets(map, burst), NEW id
  PROVE  /\ available(map, id, rate, burst) \in 0..burst
         /\ available(map, id, rate, burst)' \in 0..burst
         /\ available(map, id, rate, burst)' <= available(map, id, rate, burst) + rate
<1>1. CASE id \notin DOMAIN map
  BY <1>1 DEF available
<1>2. CASE id \in DOMAIN map
  <2>0. PICK b : b = map[id]
    OBVIOUS
  <2>1. b \in [tokens : 0..burst, last : 0..now]
    BY <1>2, <2>0 DEF Buckets
  <2>2. now - b.last \in Nat /\ now + 1 - b.last = (now - b.last) + 1 /\ b.tokens \in 0..burst
    BY <2>1
  <2>3. /\ rate * (now - b.last) \in Nat
        /\ rate * (now' - b.last) = rate * (now - b.last) + rate
    <3>1. PICK d \in Nat : d = now - b.last
      BY <2>2
    <3>2. now' - b.last = d + 1
      BY <2>1, <3>1
    <3>3. rate * d \in Nat /\ rate * (d + 1) = rate * d + rate
      OBVIOUS
    <3> QED
      BY <3>1, <3>2, <3>3
  <2>4. /\ refilled(b, rate, burst).tokens =
             IF b.tokens + rate * (now - b.last) > burst THEN burst
             ELSE b.tokens + rate * (now - b.last)
        /\ (refilled(b, rate, burst).tokens)' =
             IF b.tokens + rate * (now' - b.last) > burst THEN burst
             ELSE b.tokens + rate * (now' - b.last)
    BY DEF refilled
  <2>5. /\ refilled(b, rate, burst).tokens \in 0..burst
        /\ (refilled(b, rate, burst).tokens)' \in 0..burst
        /\ (refilled(b, rate, burst).tokens)' <= refilled(b, rate, burst).tokens + rate
    BY <2>2, <2>3, <2>4
  <2> QED
    BY <1>2, <2>0, <2>5 DEF available
<1> QED
  BY <1>1, <1>2

\* The bound at a later moment.
LEMMA LaterBound ==
  ASSUME now \in Nat, window \in 0..now, NEW rate \in Nat
  PROVE  /\ rate * (now - window) \in Nat
         /\ rate * (now + 1 - window) = rate * (now - window) + rate
<1>1. now - window \in Nat /\ now + 1 - window = (now - window) + 1
  OBVIOUS
<1> QED
  BY <1>1

\* While the clock stands still, what is available depends on the buckets only.
LEMMA SameNow ==
  ASSUME now' = now, NEW rate, NEW burst
  PROVE  /\ \A x : /\ available(clients, x, rate, burst)' = available(clients', x, rate, burst)
                   /\ available(keys, x, rate, burst)' = available(keys', x, rate, burst)
         /\ Buckets(clients, burst)' <=> Buckets(clients', burst)
         /\ Buckets(keys, burst)' <=> Buckets(keys', burst)
BY DEF available, refilled, Buckets

\* No bucket offers more than its burst.
LEMMA BelowBurst ==
  ASSUME LimitInv
  PROVE  /\ \A h : available(clients, h, IpRate, IpBurst) \in 0..IpBurst
         /\ \A id : available(keys, id, KeyRate, KeyBurst) \in 0..KeyBurst
<1> USE RatesAssumption DEF LimitInv
<1>1. ASSUME NEW h \in DOMAIN clients PROVE refilled(clients[h], IpRate, IpBurst).tokens \in 0..IpBurst
  BY Refill DEF Buckets
<1>2. ASSUME NEW id \in DOMAIN keys PROVE refilled(keys[id], KeyRate, KeyBurst).tokens \in 0..KeyBurst
  BY Refill DEF Buckets
<1> QED
  BY <1>1, <1>2 DEF available

-----------------------------------------------------------------------------
\* Nothing is through and no bucket is used at the start.
LEMMA LimitInit == AccessInit => LimitInv
<1> SUFFICES ASSUME AccessInit PROVE LimitInv
  OBVIOUS
<1>1. Buckets(clients, IpBurst) /\ Buckets(keys, KeyBurst)
  BY DEF AccessInit, Buckets, NoBuckets
<1>2. IpRate * (now - window) = 0 /\ KeyRate * (now - window) = 0 /\ now = 0 /\ window = 0
  BY RatesAssumption DEF AccessInit
<1>3. 0 * Cost = 0 /\ IpBurst \in Nat /\ KeyBurst \in Nat
  BY RatesAssumption
<1>4. \A h \in Hosts : byHost[h] * Cost + available(clients, h, IpRate, IpBurst) = IpBurst
  BY <1>3, NoneUsed DEF AccessInit
<1>5. \A id : countOf(byKey, id) * Cost + available(keys, id, KeyRate, KeyBurst) = KeyBurst
  BY <1>3, NoneUsed DEF AccessInit
<1> QED
  BY <1>1, <1>2, <1>3, <1>4, <1>5 DEF LimitInv, AccessInit, NoBuckets

\* One request more takes Cost from its bucket.
LEMMA OneMore ==
  ASSUME NEW n \in Nat, NEW tokens \in Nat, Cost \in Nat, tokens >= Cost
  PROVE  (n + 1) * Cost + (tokens - Cost) = n * Cost + tokens
OBVIOUS

\* RateLimit: the request of an address that gets through is counted, and costs.
LEMMA ArriveStep ==
  ASSUME LimitInv, NEW r \in Requests, NEW h \in Hosts, NEW send \in Sends, Arrive(r, h, send)
  PROVE  LimitInv'
<1> USE RatesAssumption, PruneAssumption
<1>1. now' = now /\ window' = window /\ keys' = keys /\ byKey' = byKey /\ now \in Nat
  BY DEF Arrive, LimitInv
<1>2. /\ Buckets(keys, KeyBurst)'
      /\ \A id : available(keys, id, KeyRate, KeyBurst)' = available(keys, id, KeyRate, KeyBurst)
  BY <1>1, SameNow DEF LimitInv
<1>3. CASE clients' = clients /\ byHost' = byHost
  <2>1. /\ Buckets(clients, IpBurst)'
        /\ \A g : available(clients, g, IpRate, IpBurst)' = available(clients, g, IpRate, IpBurst)
    BY <1>1, <1>3, SameNow DEF LimitInv
  <2> QED
    BY <1>1, <1>2, <1>3, <2>1 DEF LimitInv, countOf
<1>4. CASE h \notin Loopback
  <2> DEFINE room == roomFor(clients, h, IpPruneAge)
             b == refilled(bucketOf(room, h, IpBurst), IpRate, IpBurst)
             new == stored(room, h, taken(b))
  <2>1. /\ Buckets(room, IpBurst)
        /\ \A g : available(room, g, IpRate, IpBurst) = available(clients, g, IpRate, IpBurst)
        /\ bucketOf(room, h, IpBurst) = bucketOf(clients, h, IpBurst)
    BY <1>1, Room DEF LimitInv, bucketOf
  <2>2. clients' = new /\ IF b.tokens < Cost THEN byHost' = byHost
                          ELSE byHost' = [byHost EXCEPT ![h] = @ + 1]
    BY <1>4, <2>1 DEF Arrive, RateLimit
  <2>3. /\ b.tokens = available(clients, h, IpRate, IpBurst) /\ b.tokens \in 0..IpBurst
        /\ Buckets(new, IpBurst)
        /\ \A g : g # h => available(new, g, IpRate, IpBurst) = available(clients, g, IpRate, IpBurst)
        /\ available(new, h, IpRate, IpBurst) = IF b.tokens < Cost THEN b.tokens ELSE b.tokens - Cost
    BY <1>1, <2>1, TakeOne
  <2> HIDE DEF room, b, new
  <2>4. Buckets(clients, IpBurst)'
    BY <1>1, <2>2, <2>3, SameNow
  <2>5. \A g : available(clients, g, IpRate, IpBurst)' = available(new, g, IpRate, IpBurst)
    BY <1>1, <2>2, SameNow
  <2>6. byHost' \in [Hosts -> Nat]
    BY <2>2 DEF LimitInv
  <2>7. ASSUME NEW g \in Hosts
        PROVE  byHost'[g] * Cost + available(clients, g, IpRate, IpBurst)'
                 <= IpBurst + IpRate * (now - window)
    <3>1. byHost[g] * Cost + available(clients, g, IpRate, IpBurst) <= IpBurst + IpRate * (now - window)
      BY DEF LimitInv
    <3>2. CASE g # h \/ b.tokens < Cost
      BY <2>2, <2>3, <2>5, <3>1, <3>2 DEF LimitInv
    <3>3. CASE g = h /\ ~(b.tokens < Cost)
      <4>1. byHost'[h] = byHost[h] + 1 /\ byHost[h] \in Nat
        BY <2>2, <3>3 DEF LimitInv
      <4>2. b.tokens \in Nat /\ b.tokens >= Cost
        BY <2>3, <3>3
      <4>3. (byHost[h] + 1) * Cost + (b.tokens - Cost) = byHost[h] * Cost + b.tokens
        BY <4>1, <4>2, OneMore
      <4> QED
        BY <2>3, <2>5, <3>1, <3>3, <4>1, <4>3
    <3> QED
      BY <3>2, <3>3
  <2> QED
    BY <1>1, <1>2, <2>4, <2>6, <2>7 DEF LimitInv, countOf
<1>5. h \in Loopback => clients' = clients /\ byHost' = byHost
  BY DEF Arrive, RateLimit
<1> QED
  BY <1>3, <1>4, <1>5

\* RateLimitKey: the same for the keys, where a map that stays full refuses.
LEMMA AuthLimitStep ==
  ASSUME LimitInv, NEW r \in Requests, AuthLimit(r)
  PROVE  LimitInv'
<1> USE RatesAssumption, PruneAssumption
<1>1. now' = now /\ window' = window /\ clients' = clients /\ byHost' = byHost /\ now \in Nat
  BY DEF AuthLimit, LimitInv
<1>2. /\ Buckets(clients, IpBurst)'
      /\ \A h : available(clients, h, IpRate, IpBurst)' = available(clients, h, IpRate, IpBurst)
  BY <1>1, SameNow DEF LimitInv
<1>3. CASE byKey' = byKey /\ Buckets(keys', KeyBurst)
           /\ \A x : available(keys', x, KeyRate, KeyBurst) <= available(keys, x, KeyRate, KeyBurst)
                     /\ available(keys', x, KeyRate, KeyBurst) \in Nat
  <2>1. \A x : available(keys, x, KeyRate, KeyBurst)' = available(keys', x, KeyRate, KeyBurst)
    BY <1>1, SameNow
  <2>2. \A x : countOf(byKey, x)' = countOf(byKey, x) /\ countOf(byKey, x) \in Nat
    BY <1>3 DEF countOf, LimitInv
  <2>3. Buckets(keys, KeyBurst)'
    BY <1>1, <1>3, SameNow
  <2>4. \A x : available(keys, x, KeyRate, KeyBurst) \in Nat
    BY BelowBurst
  <2>5. KeyRate * (now - window) \in Nat
    BY LaterBound DEF LimitInv
  <2>6. ASSUME NEW x
        PROVE  countOf(byKey, x)' * Cost + available(keys, x, KeyRate, KeyBurst)'
                 <= KeyBurst + KeyRate * (now - window)
    <3>1. countOf(byKey, x) * Cost \in Nat
      BY <2>2
    <3>2. countOf(byKey, x)' * Cost = countOf(byKey, x) * Cost
      BY <2>2
    <3> QED
      BY <1>3, <2>1, <2>4, <2>5, <3>1, <3>2 DEF LimitInv
  <2> QED
    BY <1>1, <1>2, <1>3, <2>3, <2>6 DEF LimitInv
<1> DEFINE id == bucketId(reqs[r].send)
           room == roomFor(keys, id, KeyPruneAge)
           b == refilled(bucketOf(keys, id, KeyBurst), KeyRate, KeyBurst)
           new == stored(room, id, taken(b))
<1>4. /\ Buckets(room, KeyBurst)
      /\ \A x : available(room, x, KeyRate, KeyBurst) = available(keys, x, KeyRate, KeyBurst)
      /\ bucketOf(room, id, KeyBurst) = bucketOf(keys, id, KeyBurst)
  BY <1>1, Room DEF LimitInv, bucketOf
<1>5. /\ b.tokens = available(keys, id, KeyRate, KeyBurst) /\ b.tokens \in 0..KeyBurst
      /\ Buckets(new, KeyBurst)
      /\ \A x : x # id => available(new, x, KeyRate, KeyBurst) = available(keys, x, KeyRate, KeyBurst)
      /\ available(new, id, KeyRate, KeyBurst) = IF b.tokens < Cost THEN b.tokens ELSE b.tokens - Cost
  BY <1>1, <1>4, TakeOne
<1>6. \/ byKey' = byKey /\ keys' = keys
      \/ byKey' = byKey /\ keys' = room
      \/ byKey' = byKey /\ keys' = new /\ b.tokens < Cost
      \/ byKey' = counted(byKey, id) /\ keys' = new /\ ~(b.tokens < Cost)
  BY DEF AuthLimit
<1> HIDE DEF id, room, b, new
<1>7. \A x : available(keys, x, KeyRate, KeyBurst) \in Nat
  BY BelowBurst
<1>8. CASE byKey' = byKey /\ keys' = keys
  BY <1>3, <1>7, <1>8 DEF LimitInv
<1>9. CASE byKey' = byKey /\ keys' = room
  BY <1>3, <1>4, <1>7, <1>9
<1>10. CASE byKey' = byKey /\ keys' = new /\ b.tokens < Cost
  BY <1>3, <1>5, <1>7, <1>10
<1>11. CASE byKey' = counted(byKey, id) /\ keys' = new /\ ~(b.tokens < Cost)
  <2>1. Buckets(keys, KeyBurst)'
    BY <1>1, <1>5, <1>11, SameNow
  <2>2. \A x : available(keys, x, KeyRate, KeyBurst)' = available(new, x, KeyRate, KeyBurst)
    BY <1>1, <1>11, SameNow
  <2>3. /\ \A x \in DOMAIN byKey' : byKey'[x] \in Nat
        /\ \A x : /\ countOf(byKey, x) \in Nat
                  /\ countOf(byKey, x)' = countOf(byKey, x) + (IF x = id THEN 1 ELSE 0)
    <3>1. \A x : countOf(byKey, x)' = countOf(counted(byKey, id), x)
      BY <1>11 DEF countOf
    <3> QED
      BY <1>11, <3>1, CountOne DEF LimitInv
  <2>4. ASSUME NEW x
        PROVE  countOf(byKey, x)' * Cost + available(keys, x, KeyRate, KeyBurst)'
                 <= KeyBurst + KeyRate * (now - window)
    <3>1. countOf(byKey, x) * Cost + available(keys, x, KeyRate, KeyBurst)
            <= KeyBurst + KeyRate * (now - window)
      BY DEF LimitInv
    <3>2. CASE x # id
      <4>1. countOf(byKey, x)' = countOf(byKey, x)
        BY <2>3, <3>2
      <4> QED
        BY <1>5, <2>2, <3>1, <3>2, <4>1
    <3>3. CASE x = id
      <4>1. countOf(byKey, x)' = countOf(byKey, x) + 1 /\ countOf(byKey, x) \in Nat
        BY <2>3, <3>3
      <4>2. b.tokens \in Nat /\ b.tokens >= Cost
        BY <1>5, <1>11
      <4>3. (countOf(byKey, x) + 1) * Cost + (b.tokens - Cost) = countOf(byKey, x) * Cost + b.tokens
        BY <4>1, <4>2, OneMore
      <4>4. available(keys, x, KeyRate, KeyBurst)' = b.tokens - Cost
        BY <1>5, <1>11, <2>2, <3>3
      <4> QED
        BY <1>5, <3>1, <3>3, <4>1, <4>3, <4>4
    <3> QED
      BY <3>2, <3>3
  <2> QED
    BY <1>1, <1>2, <2>1, <2>3, <2>4 DEF LimitInv
<1> QED
  BY <1>6, <1>8, <1>9, <1>10, <1>11

\* Time passes: the bound rises by the rate, and a bucket by no more.
LEMMA TickStep ==
  ASSUME LimitInv, Tick
  PROVE  LimitInv'
<1> USE RatesAssumption
<1>1. /\ now \in Nat /\ now' = now + 1 /\ window' = window /\ window \in 0..now'
      /\ clients' = clients /\ keys' = keys /\ byHost' = byHost /\ byKey' = byKey
  BY DEF Tick, LimitInv
<1>2. Buckets(clients, IpBurst)' /\ Buckets(keys, KeyBurst)'
  BY <1>1 DEF LimitInv, Buckets
<1>3. /\ IpRate * (now - window) \in Nat /\ KeyRate * (now - window) \in Nat
      /\ IpRate * (now' - window) = IpRate * (now - window) + IpRate
      /\ KeyRate * (now' - window) = KeyRate * (now - window) + KeyRate
  BY <1>1, LaterBound DEF LimitInv
<1>4. ASSUME NEW x
      PROVE  /\ available(clients, x, IpRate, IpBurst)' <= available(clients, x, IpRate, IpBurst) + IpRate
             /\ available(keys, x, KeyRate, KeyBurst)' <= available(keys, x, KeyRate, KeyBurst) + KeyRate
             /\ available(clients, x, IpRate, IpBurst) \in Nat /\ available(keys, x, KeyRate, KeyBurst) \in Nat
             /\ available(clients, x, IpRate, IpBurst)' \in Nat /\ available(keys, x, KeyRate, KeyBurst)' \in Nat
  BY <1>1, Gain DEF LimitInv
<1>5. ASSUME NEW h \in Hosts
      PROVE  byHost[h] * Cost + available(clients, h, IpRate, IpBurst)' <= IpBurst + IpRate * (now' - window)
  <2>1. byHost[h] * Cost \in Nat
    BY DEF LimitInv
  <2> QED
    BY <1>3, <1>4, <2>1 DEF LimitInv
<1>6. ASSUME NEW id
      PROVE  countOf(byKey, id) * Cost + available(keys, id, KeyRate, KeyBurst)'
               <= KeyBurst + KeyRate * (now' - window)
  <2>1. countOf(byKey, id) * Cost \in Nat
    BY DEF LimitInv, countOf
  <2> QED
    BY <1>3, <1>4, <2>1 DEF LimitInv
<1>7. \A id : countOf(byKey, id)' = countOf(byKey, id)
  BY <1>1 DEF countOf
<1> QED
  BY <1>1, <1>2, <1>5, <1>6, <1>7 DEF LimitInv

\* A count that starts anew is below the bound, whatever is in the buckets.
LEMMA NewWindow ==
  ASSUME LimitInv, now' = now, window' = now,
         byHost' = [h \in Hosts |-> 0], byKey' = NoBuckets,
         \/ clients' = clients /\ keys' = keys
         \/ clients' = NoBuckets /\ keys' = NoBuckets
  PROVE  LimitInv'
<1> USE RatesAssumption
<1>1. /\ now \in Nat /\ IpRate * (now - now) = 0 /\ KeyRate * (now - now) = 0 /\ 0 * Cost = 0
  BY DEF LimitInv
<1>2. /\ \A x : available(clients', x, IpRate, IpBurst) \in 0..IpBurst
      /\ \A x : available(keys', x, KeyRate, KeyBurst) \in 0..KeyBurst
  BY BelowBurst, NoneUsed
<1>3. Buckets(clients', IpBurst) /\ Buckets(keys', KeyBurst)
  BY DEF LimitInv, Buckets, NoBuckets
<1>4. \A x : countOf(byKey, x)' = 0
  BY DEF countOf, NoBuckets
<1>5. \A x : available(clients, x, IpRate, IpBurst)' \in 0..IpBurst
  BY <1>2, SameNow
<1>6. \A x : available(keys, x, KeyRate, KeyBurst)' \in 0..KeyBurst
  BY <1>2, SameNow
<1>7. Buckets(clients, IpBurst)' /\ Buckets(keys, KeyBurst)'
  BY <1>3, SameNow
<1>8. \A h \in Hosts : byHost'[h] * Cost + available(clients, h, IpRate, IpBurst)' <= IpBurst
  BY <1>1, <1>5
<1>9. \A x : countOf(byKey, x)' * Cost + available(keys, x, KeyRate, KeyBurst)' <= KeyBurst
  BY <1>1, <1>4, <1>6
<1>10. now' \in Nat /\ window' \in 0..now' /\ byHost' \in [Hosts -> Nat]
       /\ \A x \in DOMAIN byKey' : byKey'[x] \in Nat
  BY <1>1 DEF NoBuckets
<1>11. IpRate * (now' - window') = 0 /\ KeyRate * (now' - window') = 0
  BY <1>1
<1> QED
  BY <1>7, <1>8, <1>9, <1>10, <1>11 DEF LimitInv

\* A step that leaves clock, buckets and counts alone.
LEMMA LimitFrame == LimitInv /\ UNCHANGED bucketVars => LimitInv'
<1> SUFFICES ASSUME LimitInv, UNCHANGED bucketVars PROVE LimitInv'
  OBVIOUS
<1>1. /\ now' = now /\ window' = window /\ clients' = clients /\ keys' = keys
      /\ byHost' = byHost /\ byKey' = byKey
  BY DEF bucketVars
<1>2. \A x : /\ available(clients, x, IpRate, IpBurst)' = available(clients, x, IpRate, IpBurst)
             /\ available(keys, x, KeyRate, KeyBurst)' = available(keys, x, KeyRate, KeyBurst)
             /\ countOf(byKey, x)' = countOf(byKey, x)
  BY <1>1, SameNow DEF countOf
<1>3. Buckets(clients, IpBurst)' /\ Buckets(keys, KeyBurst)'
  BY <1>1, SameNow DEF LimitInv
<1> QED
  BY <1>1, <1>2, <1>3 DEF LimitInv

\* Every step of the chain preserves the invariant.
LEMMA LimitInductive ==
  ASSUME LimitInv, AccessNext
  PROVE  LimitInv'
<1>1. ASSUME NEW r \in Requests, Route(r) \/ Return(r) PROVE LimitInv'
  BY <1>1, LimitFrame DEF Route, Return
<1>2. ASSUME NEW r \in Requests, NEW wrote, NEW renamed, NEW reopened,
             Audit(r, wrote, renamed, reopened)
      PROVE  LimitInv'
  BY <1>2, LimitFrame DEF Audit
<1>3. StartWindow => LimitInv'
  BY NewWindow DEF StartWindow
<1>4. ASSUME NEW opens, Restart(opens) PROVE LimitInv'
  BY <1>4, NewWindow DEF Restart
<1> QED
  BY <1>1, <1>2, <1>3, <1>4, ArriveStep, AuthLimitStep, TickStep DEF AccessNext

LEMMA LimitHolds == LimitInv => Throttled
<1> SUFFICES ASSUME LimitInv PROVE Throttled
  OBVIOUS
<1>1. ASSUME NEW h \in Hosts PROVE byHost[h] * Cost <= IpBurst + IpRate * (now - window)
  <2>1. available(clients, h, IpRate, IpBurst) \in Nat
    BY BelowBurst, RatesAssumption
  <2>2. byHost[h] * Cost \in Nat /\ IpRate * (now - window) \in Nat /\ IpBurst \in Nat
    BY RatesAssumption, LaterBound DEF LimitInv
  <2> QED
    BY <2>1, <2>2 DEF LimitInv
<1>2. ASSUME NEW id \in DOMAIN byKey PROVE byKey[id] * Cost <= KeyBurst + KeyRate * (now - window)
  <2>1. available(keys, id, KeyRate, KeyBurst) \in Nat
    BY BelowBurst, RatesAssumption
  <2>2. byKey[id] * Cost \in Nat /\ KeyRate * (now - window) \in Nat /\ KeyBurst \in Nat
    BY RatesAssumption, LaterBound DEF LimitInv
  <2>3. countOf(byKey, id) = byKey[id]
    BY DEF countOf
  <2> QED
    BY <2>1, <2>2, <2>3 DEF LimitInv
<1> QED
  BY <1>1, <1>2 DEF Throttled

\* RateLimit and RateLimitKey of internal/auth: over any stretch of time an
\* address, and a key, get no more through than a burst and what the rate gives
\* in that time, for any rates whose buckets are full again when they are pruned.
THEOREM RatesHold == AccessSpec => []Throttled
<1>1. ConfigInit /\ AccessInit => LimitInv
  BY LimitInit
<1>2. LimitInv /\ [\/ ConfigNext /\ UNCHANGED accessVars
                   \/ AccessNext /\ UNCHANGED configVars]_<<configVars, accessVars>> => LimitInv'
  BY LimitFrame, LimitInductive DEF accessVars
<1> QED
  BY <1>1, <1>2, LimitHolds, PTL DEF AccessSpec
-----------------------------------------------------------------------------
KeyNames == {keyOf(send.token).name : send \in Sends}
Roles == {keyOf(send.token).role : send \in Sends}
Entries == [n : Nat, name : {recorded(name) : name \in KeyNames}, role : Roles]

\* What the entries k, oldest first, say of s mutating requests of which those
\* in l are lost.
Kept(k, s, l) ==
  /\ \A i \in DOMAIN k : k[i].n \in 1..s
  /\ \A i, j \in DOMAIN k : i < j => k[i].n < k[j].n
  /\ \A i \in DOMAIN k, m \in 1..s : k[i].n <= m => m \in Numbered(k) \cup l

\* Where the requests are, with what AuditComplete speaks of.
RequestShape ==
  /\ DOMAIN reqs = Requests
  /\ \A r \in Requests :
       /\ reqs[r].at \in {"idle", "admitted", "limited", "audited", "handler"}
       /\ reqs[r].at = "admitted" => reqs[r].send \in Sends
       /\ reqs[r].at \in {"limited", "audited", "handler"} =>
            reqs[r].name \in KeyNames /\ reqs[r].role \in Roles
       /\ reqs[r].at \in {"audited", "handler"} =>
            reqs[r].n \in 0..serial /\ {"at", "name", "role", "n"} \subseteq DOMAIN reqs[r]

\* The entry of a request that was audited is under its own key and role.
OwnEntry(k) ==
  \A r \in Requests, i \in DOMAIN k :
    (reqs[r].at \in {"audited", "handler"} /\ reqs[r].n = k[i].n) =>
      k[i].name = recorded(reqs[r].name) /\ k[i].role = reqs[r].role

AuditInv ==
  /\ serial \in Nat
  /\ auditOld \in Seq(Entries) /\ auditLog \in Seq(Entries)
  /\ RequestShape
  /\ Kept(auditOld \o auditLog, serial, lost)
  /\ OwnEntry(auditOld \o auditLog)
  /\ phase = "loading" =>
       auditOld = <<>> /\ auditLog = <<>> /\ \A r \in Requests : reqs[r].at = "idle"

\* An entry is written at the end.
LEMMA KeptAppend ==
  ASSUME NEW E, NEW k \in Seq(E), NEW s \in Nat, NEW l, NEW e \in E, e.n = s + 1,
         Kept(k, s, l)
  PROVE  Kept(Append(k, e), s + 1, l)
<1> DEFINE a == Append(k, e)
<1>1. /\ DOMAIN a = 1 .. Len(k) + 1 /\ DOMAIN k = 1 .. Len(k) /\ Len(k) \in Nat
      /\ a[Len(k) + 1] = e /\ \A i \in 1 .. Len(k) : a[i] = k[i]
  OBVIOUS
<1> HIDE DEF a
<1>2. \A i \in DOMAIN a : a[i].n \in 1 .. s + 1
  BY <1>1 DEF Kept
<1>3. ASSUME NEW i \in DOMAIN a, NEW j \in DOMAIN a, i < j PROVE a[i].n < a[j].n
  <2>1. i \in 1 .. Len(k) /\ a[i].n \in 1..s
    BY <1>1, <1>3 DEF Kept
  <2>2. CASE j = Len(k) + 1
    BY <1>1, <2>1, <2>2
  <2>3. CASE j \in 1 .. Len(k)
    BY <1>1, <1>3, <2>1, <2>3 DEF Kept
  <2> QED
    BY <1>1, <2>2, <2>3
<1>4. Numbered(k) \subseteq Numbered(a) /\ s + 1 \in Numbered(a)
  BY <1>1 DEF Numbered
<1>5. ASSUME NEW i \in DOMAIN a, NEW m \in 1 .. s + 1, a[i].n <= m
      PROVE  m \in Numbered(a) \cup l
  <2>1. CASE m = s + 1
    BY <1>4, <2>1
  <2>2. CASE m \in 1..s
    <3>1. i \in DOMAIN k /\ k[i].n <= m
      BY <1>1, <1>5, <2>2
    <3> QED
      BY <1>4, <2>2, <3>1 DEF Kept
  <2> QED
    BY <2>1, <2>2
<1> QED
  BY <1>2, <1>3, <1>5 DEF Kept, a

\* An entry is lost.
LEMMA KeptLost ==
  ASSUME NEW k, NEW s \in Nat, NEW l, Kept(k, s, l)
  PROVE  Kept(k, s + 1, l \cup {s + 1})
<1>1. \A m \in 1 .. s + 1 : m \in 1..s \/ m = s + 1
  OBVIOUS
<1> QED
  BY <1>1 DEF Kept

\* The older file is replaced by the newer one.
LEMMA KeptSuffix ==
  ASSUME NEW E, NEW o \in Seq(E), NEW g \in Seq(E), NEW s \in Nat, NEW l,
         Kept(o \o g, s, l)
  PROVE  Kept(g, s, l)
<1> DEFINE k == o \o g
<1>1. /\ DOMAIN k = 1 .. Len(o) + Len(g) /\ Len(o) \in Nat /\ Len(g) \in Nat
      /\ DOMAIN o = 1 .. Len(o) /\ DOMAIN g = 1 .. Len(g)
      /\ \A i \in 1 .. Len(g) : k[Len(o) + i] = g[i]
      /\ \A i \in 1 .. Len(o) : k[i] = o[i]
  OBVIOUS
<1>2. Kept(k, s, l)
  OBVIOUS
<1> HIDE DEF k
<1>3. \A i \in DOMAIN g : Len(o) + i \in DOMAIN k
  BY <1>1
<1>4. \A i \in DOMAIN g : g[i].n \in 1..s
  BY <1>1, <1>2, <1>3 DEF Kept
<1>5. ASSUME NEW i \in DOMAIN g, NEW j \in DOMAIN g, i < j PROVE g[i].n < g[j].n
  <2>1. Len(o) + i < Len(o) + j
    BY <1>1, <1>5
  <2>2. k[Len(o) + i].n < k[Len(o) + j].n
    BY <1>2, <1>3, <2>1 DEF Kept
  <2> QED
    BY <1>1, <2>2
<1>6. ASSUME NEW i \in DOMAIN g, NEW m \in 1..s, g[i].n <= m
      PROVE  m \in Numbered(g) \cup l
  <2>1. m \in Numbered(k) \cup l
    <3>1. i \in 1 .. Len(g) /\ k[Len(o) + i] = g[i]
      BY <1>1
    <3>2. Len(o) + i \in DOMAIN k /\ k[Len(o) + i].n <= m
      BY <1>3, <1>6, <3>1
    <3> QED
      BY <1>2, <3>2 DEF Kept
  <2>2. CASE m \in Numbered(k)
    <3>1. PICK j \in DOMAIN k : m = k[j].n
      BY <2>2 DEF Numbered
    <3>2. ~(j <= Len(o))
      <4> SUFFICES ASSUME j <= Len(o) PROVE FALSE
        OBVIOUS
      <4>1. j < Len(o) + i
        BY <1>1
      <4>2. k[j].n < k[Len(o) + i].n
        BY <1>2, <1>3, <4>1 DEF Kept
      <4> QED
        BY <1>1, <1>4, <1>6, <3>1, <4>2
    <3>3. j - Len(o) \in DOMAIN g /\ k[j] = g[j - Len(o)]
      BY <1>1, <3>2
    <3> QED
      BY <3>1, <3>3 DEF Numbered
  <2> QED
    BY <2>1, <2>2
<1> QED
  BY <1>4, <1>5, <1>6 DEF Kept

\* What AuditComplete says of a log that is kept.
LEMMA KeptIsComplete ==
  ASSUME AuditInv PROVE AuditComplete
<1> DEFINE k == auditOld \o auditLog
<1>1. k \in Seq(Entries) /\ DOMAIN k = 1 .. Len(k) /\ Len(k) \in Nat
  BY DEF AuditInv
<1>2. Kept(k, serial, lost) /\ OwnEntry(k) /\ serial \in Nat
  BY DEF AuditInv
<1> HIDE DEF k
<1>3. SUFFICES ASSUME k # <<>>
      PROVE  /\ \A i \in 1 .. Len(k) - 1 : k[i].n < k[i + 1].n
             /\ k[1].n .. serial \subseteq Numbered(k) \cup lost
             /\ \A r \in Requests, i \in DOMAIN k :
                  (reqs[r].at \in {"audited", "handler"} /\ reqs[r].n = k[i].n) =>
                    k[i].name = recorded(reqs[r].name) /\ k[i].role = reqs[r].role
  BY DEF AuditComplete, k
<1>4. \A i \in 1 .. Len(k) - 1 : k[i].n < k[i + 1].n
  BY <1>1, <1>2 DEF Kept
<1>5. 1 \in DOMAIN k
  BY <1>1, <1>3
<1>6. k[1].n \in 1..serial
  BY <1>2, <1>5 DEF Kept
<1>7. ASSUME NEW m \in k[1].n .. serial PROVE m \in Numbered(k) \cup lost
  <2>1. m \in 1..serial /\ k[1].n <= m
    BY <1>2, <1>6
  <2> QED
    BY <1>2, <1>5, <2>1 DEF Kept
<1> QED
  BY <1>2, <1>4, <1>7 DEF OwnEntry

LEMMA AuditStart == AccessInit => AuditInv
<1> SUFFICES ASSUME AccessInit PROVE AuditInv
  OBVIOUS
<1>1. /\ auditLog = <<>> /\ auditOld = <<>> /\ serial = 0
      /\ reqs = [r \in Requests |-> [at |-> "idle"]]
  BY DEF AccessInit, NoReq
<1>2. auditOld \o auditLog = <<>> /\ DOMAIN <<>> = {}
  BY <1>1
<1>3. RequestShape
  BY <1>1 DEF RequestShape
<1> QED
  BY <1>1, <1>2, <1>3 DEF AuditInv, Kept, OwnEntry

\* The configuration is read before the first request.
LEMMA ConfigStep ==
  ASSUME AuditInv, ConfigNext, UNCHANGED accessVars
  PROVE  AuditInv'
<1>1. /\ auditLog' = auditLog /\ auditOld' = auditOld /\ serial' = serial
      /\ lost' = lost /\ reqs' = reqs
  BY DEF accessVars, auditVars
<1>2. phase = "loading"
  BY DEF ConfigNext, StartUp
<1>3. /\ auditOld = <<>> /\ auditLog = <<>> /\ \A r \in Requests : reqs[r].at = "idle"
  BY <1>2 DEF AuditInv
<1>4. auditOld' \o auditLog' = <<>> /\ DOMAIN <<>> = {}
  BY <1>1, <1>3
<1>5. auditOld' \in Seq(Entries') /\ auditLog' \in Seq(Entries')
  BY <1>1, <1>3
<1>6. RequestShape'
  BY <1>1, <1>3 DEF AuditInv, RequestShape
<1> QED
  BY <1>1, <1>3, <1>4, <1>5, <1>6 DEF AuditInv, Kept, OwnEntry

\* What the log holds stays, and no request passes the audit.
LEMMA LogStays ==
  ASSUME AuditInv, UNCHANGED configVars, RequestShape',
         auditLog' = auditLog, auditOld' = auditOld, serial' = serial, lost' = lost,
         phase = "loading" => \A r \in Requests : reqs'[r].at = "idle",
         \A r \in Requests : reqs'[r].at \in {"audited", "handler"} =>
           /\ reqs[r].at \in {"audited", "handler"}
           /\ reqs'[r].n = reqs[r].n /\ reqs'[r].name = reqs[r].name /\ reqs'[r].role = reqs[r].role
  PROVE  AuditInv'
<1>1. conf' = conf /\ phase' = phase
  BY DEF configVars
<1>2. Entries' = Entries
  BY <1>1 DEF Entries, KeyNames, Roles, keyOf, matching
<1>3. OwnEntry(auditOld \o auditLog)'
  BY DEF AuditInv, OwnEntry
<1>4. Kept(auditOld \o auditLog, serial, lost)'
  BY DEF AuditInv, Kept, Numbered
<1>5. (phase = "loading" =>
         auditOld = <<>> /\ auditLog = <<>> /\ \A r \in Requests : reqs[r].at = "idle")'
  BY <1>1 DEF AuditInv
<1> QED
  BY <1>1, <1>2, <1>3, <1>4, <1>5 DEF AuditInv

\* Every step but the audit itself.
LEMMA BesideAudit ==
  ASSUME AuditInv, UNCHANGED configVars,
         \/ \E r \in Requests :
              \/ \E h \in Hosts, send \in Sends : Arrive(r, h, send)
              \/ AuthLimit(r) \/ Route(r) \/ Return(r)
         \/ Tick \/ StartWindow
         \/ \E opens \in BOOLEAN : Restart(opens)
  PROVE  AuditInv'
<1> RequestShape
  BY DEF AuditInv
<1> DEFINE still(r) == reqs'[r].at \in {"audited", "handler"} =>
             /\ reqs[r].at \in {"audited", "handler"}
             /\ reqs'[r].n = reqs[r].n /\ reqs'[r].name = reqs[r].name
             /\ reqs'[r].role = reqs[r].role
<1>1. conf' = conf
  BY DEF configVars
<1>2. KeyNames' = KeyNames /\ Roles' = Roles
  BY <1>1 DEF KeyNames, Roles, keyOf, matching
<1>3. /\ auditLog' = auditLog /\ auditOld' = auditOld /\ serial' = serial /\ lost' = lost
  BY DEF Arrive, AuthLimit, Route, Return, Tick, StartWindow, Restart, auditVars
<1>4. ASSUME NEW r \in Requests, NEW h \in Hosts, NEW send \in Sends, Arrive(r, h, send)
      PROVE  AuditInv'
  <2>1. phase # "loading" /\ reqs[r].at = "idle"
    BY <1>4 DEF Arrive
  <2>2. \/ reqs' = [reqs EXCEPT ![r] = [at |-> "admitted", send |-> send]]
        \/ reqs' = [reqs EXCEPT ![r] = [at |-> "idle"]]
    BY <1>4 DEF Arrive, RateLimit, answered, NoReq
  <2>3. RequestShape'
    BY <1>2, <1>3, <2>2 DEF RequestShape
  <2>4. \A q \in Requests : still(q)
    BY <2>2 DEF RequestShape
  <2> QED
    BY <1>3, <2>1, <2>3, <2>4, LogStays
<1>5. ASSUME NEW r \in Requests, AuthLimit(r) PROVE AuditInv'
  <2> DEFINE key == keyOf(reqs[r].send.token)
             passed == [at |-> "limited", route |-> reqs[r].send.route,
                        name |-> key.name, role |-> key.role]
  <2>1. reqs[r].at = "admitted" /\ reqs[r].send \in Sends
    BY <1>5 DEF AuthLimit, RequestShape
  <2>2. key.name \in KeyNames /\ key.role \in Roles
    BY <2>1 DEF KeyNames, Roles
  <2> HIDE DEF key
  <2>3. reqs' = [reqs EXCEPT ![r] = passed] \/ reqs' = [reqs EXCEPT ![r] = [at |-> "idle"]]
    BY <1>5 DEF AuthLimit, answered, NoReq, key
  <2>4. RequestShape'
    BY <1>2, <1>3, <2>2, <2>3 DEF RequestShape
  <2>5. \A q \in Requests : still(q)
    BY <2>3 DEF RequestShape
  <2>6. phase # "loading"
    BY <2>1 DEF AuditInv
  <2> QED
    BY <1>3, <2>4, <2>5, <2>6, LogStays
<1>6. ASSUME NEW r \in Requests, Route(r) \/ Return(r) PROVE AuditInv'
  <2>1. reqs[r].at \in {"audited", "handler"}
    BY <1>6 DEF Route, Return
  <2>2. reqs' = [reqs EXCEPT ![r].at = "handler"] \/ reqs' = [reqs EXCEPT ![r] = [at |-> "idle"]]
    BY <1>6 DEF Route, Return, answered, NoReq
  <2>3. RequestShape'
    BY <1>2, <1>3, <2>1, <2>2 DEF RequestShape
  <2>4. \A q \in Requests : still(q)
    BY <2>1, <2>2 DEF RequestShape
  <2>5. phase # "loading"
    BY <2>1 DEF AuditInv
  <2> QED
    BY <1>3, <2>3, <2>4, <2>5, LogStays
<1>7. CASE Tick \/ StartWindow
  <2>1. reqs' = reqs
    BY <1>7 DEF Tick, StartWindow
  <2>2. RequestShape'
    BY <1>2, <1>3, <2>1 DEF RequestShape
  <2>3. phase = "loading" => \A r \in Requests : reqs'[r].at = "idle"
    BY <2>1 DEF AuditInv
  <2> QED
    BY <1>3, <2>1, <2>2, <2>3, LogStays
<1>8. ASSUME NEW opens \in BOOLEAN, Restart(opens) PROVE AuditInv'
  <2>1. reqs' = [r \in Requests |-> [at |-> "idle"]]
    BY <1>8 DEF Restart, NoReq
  <2>2. RequestShape'
    BY <2>1 DEF RequestShape
  <2> QED
    BY <1>3, <2>1, <2>2, LogStays
<1> QED
  BY <1>4, <1>5, <1>6, <1>7, <1>8

Has(k, x) == \E i \in DOMAIN k : k[i] = x

\* The entries of two files are those of one after the other.
LEMMA EntriesOfBoth ==
  ASSUME NEW E, NEW o \in Seq(E), NEW g \in Seq(E)
  PROVE  /\ o \o g \in Seq(E)
         /\ \A x : Has(o \o g, x) <=> Has(o, x) \/ Has(g, x)
<1> DEFINE k == o \o g
<1>1. /\ DOMAIN k = 1 .. Len(o) + Len(g) /\ Len(o) \in Nat /\ Len(g) \in Nat
      /\ DOMAIN o = 1 .. Len(o) /\ DOMAIN g = 1 .. Len(g) /\ k \in Seq(E)
      /\ \A i \in 1 .. Len(g) : k[Len(o) + i] = g[i]
      /\ \A i \in 1 .. Len(o) : k[i] = o[i]
  OBVIOUS
<1> HIDE DEF k
<1>2. \A x : Has(o, x) \/ Has(g, x) => Has(k, x)
  <2>1. \A i \in DOMAIN o : i \in DOMAIN k /\ k[i] = o[i]
    BY <1>1
  <2>2. \A i \in DOMAIN g : Len(o) + i \in DOMAIN k /\ k[Len(o) + i] = g[i]
    BY <1>1
  <2> QED
    BY <2>1, <2>2 DEF Has
<1>3. ASSUME NEW j \in DOMAIN k PROVE Has(o, k[j]) \/ Has(g, k[j])
  <2>1. CASE j <= Len(o)
    BY <1>1, <2>1 DEF Has
  <2>2. CASE ~(j <= Len(o))
    <3>1. j - Len(o) \in 1 .. Len(g) /\ Len(o) + (j - Len(o)) = j
      BY <1>1, <2>2
    <3> QED
      BY <1>1, <3>1 DEF Has
  <2> QED
    BY <2>1, <2>2
<1>4. \A x : Has(k, x) => Has(o, x) \/ Has(g, x)
  BY <1>3 DEF Has
<1> QED
  BY <1>1, <1>2, <1>4 DEF k

\* auditMiddleware and the rotation, with every outcome of both.
LEMMA AuditStep ==
  ASSUME AuditInv, UNCHANGED configVars, NEW r \in Requests,
         NEW wrote \in BOOLEAN, NEW renamed \in BOOLEAN, NEW reopened \in BOOLEAN,
         Audit(r, wrote, renamed, reopened)
  PROVE  AuditInv'
<1> RequestShape /\ serial \in Nat
  BY DEF AuditInv
<1>1. conf' = conf /\ phase' = phase
  BY DEF configVars
<1>2. KeyNames' = KeyNames /\ Roles' = Roles /\ Entries' = Entries
  BY <1>1 DEF Entries, KeyNames, Roles, keyOf, matching
<1>3. phase # "loading" /\ reqs[r].name \in KeyNames /\ reqs[r].role \in Roles
  BY DEF Audit, AuditInv, RequestShape
<1> DEFINE passed(n) == [at |-> "audited", route |-> reqs[r].route, name |-> reqs[r].name,
                         role |-> reqs[r].role, n |-> n]
<1>4. CASE ~isMutation(reqs[r].route.method)
  <2>1. reqs' = [reqs EXCEPT ![r] = passed(0)] /\ UNCHANGED auditVars
    BY <1>4 DEF Audit
  <2>2. /\ auditLog' = auditLog /\ auditOld' = auditOld /\ serial' = serial /\ lost' = lost
    BY <2>1 DEF auditVars
  <2>3. RequestShape'
    BY <1>2, <1>3, <2>1, <2>2 DEF RequestShape
  <2>4. Kept(auditOld \o auditLog, serial, lost)'
    BY <2>2 DEF AuditInv, Kept, Numbered
  <2>5. OwnEntry(auditOld \o auditLog)'
    BY <2>1, <2>2 DEF AuditInv, Kept, OwnEntry, RequestShape
  <2> QED
    BY <1>1, <1>2, <1>3, <2>2, <2>3, <2>4, <2>5 DEF AuditInv
<1>5. CASE isMutation(reqs[r].route.method)
  <2> DEFINE e == [n |-> serial + 1, name |-> recorded(reqs[r].name), role |-> reqs[r].role]
             done == wrote /\ auditFile = "open"
             log == IF done THEN Append(auditLog, e) ELSE auditLog
             k == auditOld \o auditLog
             both == auditOld \o log
  <2>1. serial' = serial + 1 /\ reqs' = [reqs EXCEPT ![r] = passed(serial + 1)]
    BY <1>5 DEF Audit
  <2>2. e \in Entries /\ e.n = serial + 1
    BY <1>3 DEF Entries
  <2>3. auditOld \in Seq(Entries) /\ auditLog \in Seq(Entries) /\ log \in Seq(Entries)
    BY <2>2 DEF AuditInv
  <2>4. record(e, wrote, renamed, reopened)
    BY <1>5, <2>1 DEF Audit
  <2> HIDE DEF e
  <2>5. \/ log = Append(auditLog, e) /\ done /\ auditFile # "none"
        \/ log = auditLog /\ ~done
    OBVIOUS
  <2>6. lost' = IF done THEN lost ELSE lost \cup {serial + 1}
    BY <2>2, <2>4 DEF record
  <2>7. \/ auditOld' = auditOld /\ auditLog' = log
        \/ auditOld' = log /\ auditLog' = <<>>
    BY <2>4 DEF record, rotate
  <2>8. Kept(k, serial, lost) /\ OwnEntry(k) /\ k \in Seq(Entries)
    BY <2>3 DEF AuditInv
  <2>9. Kept(both, serial + 1, lost')
    <3>1. CASE done
      <4>1. both = Append(k, e)
        BY <2>2, <2>3, <3>1
      <4> QED
        BY <2>2, <2>6, <2>8, <3>1, <4>1, KeptAppend
    <3>2. CASE ~done
      <4>1. both = k
        BY <3>2
      <4> QED
        BY <2>6, <2>8, <3>2, <4>1, KeptLost
    <3> QED
      BY <3>1, <3>2
  <2>10. \A x : Has(log, x) => x = e \/ Has(auditLog, x)
    BY <2>2, <2>3 DEF Has
  <2> HIDE DEF log, done
  <2>11. \A x : Has(both, x) => x = e \/ Has(k, x)
    BY <2>3, <2>10, EntriesOfBoth
  <2>12. auditOld' \o auditLog' = both \/ auditOld' \o auditLog' = log
    <3>1. log \o <<>> = log
      BY <2>3
    <3> QED
      BY <2>7, <3>1
  <2>13. \A x : Has(log, x) => Has(both, x)
    BY <2>3, EntriesOfBoth
  <2>14. Kept(log, serial + 1, lost')
    BY <2>3, <2>9, KeptSuffix
  <2>15. Kept(auditOld \o auditLog, serial, lost)'
    <3>1. \A x : Kept(x, serial, lost)' <=> Kept(x', serial + 1, lost')
      BY <2>1 DEF Kept, Numbered
    <3> QED
      BY <2>1, <2>9, <2>12, <2>14
  <2> HIDE DEF k, both
  <2>16. RequestShape'
    BY <1>2, <1>3, <2>1 DEF RequestShape
  <2>17. OwnEntry(auditOld \o auditLog)'
    <3> DEFINE s == auditOld' \o auditLog'
    <3>1. \A i \in DOMAIN s : s[i] = e \/ \E j \in DOMAIN k : s[i] = k[j]
      <4>1. \A x : Has(s, x) => x = e \/ Has(k, x)
        BY <2>11, <2>12, <2>13
      <4> QED
        BY <4>1 DEF Has
    <3> HIDE DEF s
    <3>2. ASSUME NEW q \in Requests, NEW i \in DOMAIN s,
                 reqs'[q].at \in {"audited", "handler"}, reqs'[q].n = s[i].n
          PROVE  s[i].name = recorded(reqs'[q].name) /\ s[i].role = reqs'[q].role
      <4>1. CASE q = r
        <5>1. reqs'[q].n = serial + 1 /\ reqs'[q].name = reqs[r].name /\ reqs'[q].role = reqs[r].role
          BY <2>1, <4>1 DEF RequestShape
        <5>2. s[i] = e
          <6>1. \A j \in DOMAIN k : k[j].n # serial + 1
            BY <2>8 DEF Kept
          <6> QED
            BY <3>1, <3>2, <5>1, <6>1
        <5> QED
          BY <5>1, <5>2 DEF e
      <4>2. CASE q # r
        <5>1. reqs'[q] = reqs[q] /\ reqs[q].n \in 0..serial
          BY <2>1, <3>2, <4>2 DEF RequestShape
        <5>2. s[i] # e
          BY <2>2, <3>2, <5>1
        <5> QED
          BY <2>8, <3>1, <3>2, <5>1, <5>2 DEF OwnEntry
      <4> QED
        BY <4>1, <4>2
    <3> QED
      BY <3>2 DEF OwnEntry, s
  <2>18. auditOld' \in Seq(Entries) /\ auditLog' \in Seq(Entries)
    <3>1. <<>> \in Seq(Entries)
      OBVIOUS
    <3> QED
      BY <2>3, <2>7, <3>1
  <2> QED
    BY <1>1, <1>2, <1>3, <2>1, <2>15, <2>16, <2>17, <2>18 DEF AuditInv
<1> QED
  BY <1>4, <1>5

LEMMA AuditSteps == AuditInv /\ AccessNext /\ UNCHANGED configVars => AuditInv'
BY AuditStep, BesideAudit DEF AccessNext

LEMMA AuditFrame == AuditInv /\ UNCHANGED <<configVars, accessVars>> => AuditInv'
<1> SUFFICES ASSUME AuditInv, UNCHANGED <<configVars, accessVars>> PROVE AuditInv'
  OBVIOUS
<1>1. UNCHANGED configVars /\ UNCHANGED <<reqs, auditLog, auditOld, serial, lost>>
  BY DEF accessVars, auditVars
<1>2. KeyNames' = KeyNames /\ Roles' = Roles
  BY <1>1 DEF configVars, KeyNames, Roles, keyOf, matching
<1>3. RequestShape'
  BY <1>1, <1>2 DEF AuditInv, RequestShape
<1> QED
  BY <1>1, <1>3, LogStays DEF AuditInv

\* The audit log and its rotation (audit.go): whatever fails while the log is
\* rotated, no entry that was written is cut off or out of order, and a request
\* is recorded under its own key before its handler runs.
THEOREM NoEntryIsCutOff == AccessSpec => []AuditComplete
<1>1. ConfigInit /\ AccessInit => AuditInv
  BY AuditStart
<1>2. AuditInv /\ [\/ ConfigNext /\ UNCHANGED accessVars
                   \/ AccessNext /\ UNCHANGED configVars]_<<configVars, accessVars>> => AuditInv'
  BY AuditSteps, ConfigStep, AuditFrame
<1>3. AuditInv => AuditComplete
  BY KeptIsComplete
<1> QED
  BY <1>1, <1>2, <1>3, PTL DEF AccessSpec
-----------------------------------------------------------------------------
(* Reading the configuration *)

\* The entry a reader sees in a [[keys]] table.
keyIn(table) ==
  [name |-> valueOf(table, "name"), key |-> valueOf(table, "key"), role |-> valueOf(table, "role")]

\* g[n] is the configuration c after the first n pairs of a table.
TableRead(g, c, table) ==
  /\ g[0] = c
  /\ \A n \in 1..Len(table.pairs) : g[n] = readPair(table.name, g[n - 1], table.pairs[n])
  /\ readTable(c, table) = g[Len(table.pairs)]

LEMMA ReadTableValue == ASSUME NEW c, NEW table, Len(table.pairs) \in Nat PROVE \E g : TableRead(g, c, table)
<1> DEFINE N == Len(table.pairs)
           step(d, n) == readPair(table.name, d, table.pairs[n])
           Reads(g, m) == g = [n \in 0..m |-> IF n = 0 THEN c ELSE step(g[n - 1], n)]
           T == {m \in 0..N : \E g : Reads(g, m)}
<1>1. readTable(c, table) = (CHOOSE g : Reads(g, N))[N]
  BY DEF readTable
<1>2. N \in Nat
  OBVIOUS
<1> HIDE DEF N, step
<1>3. 0 \in T
  <2> DEFINE g == [n \in 0..0 |-> c]
  <2>1. Reads(g, 0)
    OBVIOUS
  <2>2. 0 \in 0..N
    BY <1>2
  <2> HIDE DEF g
  <2> QED
    BY <2>1, <2>2
<1>4. ASSUME NEW m \in 1..N, m - 1 \in T PROVE m \in T
  <2>1. m \in Nat /\ m # 0 /\ m \in 0..N
    BY <1>2, <1>4
  <2>2. PICK g : Reads(g, m - 1)
    BY <1>4
  <2> DEFINE h == [n \in 0..m |-> IF n = m THEN step(g[m - 1], m) ELSE g[n]]
  <2>3. ASSUME NEW n \in 0..m PROVE h[n] = IF n = 0 THEN c ELSE step(h[n - 1], n)
    <3>1. CASE n = m
      <4>1. m - 1 \in 0..m /\ m - 1 # m
        BY <2>1
      <4> QED
        BY <2>1, <3>1, <4>1
    <3>2. CASE n # m
      <4>1. n \in 0..(m - 1) /\ h[n] = g[n] /\ (n # 0 => n - 1 \in 0..m /\ n - 1 # m)
        BY <2>1, <3>2
      <4>2. g[n] = IF n = 0 THEN c ELSE step(g[n - 1], n)
        BY <2>2, <4>1
      <4> QED
        BY <4>1, <4>2
    <3> QED
      BY <3>1, <3>2
  <2>4. Reads(h, m)
    BY <2>3
  <2> QED
    BY <2>1, <2>4
<1>5. \E g : Reads(g, N)
  <2>1. \A n \in 0..N : n \in T
    <3> HIDE DEF T
    <3> QED
      BY <1>2, <1>3, <1>4, UpTo
  <2>2. N \in 0..N
    BY <1>2
  <2> QED
    BY <2>1, <2>2
<1> DEFINE g == CHOOSE g : Reads(g, N)
<1>6. Reads(g, N)
  BY <1>5
<1> HIDE DEF g
<1>7. g[0] = c /\ \A n \in 1..N : g[n] = step(g[n - 1], n)
  <2>1. 0 \in 0..N /\ \A n \in 1..N : n \in 0..N /\ n # 0
    BY <1>2
  <2> HIDE DEF T
  <2>2. \A n \in 0..N : g[n] = IF n = 0 THEN c ELSE step(g[n - 1], n)
    BY <1>6
  <2> QED
    BY <2>1, <2>2
<1>8. readTable(c, table) = g[N]
  BY <1>1 DEF g
<1>9. TableRead(g, c, table)
  BY <1>7, <1>8 DEF N, step, TableRead
<1> QED
  BY <1>9

\* g[n] is the configuration after the first n tables of a file.
FileRead(g, tables) ==
  /\ g[0] = Default
  /\ \A n \in 1..Len(tables) : g[n] = readTable(g[n - 1], tables[n])
  /\ Load(tables) = g[Len(tables)]

LEMMA LoadValue == ASSUME NEW tables, Len(tables) \in Nat PROVE \E g : FileRead(g, tables)
<1> DEFINE N == Len(tables)
           step(d, n) == readTable(d, tables[n])
           Reads(g, m) == g = [n \in 0..m |-> IF n = 0 THEN Default ELSE step(g[n - 1], n)]
           T == {m \in 0..N : \E g : Reads(g, m)}
<1>1. Load(tables) = (CHOOSE g : Reads(g, N))[N]
  BY DEF Load
<1>2. N \in Nat
  OBVIOUS
<1> HIDE DEF N, step
<1>3. 0 \in T
  <2> DEFINE g == [n \in 0..0 |-> Default]
  <2>1. Reads(g, 0)
    OBVIOUS
  <2>2. 0 \in 0..N
    BY <1>2
  <2> HIDE DEF g
  <2> QED
    BY <2>1, <2>2
<1>4. ASSUME NEW m \in 1..N, m - 1 \in T PROVE m \in T
  <2>1. m \in Nat /\ m # 0 /\ m \in 0..N
    BY <1>2, <1>4
  <2>2. PICK g : Reads(g, m - 1)
    BY <1>4
  <2> DEFINE h == [n \in 0..m |-> IF n = m THEN step(g[m - 1], m) ELSE g[n]]
  <2>3. ASSUME NEW n \in 0..m PROVE h[n] = IF n = 0 THEN Default ELSE step(h[n - 1], n)
    <3>1. CASE n = m
      <4>1. m - 1 \in 0..m /\ m - 1 # m
        BY <2>1
      <4> QED
        BY <2>1, <3>1, <4>1
    <3>2. CASE n # m
      <4>1. n \in 0..(m - 1) /\ h[n] = g[n] /\ (n # 0 => n - 1 \in 0..m /\ n - 1 # m)
        BY <2>1, <3>2
      <4>2. g[n] = IF n = 0 THEN Default ELSE step(g[n - 1], n)
        BY <2>2, <4>1
      <4> QED
        BY <4>1, <4>2
    <3> QED
      BY <3>1, <3>2
  <2>4. Reads(h, m)
    BY <2>3
  <2> QED
    BY <2>1, <2>4
<1>5. \E g : Reads(g, N)
  <2>1. \A n \in 0..N : n \in T
    <3> HIDE DEF T
    <3> QED
      BY <1>2, <1>3, <1>4, UpTo
  <2>2. N \in 0..N
    BY <1>2
  <2> QED
    BY <2>1, <2>2
<1> DEFINE g == CHOOSE g : Reads(g, N)
<1>6. Reads(g, N)
  BY <1>5
<1> HIDE DEF g
<1>7. g[0] = Default /\ \A n \in 1..N : g[n] = step(g[n - 1], n)
  <2>1. 0 \in 0..N /\ \A n \in 1..N : n \in 0..N /\ n # 0
    BY <1>2
  <2> HIDE DEF T
  <2>2. \A n \in 0..N : g[n] = IF n = 0 THEN Default ELSE step(g[n - 1], n)
    BY <1>6
  <2> QED
    BY <2>1, <2>2
<1>8. Load(tables) = g[N]
  BY <1>1 DEF g
<1>9. FileRead(g, tables)
  BY <1>7, <1>8 DEF N, step, FileRead
<1> QED
  BY <1>9

\* g[n] are the keys a reader sees in the first n tables.
KeysSeen(g, tables) ==
  /\ g[0] = <<>>
  /\ \A n \in 1..Len(tables) : g[n] = (IF tables[n].name # "keys" THEN g[n - 1]
                                        ELSE Append(g[n - 1], keyIn(tables[n])))
  /\ written(tables) = g[Len(tables)]

LEMMA WrittenValue == ASSUME NEW tables, Len(tables) \in Nat PROVE \E g : KeysSeen(g, tables)
<1> DEFINE N == Len(tables)
           step(d, n) == IF tables[n].name # "keys" THEN d ELSE Append(d, keyIn(tables[n]))
           Reads(g, m) == g = [n \in 0..m |-> IF n = 0 THEN <<>> ELSE step(g[n - 1], n)]
           T == {m \in 0..N : \E g : Reads(g, m)}
<1>1. written(tables) = (CHOOSE g : Reads(g, N))[N]
  BY DEF written, keyIn
<1>2. N \in Nat
  OBVIOUS
<1> HIDE DEF N, step
<1>3. 0 \in T
  <2> DEFINE g == [n \in 0..0 |-> <<>>]
  <2>1. Reads(g, 0)
    OBVIOUS
  <2>2. 0 \in 0..N
    BY <1>2
  <2> HIDE DEF g
  <2> QED
    BY <2>1, <2>2
<1>4. ASSUME NEW m \in 1..N, m - 1 \in T PROVE m \in T
  <2>1. m \in Nat /\ m # 0 /\ m \in 0..N
    BY <1>2, <1>4
  <2>2. PICK g : Reads(g, m - 1)
    BY <1>4
  <2> DEFINE h == [n \in 0..m |-> IF n = m THEN step(g[m - 1], m) ELSE g[n]]
  <2>3. ASSUME NEW n \in 0..m PROVE h[n] = IF n = 0 THEN <<>> ELSE step(h[n - 1], n)
    <3>1. CASE n = m
      <4>1. m - 1 \in 0..m /\ m - 1 # m
        BY <2>1
      <4> QED
        BY <2>1, <3>1, <4>1
    <3>2. CASE n # m
      <4>1. n \in 0..(m - 1) /\ h[n] = g[n] /\ (n # 0 => n - 1 \in 0..m /\ n - 1 # m)
        BY <2>1, <3>2
      <4>2. g[n] = IF n = 0 THEN <<>> ELSE step(g[n - 1], n)
        BY <2>2, <4>1
      <4> QED
        BY <4>1, <4>2
    <3> QED
      BY <3>1, <3>2
  <2>4. Reads(h, m)
    BY <2>3
  <2> QED
    BY <2>1, <2>4
<1>5. \E g : Reads(g, N)
  <2>1. \A n \in 0..N : n \in T
    <3> HIDE DEF T
    <3> QED
      BY <1>2, <1>3, <1>4, UpTo
  <2>2. N \in 0..N
    BY <1>2
  <2> QED
    BY <2>1, <2>2
<1> DEFINE g == CHOOSE g : Reads(g, N)
<1>6. Reads(g, N)
  BY <1>5
<1> HIDE DEF g
<1>7. g[0] = <<>> /\ \A n \in 1..N : g[n] = step(g[n - 1], n)
  <2>1. 0 \in 0..N /\ \A n \in 1..N : n \in 0..N /\ n # 0
    BY <1>2
  <2> HIDE DEF T
  <2>2. \A n \in 0..N : g[n] = IF n = 0 THEN <<>> ELSE step(g[n - 1], n)
    BY <1>6
  <2> QED
    BY <2>1, <2>2
<1>8. written(tables) = g[N]
  BY <1>1 DEF g
<1>9. KeysSeen(g, tables)
  BY <1>7, <1>8 DEF N, step, KeysSeen
<1> QED
  BY <1>9

-----------------------------------------------------------------------------
(* The lines of [[keys]] *)

KeyFields == {"name", "key", "role"}
KeyEntries(V) == [name : V, key : V, role : V]

\* What a field that no line has set holds.
Nothing == ""

\* An entry whose first line names it.
named(value) == [name |-> value, key |-> Nothing, role |-> Nothing]

\* A line of a table of keys holds what it says.
LEMMA ParsedField == ASSUME NEW field \in KeyFields, NEW value, NEW old PROVE parsed(field, value, old) = value
<1>1. field \notin Flags
  BY DEF Flags, KeyFields
<1>2. field # "events"
  BY DEF KeyFields
<1>3. field \notin Numbers
  <2>1. DOMAIN Default.rate_limit = {"ip_tps", "ip_burst", "key_tps", "key_burst", "max_clients"}
    BY DEF Default
  <2> QED
    BY <2>1 DEF Numbers, KeyFields
<1> QED
  BY <1>1, <1>2, <1>3 DEF parsed

\* The line with the name starts an entry.
LEMMA ConsumeName ==
  ASSUME NEW E, NEW pair, pair.key = "name"
  PROVE  consume("keys", E, pair) = Append(E, named(pair.value))
<1>1. starts["keys"] = "name" /\ blank["keys"] = named(Nothing)
  BY DEF starts, blank, named, Nothing
<1>2. consume("keys", E, pair) = Append(E, [blank["keys"] EXCEPT ![pair.key] = pair.value])
  <2>1. pair.key = starts["keys"]
    BY <1>1
  <2> QED
    BY <2>1, Zenon DEF consume
<1>3. \A v : [named(Nothing) EXCEPT !["name"] = v] = named(v)
  BY DEF named
<1> QED
  BY <1>1, <1>2, <1>3, Zenon

\* F is E with the value of a pair in the last entry, if there is one.
PutLast(V, E, F, pair) ==
  /\ F \in Seq(KeyEntries(V)) /\ Len(F) = Len(E)
  /\ \A i \in 1..Len(E) :
       /\ F[i].name = E[i].name
       /\ F[i].key = IF i = Len(E) /\ pair.key = "key" THEN pair.value ELSE E[i].key
       /\ F[i].role = IF i = Len(E) /\ pair.key = "role" THEN pair.value ELSE E[i].role

isField(pair, V) == pair.key \in {"key", "role"} /\ pair.value \in V

\* Another line is put into the last entry.
LEMMA ConsumeField ==
  ASSUME NEW V, NEW E \in Seq(KeyEntries(V)), NEW pair, isField(pair, V)
  PROVE  PutLast(V, E, consume("keys", E, pair), pair)
<1> DEFINE m == Len(E)
           F == consume("keys", E, pair)
<1>0. pair.key \in {"key", "role"} /\ pair.value \in V
  BY DEF isField
<1>1. m \in Nat /\ E \in [1..m -> KeyEntries(V)]
  BY LenProperties
<1>2. pair.key # starts["keys"] /\ pair.key \in DOMAIN blank["keys"]
  BY <1>0 DEF starts, blank
<1>3. CASE E = <<>>
  <2>1. F = E
    BY <1>2, <1>3 DEF consume
  <2>2. 1..m = {}
    <3>1. m = 0
      BY <1>3
    <3> QED
      BY <3>1
  <2> HIDE DEF F, m
  <2> QED
    BY <2>1, <2>2 DEF m, F, PutLast
<1>4. CASE E # <<>>
  <2>1. m > 0 /\ m \in 1..m
    BY <1>1, <1>4, EmptySeq
  <2>2. F = [E EXCEPT ![m][pair.key] = parsed(pair.key, pair.value, @)]
    BY <1>2, <1>4 DEF consume
  <2>3. parsed(pair.key, pair.value, E[m][pair.key]) = pair.value
    BY <1>0, ParsedField DEF KeyFields
  <2> DEFINE e == [E[m] EXCEPT ![pair.key] = pair.value]
  <2>4. F = [E EXCEPT ![m] = e]
    BY <2>2, <2>3
  <2>5. E[m] \in KeyEntries(V)
    BY <1>1, <2>1
  <2>6. /\ e \in KeyEntries(V)
        /\ e.name = E[m].name
        /\ e.key = IF pair.key = "key" THEN pair.value ELSE E[m].key
        /\ e.role = IF pair.key = "role" THEN pair.value ELSE E[m].role
    BY <1>0, <2>5 DEF KeyEntries
  <2> HIDE DEF e, F, m
  <2>7. F \in [1..m -> KeyEntries(V)]
    BY <1>1, <2>1, <2>4, <2>6
  <2>8. F \in Seq(KeyEntries(V)) /\ Len(F) = m
    BY <1>1, <2>7, IsASeq, LenProperties
  <2>9. \A i \in 1..m : F[i] = IF i = m THEN e ELSE E[i]
    BY <1>1, <2>1, <2>4
  <2> QED
    BY <2>6, <2>8, <2>9 DEF m, F, PutLast
<1> QED
  BY <1>3, <1>4

\* Whatever the line, the keys stay a sequence of entries.
LEMMA ConsumeTypes ==
  ASSUME NEW V, Nothing \in V, NEW E \in Seq(KeyEntries(V)), NEW pair, pair.value \in V
  PROVE  consume("keys", E, pair) \in Seq(KeyEntries(V))
<1>1. CASE pair.key = "name"
  <2>1. named(pair.value) \in KeyEntries(V)
    BY DEF named, KeyEntries
  <2>2. Append(E, named(pair.value)) \in Seq(KeyEntries(V))
    BY <2>1, AppendProperties
  <2> QED
    BY <1>1, <2>2, ConsumeName
<1>2. CASE pair.key \in {"key", "role"}
  <2>0. isField(pair, V)
    BY <1>2 DEF isField
  <2>1. PutLast(V, E, consume("keys", E, pair), pair)
    BY <2>0, ConsumeField
  <2> QED
    BY <2>1 DEF PutLast
<1>3. CASE pair.key \notin KeyFields
  <2>1. pair.key \notin DOMAIN blank["keys"] /\ pair.key # starts["keys"]
    BY <1>3 DEF blank, starts, KeyFields
  <2> QED
    BY <2>1 DEF consume
<1> QED
  BY <1>1, <1>2, <1>3 DEF KeyFields

\* A line outside of [[keys]] leaves the keys alone.
LEMMA PairOfKeys ==
  ASSUME NEW section, NEW c, "keys" \in DOMAIN c, NEW pair
  PROVE  LET d == readPair(section, c, pair)
         IN /\ "keys" \in DOMAIN d
            /\ d.keys = IF section = "keys" THEN consume("keys", c.keys, pair) ELSE c.keys
<1> DEFINE d == readPair(section, c, pair)
<1>0. DOMAIN starts = {"keys", "nodes", "webhooks"}
  BY DEF starts
<1>1. CASE section \in DOMAIN starts
  <2>1. d = [c EXCEPT ![section] = consume(section, c[section], pair)]
    BY <1>0, <1>1 DEF readPair
  <2>2. section \in {"nodes", "webhooks"} \/ section = "keys"
    BY <1>0, <1>1
  <2> QED
    BY <2>1, <2>2
<1>2. CASE section \notin DOMAIN starts /\ section \in {"server", "rate_limit", "remote", "panel"}
  <2>1. d = c \/ d = [c EXCEPT ![section][pair.key] = parsed(pair.key, pair.value, @)]
    BY <1>2 DEF readPair
  <2> HIDE DEF d
  <2>2. section # "keys"
    BY <1>2
  <2> QED
    BY <2>1, <2>2 DEF d
<1>3. CASE section \notin DOMAIN starts /\ section \notin {"server", "rate_limit", "remote", "panel"}
  <2>1. d = c
    BY <1>3 DEF readPair
  <2>2. section # "keys"
    BY <1>0, <1>3
  <2> QED
    BY <2>1, <2>2
<1> QED
  BY <1>1, <1>2, <1>3

-----------------------------------------------------------------------------
(* The tables of a file *)

\* F is E after a [[keys]] table with its three lines, whose entry a reader takes
\* for w: a field of it is there and nothing else got it, or it is missing.
Follows(V, E, F, w) ==
  LET m == Len(E) + 1 IN
  /\ F \in Seq(KeyEntries(V)) /\ Len(F) = m
  /\ \A i \in 1..Len(E) : F[i].name = E[i].name
  /\ \A i \in 1..Len(E) : i < Len(E) => F[i].key = E[i].key /\ F[i].role = E[i].role
  /\ F[m].name = w.name
  /\ (F[m].key = w.key /\ (\A i \in 1..Len(E) : F[i].key = E[i].key)) \/ F[m].key = Nothing
  /\ (F[m].role = w.role /\ (\A i \in 1..Len(E) : F[i].role = E[i].role)) \/ F[m].role = Nothing

\* The keys of the three lines, and what a reader takes them for.
LEMMA ThreeLines ==
  ASSUME NEW table, threeLines(table)
  PROVE  LET k(i) == table.pairs[i].key
             v(i) == table.pairs[i].value
         IN /\ \A i \in 1..3 : k(i) \in {"name", "key", "role"}
            /\ \A i, j \in 1..3 : i # j => k(i) # k(j)
            /\ \A i \in 1..3 : /\ k(i) = "name" => keyIn(table).name = v(i)
                               /\ k(i) = "key" => keyIn(table).key = v(i)
                               /\ k(i) = "role" => keyIn(table).role = v(i)
<1> DEFINE k(i) == table.pairs[i].key
           v(i) == table.pairs[i].value
<1>1. {k(i) : i \in 1..3} = {"name", "key", "role"}
  BY DEF threeLines
<1>2. \A field : valueOf(table, field) = v(CHOOSE i \in 1..3 : k(i) = field)
  BY DEF valueOf
<1> HIDE DEF k, v
<1>3. \A i \in 1..3 : i = 1 \/ i = 2 \/ i = 3
  OBVIOUS
<1>4. \A i \in 1..3 : k(i) \in {"name", "key", "role"}
  BY <1>1
<1>5. \A i, j \in 1..3 : i # j => k(i) # k(j)
  <2>1. /\ "name" \in {k(i) : i \in 1..3}
        /\ "key" \in {k(i) : i \in 1..3}
        /\ "role" \in {k(i) : i \in 1..3}
    BY <1>1
  <2>2. /\ k(1) = "name" \/ k(2) = "name" \/ k(3) = "name"
        /\ k(1) = "key" \/ k(2) = "key" \/ k(3) = "key"
        /\ k(1) = "role" \/ k(2) = "role" \/ k(3) = "role"
    BY <1>3, <2>1
  <2>3. k(1) # k(2) /\ k(1) # k(3) /\ k(2) # k(3)
    BY <2>2
  <2> QED
    BY <1>3, <2>3
<1>6. \A i \in 1..3 : valueOf(table, k(i)) = v(i)
  <2>1. ASSUME NEW i \in 1..3 PROVE (CHOOSE j \in 1..3 : k(j) = k(i)) = i
    <3> DEFINE c == CHOOSE j \in 1..3 : k(j) = k(i)
    <3>1. c \in 1..3 /\ k(c) = k(i)
      OBVIOUS
    <3> HIDE DEF c
    <3> QED
      BY <1>5, <3>1 DEF c
  <2> QED
    BY <1>2, <2>1
<1>7. \A i \in 1..3 : /\ k(i) = "name" => keyIn(table).name = v(i)
                      /\ k(i) = "key" => keyIn(table).key = v(i)
                      /\ k(i) = "role" => keyIn(table).role = v(i)
  BY <1>6 DEF keyIn
<1> QED
  BY <1>4, <1>5, <1>7 DEF k, v

\* F is E with an entry that a pair names.
PutName(V, E, F, pair) ==
  LET m == Len(E) + 1 IN
  /\ F \in Seq(KeyEntries(V)) /\ Len(F) = m
  /\ \A i \in 1..Len(E) : F[i].name = E[i].name /\ F[i].key = E[i].key /\ F[i].role = E[i].role
  /\ F[m].name = pair.value /\ F[m].key = Nothing /\ F[m].role = Nothing

LEMMA NameLine ==
  ASSUME NEW V, Nothing \in V, NEW E \in Seq(KeyEntries(V)), NEW pair, pair.key = "name", pair.value \in V
  PROVE  PutName(V, E, consume("keys", E, pair), pair)
<1> DEFINE e == named(pair.value)
<1>1. e \in KeyEntries(V) /\ e.name = pair.value /\ e.key = Nothing /\ e.role = Nothing
  BY DEF named, KeyEntries
<1>2. consume("keys", E, pair) = Append(E, e)
  BY ConsumeName
<1> HIDE DEF e
<1>3. /\ Append(E, e) \in Seq(KeyEntries(V)) /\ Len(Append(E, e)) = Len(E) + 1
      /\ \A i \in 1..Len(E) : Append(E, e)[i] = E[i]
      /\ Append(E, e)[Len(E) + 1] = e
  BY <1>1, AppendProperties
<1> QED
  BY <1>1, <1>2, <1>3 DEF PutName

\* A line in its place: E becomes F.
Line(V, E, F, pair) ==
  IF pair.key = "name" THEN PutName(V, E, F, pair) ELSE PutLast(V, E, F, pair)

LEMMA OneLine ==
  ASSUME NEW V, Nothing \in V, NEW E \in Seq(KeyEntries(V)), NEW pair,
         pair.key \in {"name", "key", "role"}, pair.value \in V
  PROVE  Line(V, E, consume("keys", E, pair), pair) /\ consume("keys", E, pair) \in Seq(KeyEntries(V))
<1>1. CASE pair.key = "name"
  BY <1>1, NameLine DEF Line, PutName
<1>2. CASE pair.key # "name"
  <2>1. isField(pair, V)
    BY <1>2 DEF isField
  <2>2. PutLast(V, E, consume("keys", E, pair), pair)
    BY <2>1, ConsumeField
  <2> QED
    BY <1>2, <2>2 DEF Line, PutLast
<1> QED
  BY <1>1, <1>2

fits(pair, w) ==
  /\ pair.key = "name" => w.name = pair.value
  /\ pair.key = "key" => w.key = pair.value
  /\ pair.key = "role" => w.role = pair.value

\* Three lines in any order.
LEMMA ThreeSteps ==
  ASSUME NEW V, NEW E \in Seq(KeyEntries(V)), NEW w, NEW D, NEW F, NEW G, NEW p, NEW q, NEW r,
         Line(V, E, D, p), Line(V, D, F, q), Line(V, F, G, r), fits(p, w), fits(q, w), fits(r, w),
         {p.key, q.key, r.key} \subseteq {"name", "key", "role"},
         p.key # q.key, p.key # r.key, q.key # r.key
  PROVE  Follows(V, E, G, w)
<1>0. Len(E) \in Nat
  BY LenProperties
<1> DEFINE m == Len(E) + 1
<1>1. CASE p.key = "name"
  <2>1. PutName(V, E, D, p) /\ PutLast(V, D, F, q) /\ PutLast(V, F, G, r)
    BY <1>1 DEF Line
  <2>2. /\ G \in Seq(KeyEntries(V)) /\ Len(G) = m
        /\ \A i \in 1..Len(E) : i \in 1..m /\ i # m
        /\ m \in 1..m
    BY <1>0, <2>1 DEF PutName, PutLast
  <2>3. \A i \in 1..Len(E) : G[i].name = E[i].name /\ G[i].key = E[i].key /\ G[i].role = E[i].role
    BY <2>1, <2>2 DEF PutName, PutLast
  <2>4. G[m].name = w.name /\ G[m].key = w.key /\ G[m].role = w.role
    BY <1>1, <2>1, <2>2 DEF PutName, PutLast, fits
  <2> QED
    BY <2>2, <2>3, <2>4 DEF Follows
<1>2. CASE q.key = "name"
  <2>1. PutLast(V, E, D, p) /\ PutName(V, D, F, q) /\ PutLast(V, F, G, r)
    BY <1>2 DEF Line
  <2>2. /\ G \in Seq(KeyEntries(V)) /\ Len(G) = m
        /\ \A i \in 1..Len(E) : i \in 1..m /\ i # m
        /\ m \in 1..m
    BY <1>0, <2>1 DEF PutName, PutLast
  <2>3. \A i \in 1..Len(E) : /\ G[i].name = E[i].name
                             /\ G[i].key = D[i].key /\ G[i].role = D[i].role
    BY <2>1, <2>2 DEF PutName, PutLast
  <2>4. /\ G[m].name = w.name
        /\ r.key = "key" => G[m].key = w.key /\ G[m].role = Nothing
        /\ r.key = "role" => G[m].role = w.role /\ G[m].key = Nothing
    BY <1>2, <2>1, <2>2 DEF PutName, PutLast, fits
  <2>5. /\ \A i \in 1..Len(E) : i < Len(E) => D[i].key = E[i].key /\ D[i].role = E[i].role
        /\ r.key = "key" => \A i \in 1..Len(E) : D[i].key = E[i].key
        /\ r.key = "role" => \A i \in 1..Len(E) : D[i].role = E[i].role
    <3>1. p.key \in {"key", "role"} /\ p.key # r.key
      BY <1>2
    <3>2. Len(D) = Len(E) /\ \A i \in 1..Len(E) : i < Len(E) => i # Len(E)
      BY <1>0, <2>1 DEF PutLast
    <3>3. \A i \in 1..Len(E) : /\ i # Len(E) \/ p.key # "key" => D[i].key = E[i].key
                               /\ i # Len(E) \/ p.key # "role" => D[i].role = E[i].role
      BY <2>1 DEF PutLast
    <3> QED
      BY <3>1, <3>2, <3>3
  <2>6. r.key \in {"key", "role"}
    BY <1>2
  <2> QED
    BY <2>2, <2>3, <2>4, <2>5, <2>6 DEF Follows
<1>3. CASE r.key = "name"
  <2>1. PutLast(V, E, D, p) /\ PutLast(V, D, F, q) /\ PutName(V, F, G, r)
    BY <1>3 DEF Line
  <2>2. /\ G \in Seq(KeyEntries(V)) /\ Len(G) = m /\ Len(D) = Len(E) /\ Len(F) = Len(E)
    BY <1>0, <2>1 DEF PutName, PutLast
  <2>3. \A i \in 1..Len(E) : /\ G[i].name = E[i].name
                             /\ i < Len(E) => G[i].key = E[i].key /\ G[i].role = E[i].role
    BY <1>0, <2>1, <2>2 DEF PutName, PutLast
  <2>4. G[m].name = w.name /\ G[m].key = Nothing /\ G[m].role = Nothing
    BY <1>3, <2>1, <2>2 DEF PutName, fits
  <2> QED
    BY <2>2, <2>3, <2>4 DEF Follows
<1> QED
  BY <1>1, <1>2, <1>3

\* What reading a table makes of the keys.
LEMMA TableOfKeys ==
  ASSUME NEW V, Nothing \in V, NEW c, "keys" \in DOMAIN c, c.keys \in Seq(KeyEntries(V)),
         NEW table, Len(table.pairs) \in Nat, \A i \in 1..Len(table.pairs) : table.pairs[i].value \in V
  PROVE  LET d == readTable(c, table)
         IN /\ "keys" \in DOMAIN d /\ d.keys \in Seq(KeyEntries(V))
            /\ table.name # "keys" => d.keys = c.keys
            /\ table.name = "keys" /\ threeLines(table) => Follows(V, c.keys, d.keys, keyIn(table))
<1> DEFINE N == Len(table.pairs)
           pair(n) == table.pairs[n]
<1>1. PICK g : /\ g[0] = c
               /\ \A n \in 1..N : g[n] = readPair(table.name, g[n - 1], pair(n))
               /\ readTable(c, table) = g[N]
  <2>1. \E g : TableRead(g, c, table)
    BY ReadTableValue
  <2> QED
    BY <2>1 DEF TableRead
<1>2. N \in Nat /\ \A n \in 1..N : pair(n).value \in V
  OBVIOUS
<1> HIDE DEF N, pair
<1> DEFINE ok(d) == /\ "keys" \in DOMAIN d /\ d.keys \in Seq(KeyEntries(V))
                    /\ table.name # "keys" => d.keys = c.keys
           S == {n \in 0..N : ok(g[n])}
<1>3. ASSUME NEW d, ok(d), NEW n \in 1..N
      PROVE  /\ ok(readPair(table.name, d, pair(n)))
             /\ table.name = "keys" => readPair(table.name, d, pair(n)).keys = consume("keys", d.keys, pair(n))
  <2> DEFINE e == readPair(table.name, d, pair(n))
  <2>1. "keys" \in DOMAIN e /\ e.keys = IF table.name = "keys" THEN consume("keys", d.keys, pair(n)) ELSE d.keys
    BY <1>3, PairOfKeys
  <2>2. consume("keys", d.keys, pair(n)) \in Seq(KeyEntries(V))
    BY <1>2, <1>3, ConsumeTypes
  <2> HIDE DEF e
  <2>3. ok(e) /\ (table.name = "keys" => e.keys = consume("keys", d.keys, pair(n)))
    BY <1>3, <2>1, <2>2
  <2> QED
    BY <2>3 DEF e
<1>4. ok(g[0])
  BY <1>1
<1> HIDE DEF ok
<1>5. \A n \in 0..N : n \in S
  <2>1. 0 \in S
    BY <1>2, <1>4
  <2>2. ASSUME NEW n \in 1..N, n - 1 \in S PROVE n \in S
    BY <1>1, <1>2, <1>3, <2>2
  <2> HIDE DEF S
  <2> QED
    BY <1>2, <2>1, <2>2, UpTo
<1>6. \A n \in 0..N : ok(g[n])
  BY <1>5
<1>7. ok(g[N])
  BY <1>2, <1>6
<1>8. ASSUME table.name = "keys", threeLines(table)
      PROVE  Follows(V, c.keys, g[N].keys, keyIn(table))
  <2>1. N = 3 /\ 1 \in 1..N /\ 2 \in 1..N /\ 3 \in 1..N /\ 0 \in 0..N /\ 1 \in 0..N /\ 2 \in 0..N /\ 1 - 1 = 0 /\ 2 - 1 = 1 /\ 3 - 1 = 2
    BY <1>8 DEF threeLines, N
  <2> DEFINE k(n) == pair(n).key
             w == keyIn(table)
  <2>2. /\ \A i \in 1..3 : k(i) \in {"name", "key", "role"}
        /\ \A i, j \in 1..3 : i # j => k(i) # k(j)
        /\ \A i \in 1..3 : fits(pair(i), w)
    BY <1>8, ThreeLines DEF pair, fits
  <2> HIDE DEF w
  <2>3. ASSUME NEW n \in 1..N
        PROVE  /\ g[n].keys = consume("keys", g[n - 1].keys, pair(n))
               /\ Line(V, g[n - 1].keys, g[n].keys, pair(n))
    <3>1. n - 1 \in 0..N /\ n \in 1..3
      BY <1>2, <2>1
    <3>2. ok(g[n - 1])
      BY <1>6, <3>1
    <3>3. g[n].keys = consume("keys", g[n - 1].keys, pair(n))
      BY <1>1, <1>3, <1>8, <3>2
    <3>4. g[n - 1].keys \in Seq(KeyEntries(V))
      BY <3>2 DEF ok
    <3>5. Line(V, g[n - 1].keys, consume("keys", g[n - 1].keys, pair(n)), pair(n))
      <4>1. pair(n).key \in {"name", "key", "role"} /\ pair(n).value \in V
        BY <1>2, <2>2, <3>1
      <4> DEFINE E == g[n - 1].keys
                 p == pair(n)
      <4>2. E \in Seq(KeyEntries(V)) /\ p.key \in {"name", "key", "role"} /\ p.value \in V
        BY <3>4, <4>1
      <4> HIDE DEF E, p
      <4>3. Line(V, E, consume("keys", E, p), p)
        BY <4>2, OneLine
      <4> QED
        BY <4>3 DEF E, p
    <3> QED
      BY <3>3, <3>5
  <2>4. /\ Line(V, g[0].keys, g[1].keys, pair(1))
        /\ Line(V, g[1].keys, g[2].keys, pair(2))
        /\ Line(V, g[2].keys, g[3].keys, pair(3))
    BY <2>1, <2>3
  <2>5. /\ {k(1), k(2), k(3)} \subseteq {"name", "key", "role"}
        /\ k(1) # k(2) /\ k(1) # k(3) /\ k(2) # k(3)
        /\ fits(pair(1), w) /\ fits(pair(2), w) /\ fits(pair(3), w)
    BY <2>2
  <2>6. g[0].keys \in Seq(KeyEntries(V))
    BY <1>1
  <2>7. Follows(V, g[0].keys, g[3].keys, w)
    BY <2>4, <2>5, <2>6, ThreeSteps
  <2> QED
    BY <1>1, <2>1, <2>7 DEF w
<1> QED
  BY <1>1, <1>7, <1>8 DEF ok

\* E are the keys read from a file, W those a reader sees: as many, of the same
\* names, and a field that is not as written leaves another one missing.
SameOrMissing(V, E, W) ==
  /\ E \in Seq(KeyEntries(V)) /\ W \in Seq(KeyEntries(V)) /\ Len(E) = Len(W)
  /\ \A i \in 1..Len(E) : E[i].name = W[i].name
  /\ (\A i \in 1..Len(E) : E[i].key = W[i].key) \/ (\E i \in 1..Len(E) : E[i].key = Nothing)
  /\ (\A i \in 1..Len(E) : E[i].role = W[i].role) \/ (\E i \in 1..Len(E) : E[i].role = Nothing)

LEMMA NextTable ==
  ASSUME NEW V, NEW E, NEW W, SameOrMissing(V, E, W), NEW w \in KeyEntries(V), NEW F, Follows(V, E, F, w)
  PROVE  SameOrMissing(V, F, Append(W, w))
<1> DEFINE X == Append(W, w)
           m == Len(E) + 1
<1>1. /\ X \in Seq(KeyEntries(V)) /\ Len(X) = m /\ Len(E) \in Nat
      /\ \A i \in 1..Len(E) : X[i] = W[i]
      /\ X[m] = w
  BY AppendProperties, LenProperties DEF SameOrMissing
<1>2. F \in Seq(KeyEntries(V)) /\ Len(F) = m
  BY DEF Follows
<1>3. \A i \in 1..m : i \in 1..Len(E) \/ i = m
  BY <1>1
<1>4. m \in 1..m /\ \A i \in 1..Len(E) : i \in 1..m /\ (i < Len(E) \/ i = Len(E))
  BY <1>1
<1> HIDE DEF X
<1>5. \A i \in 1..m : F[i].name = X[i].name
  BY <1>1, <1>3 DEF Follows, SameOrMissing
<1>6. (\A i \in 1..m : F[i].key = X[i].key) \/ (\E i \in 1..m : F[i].key = Nothing)
  <2>1. CASE F[m].key = Nothing
    BY <1>4, <2>1
  <2>2. CASE F[m].key = w.key /\ (\A i \in 1..Len(E) : F[i].key = E[i].key)
    BY <1>1, <1>3, <1>4, <2>2 DEF SameOrMissing
  <2> QED
    BY <2>1, <2>2 DEF Follows
<1>7. (\A i \in 1..m : F[i].role = X[i].role) \/ (\E i \in 1..m : F[i].role = Nothing)
  <2>1. CASE F[m].role = Nothing
    BY <1>4, <2>1
  <2>2. CASE F[m].role = w.role /\ (\A i \in 1..Len(E) : F[i].role = E[i].role)
    BY <1>1, <1>3, <1>4, <2>2 DEF SameOrMissing
  <2> QED
    BY <2>1, <2>2 DEF Follows
<1> QED
  BY <1>1, <1>2, <1>5, <1>6, <1>7 DEF SameOrMissing, X

-----------------------------------------------------------------------------
(* Whole files *)

\* The texts of a file, and none.
Texts(f) == {Nothing} \cup UNION {{f[i].pairs[j].value : j \in DOMAIN f[i].pairs} : i \in DOMAIN f}

IsFile(f) == isSeq(f) /\ \A i \in DOMAIN f : isSeq(f[i].pairs)

\* A reader takes the three lines of a table for an entry.
LEMMA KeyIsEntry ==
  ASSUME NEW V, NEW table, threeLines(table), \A i \in 1..3 : table.pairs[i].value \in V
  PROVE  keyIn(table) \in KeyEntries(V)
<1> DEFINE k(i) == table.pairs[i].key
           v(i) == table.pairs[i].value
<1>1. \A i \in 1..3 : /\ k(i) = "name" => keyIn(table).name = v(i)
                      /\ k(i) = "key" => keyIn(table).key = v(i)
                      /\ k(i) = "role" => keyIn(table).role = v(i)
  BY ThreeLines
<1>2. {k(i) : i \in 1..3} = {"name", "key", "role"}
  BY DEF threeLines
<1>3. \A i \in 1..3 : v(i) \in V
  OBVIOUS
<1> HIDE DEF k, v
<1>4. keyIn(table).name \in V /\ keyIn(table).key \in V /\ keyIn(table).role \in V
  BY <1>1, <1>2, <1>3
<1>5. keyIn(table) = [name |-> keyIn(table).name, key |-> keyIn(table).key, role |-> keyIn(table).role]
  BY DEF keyIn
<1> QED
  BY <1>4, <1>5 DEF KeyEntries

\* The keys of a file that is read, beside those a reader sees.
LEMMA KeysOfFile ==
  ASSUME NEW f, IsFile(f)
  PROVE  /\ "keys" \in DOMAIN Load(f) /\ Load(f).keys \in Seq(KeyEntries(Texts(f)))
         /\ wellFormed(f) => SameOrMissing(Texts(f), Load(f).keys, written(f))
<1> DEFINE N == Len(f)
           V == Texts(f)
<1>1. N \in Nat /\ DOMAIN f = 1..N
  BY DEF IsFile, isSeq
<1>2. ASSUME NEW i \in 1..N
      PROVE  Len(f[i].pairs) \in Nat /\ \A j \in 1..Len(f[i].pairs) : f[i].pairs[j].value \in V
  <2> DEFINE p == f[i].pairs
  <2>1. p \in Seq({p[j] : j \in DOMAIN p})
    BY <1>1 DEF IsFile, isSeq
  <2> HIDE DEF p
  <2>2. Len(p) \in Nat /\ DOMAIN p = 1..Len(p)
    BY <2>1
  <2>3. \A j \in DOMAIN p : p[j].value \in V
    BY <1>1 DEF p, Texts
  <2> QED
    BY <2>2, <2>3 DEF p
<1>3. Nothing \in V
  BY DEF Texts
<1>4. PICK g : FileRead(g, f)
  BY <1>1, LoadValue
<1>5. PICK h : KeysSeen(h, f)
  BY <1>1, WrittenValue
<1>6. /\ g[0] = Default /\ Load(f) = g[N]
      /\ h[0] = <<>> /\ written(f) = h[N]
      /\ \A n \in 1..N : g[n] = readTable(g[n - 1], f[n])
      /\ \A n \in 1..N : h[n] = (IF f[n].name # "keys" THEN h[n - 1] ELSE Append(h[n - 1], keyIn(f[n])))
  BY <1>4, <1>5 DEF FileRead, KeysSeen
<1> HIDE DEF N, V
<1> DEFINE typed(d) == "keys" \in DOMAIN d /\ d.keys \in Seq(KeyEntries(V))
           same(d, W) == wellFormed(f) => SameOrMissing(V, d.keys, W)
           S == {n \in 0..N : typed(g[n]) /\ same(g[n], h[n])}
<1>7. typed(g[0]) /\ same(g[0], h[0])
  <2>1. "keys" \in DOMAIN Default /\ Default.keys = <<>>
    BY DEF Default
  <2>2. <<>> \in Seq(KeyEntries(V)) /\ Len(<<>>) = 0 /\ 1..0 = {}
    OBVIOUS
  <2>3. SameOrMissing(V, <<>>, <<>>)
    BY <2>2 DEF SameOrMissing
  <2> QED
    BY <1>6, <2>1, <2>2, <2>3
<1>8. ASSUME NEW n \in 1..N, typed(g[n - 1]), same(g[n - 1], h[n - 1])
      PROVE  typed(g[n]) /\ same(g[n], h[n])
  <2> DEFINE c == g[n - 1]
             table == f[n]
             W == h[n - 1]
             d == readTable(c, table)
  <2>1. /\ "keys" \in DOMAIN c /\ c.keys \in Seq(KeyEntries(V))
        /\ Len(table.pairs) \in Nat /\ \A i \in 1..Len(table.pairs) : table.pairs[i].value \in V
    BY <1>2, <1>8
  <2>2. g[n] = d /\ h[n] = IF table.name # "keys" THEN W ELSE Append(W, keyIn(table))
    BY <1>6
  <2>3. same(c, W)
    BY <1>8
  <2>4. wellFormed(f) /\ table.name = "keys" => threeLines(table)
    BY <1>1 DEF wellFormed
  <2> HIDE DEF c, table, W
  <2>5. /\ "keys" \in DOMAIN d /\ d.keys \in Seq(KeyEntries(V))
        /\ table.name # "keys" => d.keys = c.keys
        /\ table.name = "keys" /\ threeLines(table) => Follows(V, c.keys, d.keys, keyIn(table))
    BY <1>3, <2>1, TableOfKeys
  <2> HIDE DEF d
  <2>6. ASSUME wellFormed(f) PROVE SameOrMissing(V, d.keys, h[n])
    <3>1. CASE table.name # "keys"
      BY <2>2, <2>3, <2>5, <2>6, <3>1
    <3>2. CASE table.name = "keys"
      <4>1. threeLines(table)
        BY <2>4, <2>6, <3>2
      <4>2. keyIn(table) \in KeyEntries(V)
        BY <2>1, <4>1, KeyIsEntry DEF threeLines
      <4>3. Follows(V, c.keys, d.keys, keyIn(table)) /\ SameOrMissing(V, c.keys, W)
        BY <2>3, <2>5, <2>6, <3>2, <4>1
      <4> DEFINE E == c.keys
                 F == d.keys
                 w == keyIn(table)
      <4>4. Follows(V, E, F, w) /\ SameOrMissing(V, E, W) /\ w \in KeyEntries(V)
        BY <4>2, <4>3
      <4> HIDE DEF E, F, w
      <4>5. SameOrMissing(V, F, Append(W, w))
        BY <4>4, NextTable
      <4> QED
        BY <2>2, <3>2, <4>5 DEF F, w
    <3> QED
      BY <3>1, <3>2
  <2> QED
    BY <2>2, <2>5, <2>6
<1> HIDE DEF typed, same
<1>9. \A n \in 0..N : n \in S
  <2>1. 0 \in S
    BY <1>1, <1>7
  <2>2. ASSUME NEW n \in 1..N, n - 1 \in S PROVE n \in S
    BY <1>1, <1>8, <2>2
  <2> HIDE DEF S
  <2> QED
    BY <1>1, <2>1, <2>2, UpTo
<1>10. typed(g[N]) /\ same(g[N], h[N])
  <2>1. N \in 0..N
    BY <1>1
  <2> QED
    BY <1>9, <2>1
<1> QED
  BY <1>6, <1>10 DEF typed, same, V

\* Of keys that are all there, with a role of the two, none is other than written.
LEMMA NoneMissing ==
  ASSUME NEW V, NEW E, NEW W, SameOrMissing(V, E, W),
         \A i \in DOMAIN E : E[i].key # Nothing /\ E[i].role # Nothing
  PROVE  E = W
<1>1. /\ E \in Seq(KeyEntries(V)) /\ W \in Seq(KeyEntries(V)) /\ Len(E) = Len(W)
      /\ DOMAIN E = 1..Len(E)
  BY DEF SameOrMissing
<1>2. ASSUME NEW i \in 1..Len(E) PROVE E[i] = W[i]
  <2>1. E[i].name = W[i].name /\ E[i].key = W[i].key /\ E[i].role = W[i].role
    BY <1>1 DEF SameOrMissing
  <2>2. E[i] \in KeyEntries(V) /\ W[i] \in KeyEntries(V)
    BY <1>1
  <2> QED
    BY <2>1, <2>2 DEF KeyEntries
<1> QED
  BY <1>1, <1>2, SeqEqual

\* What Validate says of each key.
LEMMA ValidKeys ==
  ASSUME NEW c, Validate(c)
  PROVE  \A i \in DOMAIN c.keys : c.keys[i].key # Nothing /\ c.keys[i].role # Nothing
<1>1. \A i \in DOMAIN c.keys : c.keys[i].key # "" /\ c.keys[i].role \in {"readonly", "admin"}
  BY Zenon DEF Validate
<1>2. "" # "readonly" /\ "" # "admin"
  BY Zenon
<1> QED
  BY <1>1, <1>2, Zenon DEF Nothing

\* The keys of the configuration are those of the file, and valid once it serves.
ConfigInv ==
  /\ IsFile(file)
  /\ "keys" \in DOMAIN conf /\ conf.keys = Load(file).keys
  /\ phase = "serving" => Validate(conf)

LEMMA FilesAreFiles == \A f \in ConfigFiles \cup WrittenFiles : IsFile(f)
BY FilesAssumption, WrittenAssumption DEF IsFile

LEMMA ConfigStart ==
  ASSUME file \in ConfigFiles \cup WrittenFiles, conf = Load(file), phase = "loading"
  PROVE  ConfigInv
<1>1. IsFile(file)
  BY FilesAreFiles
<1>2. "keys" \in DOMAIN Load(file)
  BY <1>1, KeysOfFile
<1> QED
  BY <1>1, <1>2 DEF ConfigInv

LEMMA StartUpKeeps == ConfigInv /\ [ConfigNext]_configVars => ConfigInv'
<1> SUFFICES ASSUME ConfigInv, [ConfigNext]_configVars PROVE ConfigInv'
  OBVIOUS
<1>1. ASSUME NEW flags, StartUp(flags) PROVE ConfigInv'
  <2>1. file' = file /\ (phase' = "serving" => Validate(conf'))
    BY <1>1, Zenon DEF StartUp
  <2>2. \E host, port : conf' = [conf EXCEPT !.server.host = host, !.server.port = port]
    BY <1>1, Zenon DEF StartUp
  <2>3. "keys" \in DOMAIN conf' /\ conf'.keys = conf.keys
    BY <2>2 DEF ConfigInv
  <2> QED
    BY <2>1, <2>3 DEF ConfigInv
<1>2. CASE UNCHANGED configVars
  BY <1>2 DEF ConfigInv, configVars
<1> QED
  BY <1>1, <1>2 DEF ConfigNext

LEMMA KeysAsWritten == ConfigInv => AcceptedAsWritten
<1> SUFFICES ASSUME ConfigInv, phase = "serving", wellFormed(file) PROVE conf.keys = written(file)
  BY DEF AcceptedAsWritten
<1>1. IsFile(file)
  BY DEF ConfigInv
<1>2. SameOrMissing(Texts(file), Load(file).keys, written(file))
  BY <1>1, KeysOfFile
<1>3. \A i \in DOMAIN conf.keys : conf.keys[i].key # Nothing /\ conf.keys[i].role # Nothing
  BY ValidKeys DEF ConfigInv
<1> DEFINE E == Load(file).keys
           W == written(file)
           V == Texts(file)
<1>4. conf.keys = E /\ SameOrMissing(V, E, W)
      /\ \A i \in DOMAIN E : E[i].key # Nothing /\ E[i].role # Nothing
  BY <1>2, <1>3 DEF ConfigInv
<1> HIDE DEF E, W, V
<1>5. E = W
  BY <1>4, NoneMissing
<1> QED
  BY <1>4, <1>5 DEF W

\* The lines of [[keys]] tables, and Validate: whatever the order of the three
\* lines of each table, wings serves with the keys, names and roles of the file
\* or does not start; for any file.
THEOREM StartsAsWritten == ConfigSpec => []AcceptedAsWritten
<1>1. ConfigInit => ConfigInv
  BY ConfigStart DEF ConfigInit
<1> QED
  BY <1>1, KeysAsWritten, StartUpKeeps, PTL DEF ConfigSpec
-----------------------------------------------------------------------------
Known ==
  {<<"anon">>} \cup {<<"key", conf.keys[i].name>> : i \in DOMAIN conf.keys}
               \cup {<<"key", conf.keys[i].key>> : i \in DOMAIN conf.keys}

\* No request comes in, and no bucket is made, before the configuration is read.
KnownInv ==
  /\ DOMAIN reqs = Requests
  /\ "keys" \in DOMAIN conf /\ DOMAIN conf.keys \subseteq Nat
  /\ phase = "loading" => DOMAIN keys = {} /\ \A r \in Requests : reqs[r].at = "idle"
  /\ DOMAIN keys \subseteq Known

\* A token that is authorized has a first key it matches.
LEMMA FirstMatch ==
  ASSUME DOMAIN conf.keys \subseteq Nat, NEW bearer, Authorized(bearer)
  PROVE  \E i \in DOMAIN conf.keys : keyOf(bearer) = conf.keys[i] /\ conf.keys[i].key = bearer
<1>1. matching(bearer) # {} /\ matching(bearer) \subseteq Nat
  BY DEF Authorized, matching
<1>2. \E i \in matching(bearer) : \A j \in matching(bearer) : i <= j
  <2> DEFINE R == {ss \in Nat \X Nat : ss[1] < ss[2]}
             T == matching(bearer)
  <2>1. IsWellFoundedOn(R, Nat)
    BY NatLessThanWellFounded DEF OpToRel
  <2>2. T # {} /\ T \subseteq Nat
    BY <1>1
  <2> HIDE DEF T, R
  <2>3. \E n \in T : \A m \in T : ~ (<<m, n>> \in R)
    BY <2>1, <2>2, WFMin
  <2>4. \A n, m \in T : ~ (<<m, n>> \in R) => n <= m
    BY <2>2 DEF R
  <2>5. \E n \in T : \A m \in T : n <= m
    BY <2>3, <2>4
  <2> QED
    BY <2>5 DEF T
<1> QED
  BY <1>2 DEF keyOf, matching

\* The limiter by key makes buckets for keys of the configuration only.
LEMMA BucketIsKnown ==
  ASSUME KnownInv, NEW send, authenticated(send)
  PROVE  bucketId(send) \in Known
<1>1. CASE send.via # "header"
  BY <1>1 DEF bucketId, Known
<1>2. CASE send.via = "header"
  <2>1. PICK i \in DOMAIN conf.keys : keyOf(send.token) = conf.keys[i] /\ conf.keys[i].key = send.token
    BY FirstMatch DEF KnownInv, authenticated
  <2> QED
    BY <1>2, <2>1 DEF bucketId, Known
<1> QED
  BY <1>1, <1>2

LEMMA KnownStep ==
  ASSUME KnownInv, AccessNext, UNCHANGED configVars
  PROVE  KnownInv'
<1>1. conf' = conf /\ phase' = phase /\ Known' = Known
  BY DEF configVars, Known
<1>2. ASSUME DOMAIN reqs' = Requests, DOMAIN keys' \subseteq Known,
             phase = "loading" => DOMAIN keys' = {} /\ \A r \in Requests : reqs'[r].at = "idle"
      PROVE  KnownInv'
  BY <1>1, <1>2 DEF KnownInv
<1>3. ASSUME NEW r \in Requests, NEW h \in Hosts, NEW send \in Sends, Arrive(r, h, send)
      PROVE  KnownInv'
  BY <1>2, <1>3 DEF Arrive, RateLimit, answered, KnownInv
<1>4. ASSUME NEW r \in Requests, AuthLimit(r) PROVE KnownInv'
  <2> DEFINE id == bucketId(reqs[r].send)
             room == roomFor(keys, id, KeyPruneAge)
  <2>1. reqs[r].at = "admitted" /\ phase # "loading"
    BY <1>4 DEF AuthLimit, KnownInv
  <2>2. DOMAIN room \subseteq DOMAIN keys
    BY DEF roomFor, pruned
  <2> HIDE DEF room
  <2>3. \/ keys' = keys
        \/ /\ authenticated(reqs[r].send)
           /\ keys' = room \/ \E b : keys' = stored(room, id, b)
    BY <1>4 DEF AuthLimit, room
  <2>4. DOMAIN keys' \subseteq DOMAIN keys \cup {id}
    BY <2>2, <2>3 DEF stored
  <2>5. DOMAIN keys' \subseteq Known
    <3>1. CASE authenticated(reqs[r].send)
      BY <2>4, <3>1, BucketIsKnown DEF KnownInv
    <3>2. CASE ~authenticated(reqs[r].send)
      BY <2>3, <3>2 DEF KnownInv
    <3> QED
      BY <3>1, <3>2
  <2>6. DOMAIN reqs' = Requests
    BY <1>4 DEF AuthLimit, answered, KnownInv
  <2> QED
    BY <1>2, <2>1, <2>5, <2>6
<1>5. ASSUME NEW r \in Requests,
             \/ \E wrote, renamed, reopened \in BOOLEAN : Audit(r, wrote, renamed, reopened)
             \/ Route(r) \/ Return(r)
      PROVE  KnownInv'
  <2>1. reqs[r].at # "idle" /\ keys' = keys
    BY <1>5 DEF Audit, Route, Return, bucketVars
  <2>2. DOMAIN reqs' = Requests
    BY <1>5 DEF Audit, Route, Return, answered, KnownInv
  <2> QED
    BY <1>2, <2>1, <2>2 DEF KnownInv
<1>6. CASE Tick \/ StartWindow
  BY <1>2, <1>6 DEF Tick, StartWindow, KnownInv
<1>7. ASSUME NEW opens \in BOOLEAN, Restart(opens) PROVE KnownInv'
  BY <1>2, <1>7 DEF Restart, NoBuckets, NoReq, KnownInv
<1> QED
  BY <1>3, <1>4, <1>5, <1>6, <1>7 DEF AccessNext

LEMMA KnownStart ==
  ASSUME ConfigInv, AccessInit
  PROVE  KnownInv
<1>1. Load(file).keys \in Seq(KeyEntries(Texts(file)))
  BY KeysOfFile DEF ConfigInv
<1>2. DOMAIN Load(file).keys \subseteq Nat
  BY <1>1
<1> QED
  BY <1>2 DEF ConfigInv, AccessInit, NoBuckets, NoReq, KnownInv

LEMMA KnownConfig ==
  ASSUME KnownInv, ConfigNext, UNCHANGED accessVars
  PROVE  KnownInv'
<1>1. phase = "loading" /\ reqs' = reqs /\ keys' = keys
  BY DEF ConfigNext, StartUp, accessVars, bucketVars
<1>2. DOMAIN conf' = DOMAIN conf /\ conf'.keys = conf.keys
  BY DEF ConfigNext, StartUp, KnownInv
<1> QED
  BY <1>1, <1>2 DEF KnownInv, Known

LEMMA KnownFrame == KnownInv /\ UNCHANGED <<configVars, accessVars>> => KnownInv'
BY DEF KnownInv, Known, configVars, accessVars, bucketVars

\* The order of the middlewares in server.go: the limiter by key runs after the
\* authentication, so tokens that no key of the configuration matches make no
\* buckets.
THEOREM OnlyKnownBuckets == AccessSpec => []KnownBuckets
<1>1. ConfigInit /\ AccessInit => KnownInv
  BY ConfigStart, KnownStart DEF ConfigInit
<1>2. KnownInv /\ [\/ ConfigNext /\ UNCHANGED accessVars
                   \/ AccessNext /\ UNCHANGED configVars]_<<configVars, accessVars>> => KnownInv'
  BY KnownStep, KnownConfig, KnownFrame
<1>3. KnownInv => KnownBuckets
  BY DEF KnownInv, KnownBuckets, Known
<1> QED
  BY <1>1, <1>2, <1>3, PTL DEF AccessSpec
-----------------------------------------------------------------------------
(* The closing handshake of a websocket *)

Labels == {"out", "echo", "eof", "frame", "teardown", "closed"}

Reader(c) == at[<<c, "reader">>]

Writer(c) == at[<<c, "writer">>]

Sending == {"echo", "frame"}

InClose == {"frame", "teardown"}

\* The state of one connection.  Whoever is about to send swapped the flag,
\* nothing was sent before, and it is alone; nothing is sent while the flag is
\* unset; once closeOnce is done the socket is closed.
Local(c) ==
  /\ frames[c] <= 1
  /\ Reader(c) \in InClose <=> once[c] = "reader"
  /\ Writer(c) \in InClose <=> once[c] = "writer"
  /\ once[c] = "done" => tcp[c] = "closed"
  /\ Reader(c) = "closed" => once[c] = "done"
  /\ Writer(c) = "closed" => once[c] = "done"
  /\ Reader(c) \in Sending => c \in closing /\ frames[c] = 0
  /\ Writer(c) \in Sending => c \in closing /\ frames[c] = 0
  /\ ~(Reader(c) \in Sending /\ Writer(c) \in Sending)
  /\ c \notin closing => frames[c] = 0
  /\ (c \in closing /\ up(c)) =>
       frames[c] = 1 \/ Reader(c) \in Sending \/ Writer(c) \in Sending

Shape ==
  /\ tcp \in [Conns -> {"open", "stalled", "reset", "closed"}]
  /\ frames \in [Conns -> Nat]
  /\ once \in [Conns -> {"free", "done", "reader", "writer"}]
  /\ at \in [Conns \X Actors -> Labels]
  /\ closing \subseteq Conns

IInv == Shape /\ \A c \in Conns : Local(c)

\* A fresh connection satisfies the invariant.
LEMMA Initial == Init => IInv
BY DEF Init, IInv, Shape, Local, Reader, Writer, Labels, Sending, InClose, Actors, up

\* A step of the reader moves the reader of one connection and nobody else.
LEMMA ReaderMoves ==
  ASSUME Shape, NEW c \in Conns, NEW label \in Labels, goto(c, "reader", label)
  PROVE  /\ at' \in [Conns \X Actors -> Labels]
         /\ \A d \in Conns : /\ Reader(d)' = IF d = c THEN label ELSE Reader(d)
                             /\ Writer(d)' = Writer(d)
BY DEF Shape, goto, Reader, Writer, Actors

\* A step of the writer moves the writer of one connection and nobody else.
LEMMA WriterMoves ==
  ASSUME Shape, NEW c \in Conns, NEW label \in Labels, goto(c, "writer", label)
  PROVE  /\ at' \in [Conns \X Actors -> Labels]
         /\ \A d \in Conns : /\ Writer(d)' = IF d = c THEN label ELSE Writer(d)
                             /\ Reader(d)' = Reader(d)
BY DEF Shape, goto, Reader, Writer, Actors

\* Every step of a connection preserves the invariant: it leaves the other
\* connections alone, and its own in a state the invariant allows.
LEMMA Inductive == IInv /\ [Next]_vars => IInv'
<1> SUFFICES ASSUME IInv, [Next]_vars PROVE IInv'
  OBVIOUS
<1> Shape /\ \A d \in Conns : Local(d)
  BY DEF IInv
<1> USE DEF Labels, Sending, InClose, up, writes
<1>1. CASE UNCHANGED vars
  BY <1>1 DEF vars, IInv, Shape, Local, Reader, Writer
<1>2. ASSUME NEW c \in Conns, ReceiveClose(c) PROVE IInv'
  <2>1. Reader(c) = "out" /\ goto(c, "reader", IF c \in closing THEN "eof" ELSE "echo")
    BY <1>2 DEF ReceiveClose, swap, Reader
  <2>2. at' \in [Conns \X Actors -> Labels]
    BY <2>1, ReaderMoves
  <2>3. Shape'
    BY <1>2, <2>2 DEF ReceiveClose, swap, Shape
  <2>4. ASSUME NEW d \in Conns PROVE Local(d)'
    BY <1>2, <2>1, ReaderMoves DEF ReceiveClose, swap, Shape, Local
  <2> QED
    BY <2>3, <2>4 DEF IInv
<1>3. ASSUME NEW c \in Conns, ReadFails(c) PROVE IInv'
  <2>1. Reader(c) = "out" /\ goto(c, "reader", "eof")
    BY <1>3 DEF ReadFails, Reader
  <2>2. at' \in [Conns \X Actors -> Labels]
    BY <2>1, ReaderMoves
  <2>3. Shape'
    BY <1>3, <2>2 DEF ReadFails, Shape
  <2>4. ASSUME NEW d \in Conns PROVE Local(d)'
    BY <1>3, <2>1, ReaderMoves DEF ReadFails, Shape, Local
  <2> QED
    BY <2>3, <2>4 DEF IInv
<1>4. ASSUME NEW c \in Conns, Peer(c) PROVE IInv'
  BY <1>4 DEF Peer, PeerReset, PeerStalls, PeerReads, IInv, Shape, Local, Reader, Writer
<1>5. ASSUME NEW c \in Conns, Echo(c) PROVE IInv'
  <2>1. Reader(c) = "echo" /\ goto(c, "reader", "eof")
    BY <1>5 DEF Echo, sendClose, Reader
  <2>2. at' \in [Conns \X Actors -> Labels]
    BY <2>1, ReaderMoves
  <2>3. Shape'
    BY <1>5, <2>2 DEF Echo, sendClose, Shape
  <2>4. ASSUME NEW d \in Conns PROVE Local(d)'
    BY <1>5, <2>1, ReaderMoves DEF Echo, sendClose, Shape, Local
  <2> QED
    BY <2>3, <2>4 DEF IInv
<1>6. ASSUME NEW c \in Conns, NEW a \in Actors, CloseFrame(c, a) PROVE IInv'
  <2>1. CASE a = "reader"
    <3>1. Reader(c) = "frame" /\ goto(c, "reader", "teardown")
      BY <1>6, <2>1 DEF CloseFrame, sendClose, Reader
    <3>2. at' \in [Conns \X Actors -> Labels]
      BY <3>1, ReaderMoves
    <3>3. Shape'
      BY <1>6, <2>1, <3>2 DEF CloseFrame, sendClose, Shape
    <3>4. ASSUME NEW d \in Conns PROVE Local(d)'
      BY <1>6, <2>1, <3>1, ReaderMoves DEF CloseFrame, sendClose, Shape, Local
    <3> QED
      BY <3>3, <3>4 DEF IInv
  <2>2. CASE a = "writer"
    <3>1. Writer(c) = "frame" /\ goto(c, "writer", "teardown")
      BY <1>6, <2>2 DEF CloseFrame, sendClose, Writer
    <3>2. at' \in [Conns \X Actors -> Labels]
      BY <3>1, WriterMoves
    <3>3. Shape'
      BY <1>6, <2>2, <3>2 DEF CloseFrame, sendClose, Shape
    <3>4. ASSUME NEW d \in Conns PROVE Local(d)'
      BY <1>6, <2>2, <3>1, WriterMoves DEF CloseFrame, sendClose, Shape, Local
    <3> QED
      BY <3>3, <3>4 DEF IInv
  <2> QED
    BY <2>1, <2>2 DEF Actors
<1>7. ASSUME NEW c \in Conns, NEW a \in Actors, Teardown(c, a) PROVE IInv'
  <2>1. CASE a = "reader"
    <3>1. Reader(c) = "teardown" /\ goto(c, "reader", "closed")
      BY <1>7, <2>1 DEF Teardown, Reader
    <3>2. at' \in [Conns \X Actors -> Labels]
      BY <3>1, ReaderMoves
    <3>3. Shape'
      BY <1>7, <2>1, <3>2 DEF Teardown, Shape
    <3>4. ASSUME NEW d \in Conns PROVE Local(d)'
      BY <1>7, <2>1, <3>1, ReaderMoves DEF Teardown, Shape, Local
    <3> QED
      BY <3>3, <3>4 DEF IInv
  <2>2. CASE a = "writer"
    <3>1. Writer(c) = "teardown" /\ goto(c, "writer", "closed")
      BY <1>7, <2>2 DEF Teardown, Writer
    <3>2. at' \in [Conns \X Actors -> Labels]
      BY <3>1, WriterMoves
    <3>3. Shape'
      BY <1>7, <2>2, <3>2 DEF Teardown, Shape
    <3>4. ASSUME NEW d \in Conns PROVE Local(d)'
      BY <1>7, <2>2, <3>1, WriterMoves DEF Teardown, Shape, Local
    <3> QED
      BY <3>3, <3>4 DEF IInv
  <2> QED
    BY <2>1, <2>2 DEF Actors
<1>8. ASSUME NEW c \in Conns, NEW a \in Actors, CloseBegin(c, a) PROVE IInv'
  <2>1. CASE a = "reader" /\ once[c] = "free"
    <3>1. Reader(c) \in {"out", "eof"} /\ goto(c, "reader", IF c \in closing THEN "teardown" ELSE "frame")
      BY <1>8, <2>1 DEF CloseBegin, swap, Reader
    <3>2. at' \in [Conns \X Actors -> Labels]
      BY <3>1, ReaderMoves
    <3>3. Shape'
      BY <1>8, <2>1, <3>2 DEF CloseBegin, swap, Shape
    <3>4. ASSUME NEW d \in Conns PROVE Local(d)'
      BY <1>8, <2>1, <3>1, ReaderMoves DEF CloseBegin, swap, Shape, Local
    <3> QED
      BY <3>3, <3>4 DEF IInv
  <2>2. CASE a = "reader" /\ once[c] = "done"
    <3>1. Reader(c) \in {"out", "eof"} /\ goto(c, "reader", "closed")
      BY <1>8, <2>2 DEF CloseBegin, Reader
    <3>2. at' \in [Conns \X Actors -> Labels]
      BY <3>1, ReaderMoves
    <3>3. Shape'
      BY <1>8, <2>2, <3>2 DEF CloseBegin, Shape
    <3>4. ASSUME NEW d \in Conns PROVE Local(d)'
      BY <1>8, <2>2, <3>1, ReaderMoves DEF CloseBegin, Shape, Local
    <3> QED
      BY <3>3, <3>4 DEF IInv
  <2>3. CASE a = "writer" /\ once[c] = "free"
    <3>1. Writer(c) \in {"out", "eof"} /\ goto(c, "writer", IF c \in closing THEN "teardown" ELSE "frame")
      BY <1>8, <2>3 DEF CloseBegin, swap, Writer
    <3>2. at' \in [Conns \X Actors -> Labels]
      BY <3>1, WriterMoves
    <3>3. Shape'
      BY <1>8, <2>3, <3>2 DEF CloseBegin, swap, Shape
    <3>4. ASSUME NEW d \in Conns PROVE Local(d)'
      BY <1>8, <2>3, <3>1, WriterMoves DEF CloseBegin, swap, Shape, Local
    <3> QED
      BY <3>3, <3>4 DEF IInv
  <2>4. CASE a = "writer" /\ once[c] = "done"
    <3>1. Writer(c) \in {"out", "eof"} /\ goto(c, "writer", "closed")
      BY <1>8, <2>4 DEF CloseBegin, Writer
    <3>2. at' \in [Conns \X Actors -> Labels]
      BY <3>1, WriterMoves
    <3>3. Shape'
      BY <1>8, <2>4, <3>2 DEF CloseBegin, Shape
    <3>4. ASSUME NEW d \in Conns PROVE Local(d)'
      BY <1>8, <2>4, <3>1, WriterMoves DEF CloseBegin, Shape, Local
    <3> QED
      BY <3>3, <3>4 DEF IInv
  <2> QED
    BY <1>8, <2>1, <2>2, <2>3, <2>4 DEF CloseBegin, Actors
<1> QED
  BY <1>1, <1>2, <1>3, <1>4, <1>5, <1>6, <1>7, <1>8 DEF Next, Inside

\* The invariant holds for any number of connections.
THEOREM Invariance == Spec => []IInv
<1>1. Init => IInv
  BY Initial
<1>2. IInv /\ [Next]_vars => IInv'
  BY Inductive
<1> QED
  BY <1>1, <1>2, PTL DEF Spec

LEMMA ConnIsTyped ==
  ASSUME IInv
  PROVE  TypeOK
<1>1. Shape /\ \A c \in Conns : Local(c)
  BY DEF IInv
<1>2. \A c \in Conns, a \in Actors : at[<<c, a>>] \in InClose <=> once[c] = a
  BY <1>1 DEF Local, Reader, Writer, Actors
<1> QED
  BY <1>1, <1>2 DEF Shape, TypeOK, Labels, InClose, Actors

LEMMA HandshakeHolds == IInv => OneCloseFrame /\ FlagMeansFrame /\ CloseIsComplete
<1>1. IInv => \A c \in Conns : frames[c] <= 1
  BY DEF IInv, Local
<1>2. IInv => OneCloseFrame
  BY <1>1 DEF OneCloseFrame
<1>3. IInv => FlagMeansFrame
  BY DEF FlagMeansFrame, up, IInv, Local, Reader, Writer, Actors, Labels, Sending, InClose
<1>4. IInv => CloseIsComplete
  BY DEF CloseIsComplete, IInv, Local, Reader, Writer, Actors, Labels, Sending, InClose
<1> QED
  BY <1>2, <1>3, <1>4

\* A connection is always in one of its states, and closeOnce is held by whoever
\* is inside Close.
THEOREM TypeCorrect == Spec => []TypeOK
BY ConnIsTyped, Invariance, PTL

\* "At most one close frame ever goes out", on any number of connections and in
\* any interleaving of ReadText and Close (internal/ws/ws.go).
THEOREM OneFrame == Spec => []OneCloseFrame
BY HandshakeHolds, Invariance, PTL

\* The flag of a connection never swallows its close frame.
THEOREM NoFrameSwallowed == Spec => []FlagMeansFrame
BY HandshakeHolds, Invariance, PTL

\* Whoever returns from Close, as the first caller or as one that waited, leaves
\* a closed socket behind.
THEOREM CloseCompletes == Spec => []CloseIsComplete
BY HandshakeHolds, Invariance, PTL

-----------------------------------------------------------------------------
(***************************************************************************)
(* The console: what a connection may do is what its token was signed for, *)
(* for any tokens, configuration and number of connections.                *)
(***************************************************************************)

allVars == <<configVars, vars, consoleVars>>

\* Every step of the console is one of the connection, or none.
LEMMA StepsOfTheConnection ==
  ASSUME [\/ ConfigNext /\ UNCHANGED <<vars, consoleVars>>
          \/ phase = "serving" /\ ConsoleNext /\ UNCHANGED configVars]_allVars
  PROVE  [Next]_vars
<1>1. ASSUME NEW c \in Conns, Socket(c) PROVE Next
  BY <1>1 DEF Socket, Next, Actors
<1>2. ASSUME NEW c \in Conns, NEW token \in PanelTokens, FirstFrame(c, token) PROVE UNCHANGED vars
  BY <1>2 DEF FirstFrame
<1>3. ASSUME NEW c \in Conns, NEW frame \in DOMAIN needs, Drive(c, frame) PROVE UNCHANGED vars
  BY <1>3 DEF Drive
<1>4. ASSUME NEW c \in Conns, HandlerStep(c) PROVE UNCHANGED vars
  BY <1>4 DEF HandlerStep, ArmTimer, OpenSession, ReadEnds, LeaveSession, Returned
<1>5. ASSUME NEW c \in Conns, FirstFrameOther(c) \/ TimerFires(c) PROVE UNCHANGED vars
  BY <1>5 DEF FirstFrameOther, TimerFires
<1>6. ClockTick => UNCHANGED vars
  BY DEF ClockTick
<1>7. UNCHANGED allVars => UNCHANGED vars
  BY DEF allVars
<1> QED
  BY <1>1, <1>2, <1>3, <1>4, <1>5, <1>6, <1>7 DEF ConsoleNext

\* The handler and the expiry goroutine of panelbrowser.go are a reader and a
\* writer of ws.go: the console implements the closing handshake.
THEOREM RefinesWsConn == ConsoleSpec => Spec
<1>1. ConfigInit /\ ConsoleInit => Init
  BY DEF ConsoleInit
<1> QED
  BY <1>1, StepsOfTheConnection, PTL DEF ConsoleSpec, Spec, allVars

\* "At most one close frame ever goes out" on a console, though its handler, its
\* reader and the goroutine that waits for the token may all close it; none is
\* swallowed; and Close is complete when it returns.
THEOREM ConsoleCloses ==
  ConsoleSpec => [](OneCloseFrame /\ FlagMeansFrame /\ CloseIsComplete)
BY RefinesWsConn, OneFrame, NoFrameSwallowed, CloseCompletes, PTL

-----------------------------------------------------------------------------
AllPermissions == UNION {token.permissions : token \in PanelTokens}

Places == {"auth", "verified", "armed", "loop", "leaving", "returned"}

ConsoleShape ==
  /\ handler \in [Conns -> Places]
  /\ shown \in [Conns -> PanelTokens \cup {NoToken}]
  /\ perms \in [Conns -> SUBSET AllPermissions]
  /\ driven \in [Conns -> SUBSET DOMAIN needs]

\* A permission a connection has is in the token it showed, which a key signed
\* for this server, and an admin key unless it is for watching only.
Granted(c, permission) ==
  /\ signers(shown[c]) # {} /\ shown[c].server = Server
  /\ permission \in shown[c].permissions
  /\ permission # "websocket.connect" => signerRole(shown[c]) = "admin"

\* Before its first frame a connection has no permissions and has done nothing,
\* and that is all there is while the configuration is still read.
GrantInv ==
  /\ ConsoleShape
  /\ phase = "loading" => \A c \in Conns : handler[c] = "auth"
  /\ \A c \in Conns :
       /\ handler[c] = "auth" => perms[c] = {} /\ driven[c] = {}
       /\ \A permission \in perms[c] : Granted(c, permission)
  /\ DriveGranted

\* The permissions a frame asks for are none of those for watching.
LEMMA FramesNeedMore ==
  ASSUME NEW frame \in DOMAIN needs
  PROVE  needs[frame] # "websocket.connect"
BY DEF needs

\* What a token grants does not change with a step that leaves the configuration
\* and the token alone.
LEMMA GrantStays ==
  ASSUME conf' = conf, NEW c \in Conns, shown'[c] = shown[c], NEW permission, Granted(c, permission)
  PROVE  Granted(c, permission)'
<1>1. signers(shown[c])' = signers(shown[c])
  BY DEF signers
<1>2. signerRole(shown[c])' = signerRole(shown[c])
  BY <1>1 DEF signerRole
<1> QED
  BY <1>1, <1>2 DEF Granted

\* ... nor does what the frames that drove the server were granted.
LEMMA DrivesStay ==
  ASSUME conf' = conf, shown' = shown, driven' = driven, DriveGranted
  PROVE  DriveGranted'
<1>1. ASSUME NEW c \in Conns
      PROVE  signers(shown[c])' = signers(shown[c]) /\ signerRole(shown[c])' = signerRole(shown[c])
  <2>1. signers(shown[c])' = signers(shown[c])
    BY DEF signers
  <2> QED
    BY <2>1 DEF signerRole
<1> QED
  BY <1>1 DEF DriveGranted

\* A token that passes the checks of the first frame gives what Granted says.
LEMMA KeptIsGranted ==
  ASSUME ConsoleShape, conf' = conf,
         NEW c \in Conns, NEW token \in PanelTokens, FirstFrame(c, token)
  PROVE  /\ ConsoleShape'
         /\ \A d \in Conns \ {c} : perms'[d] = perms[d] /\ shown'[d] = shown[d]
         /\ perms'[c] = perms[c] \/ \A permission \in perms'[c] : Granted(c, permission)'
<1> USE DEF ConsoleShape, FirstFrame, goOn
<1>1. shown' = [shown EXCEPT ![c] = token] /\ driven' = driven
  OBVIOUS
<1>2. handler' \in [Conns -> Places]
  BY DEF Places
<1>3. kept(token) \subseteq token.permissions
  BY DEF kept
<1>4. kept(token) \in SUBSET AllPermissions
  BY <1>3 DEF AllPermissions
<1>5. CASE perms' = perms
  BY <1>1, <1>2, <1>5
<1>6. CASE /\ verified(token, clock) /\ token.server = Server
           /\ perms' = [perms EXCEPT ![c] = kept(token)]
  <2>1. perms' \in [Conns -> SUBSET AllPermissions] /\ perms'[c] = kept(token)
    BY <1>4, <1>6
  <2>2. shown'[c] = token
    BY <1>1
  <2>5. signers(token) # {}
    BY <1>6 DEF verified
  <2>6. ASSUME NEW permission \in kept(token)
        PROVE  permission # "websocket.connect" => signerRole(token) = "admin"
    BY DEF kept
  <2>7. ASSUME NEW permission \in perms'[c] PROVE Granted(c, permission)'
    <3>1. signers(shown[c])' = signers(token)
      BY <2>2 DEF signers
    <3>2. signerRole(shown[c])' = signerRole(token)
      BY <2>2, <3>1 DEF signerRole
    <3> QED
      BY <1>3, <1>6, <2>1, <2>2, <2>5, <2>6, <2>7, <3>1, <3>2 DEF Granted
  <2> QED
    BY <1>1, <1>2, <1>6, <2>1, <2>7
<1> QED
  BY <1>5, <1>6

\* Every step of the console preserves the invariant: only the first frame gives
\* permissions, and only Drive uses them.
LEMMA GrantsInductive ==
  ASSUME GrantInv,
         [\/ ConfigNext /\ UNCHANGED <<vars, consoleVars>>
          \/ phase = "serving" /\ ConsoleNext /\ UNCHANGED configVars]_allVars
  PROVE  GrantInv'
<1> ConsoleShape /\ DriveGranted
  BY DEF GrantInv
<1>1. CASE ConfigNext /\ UNCHANGED consoleVars
  <2>1. phase = "loading"
    BY <1>1 DEF ConfigNext, StartUp
  <2>2. \A c \in Conns : handler'[c] = "auth" /\ perms'[c] = {} /\ driven'[c] = {}
    BY <1>1, <2>1 DEF consoleVars, GrantInv
  <2>3. ConsoleShape'
    BY <1>1 DEF consoleVars, ConsoleShape
  <2> QED
    BY <2>2, <2>3 DEF GrantInv, DriveGranted
<1>2. CASE phase' = phase /\ conf' = conf /\ handler' = handler /\ shown' = shown
           /\ perms' = perms /\ driven' = driven
  <2>1. \A c \in Conns : \A permission \in perms[c] : Granted(c, permission)'
    BY <1>2, GrantStays DEF GrantInv
  <2>2. DriveGranted'
    BY <1>2, DrivesStay
  <2> QED
    BY <1>2, <2>1, <2>2 DEF GrantInv, ConsoleShape
<1>3. CASE phase = "serving" /\ ConsoleNext /\ UNCHANGED configVars
  <2> phase' = phase /\ conf' = conf /\ phase # "loading"
    BY <1>3 DEF configVars
  <2>1. ASSUME NEW c \in Conns, NEW token \in PanelTokens, FirstFrame(c, token) PROVE GrantInv'
    <3>1. handler[c] = "auth" /\ handler'[c] # "auth" /\ driven' = driven
          /\ \A d \in Conns \ {c} : handler'[d] = handler[d]
      BY <2>1 DEF FirstFrame, reads, goOn, ConsoleShape
    <3>2. \A d \in Conns : \A permission \in perms'[d] : Granted(d, permission)'
      BY <2>1, <3>1, KeptIsGranted, GrantStays DEF GrantInv
    <3>3. ASSUME NEW d \in Conns, NEW frame \in driven'[d]
          PROVE  /\ signers(shown[d])' # {} /\ signerRole(shown[d])' = "admin"
                 /\ shown'[d].server = Server
                 /\ shown'[d].permissions \cap {needs[frame], "admin"} # {}
      <4>1. d # c
        BY <3>1, <3>3 DEF GrantInv
      <4>2. shown'[d] = shown[d]
        BY <2>1, <4>1, KeptIsGranted
      <4>3. signers(shown[d])' = signers(shown[d]) /\ signerRole(shown[d])' = signerRole(shown[d])
        BY <4>2 DEF signerRole, signers
      <4> QED
        BY <3>1, <3>3, <4>2, <4>3 DEF DriveGranted
    <3>4. ConsoleShape' /\ \A d \in Conns \ {c} : perms'[d] = perms[d]
      BY <2>1, KeptIsGranted
    <3> QED
      BY <3>1, <3>2, <3>3, <3>4 DEF GrantInv, DriveGranted
  <2>2. ASSUME NEW c \in Conns, NEW frame \in DOMAIN needs, Drive(c, frame) PROVE GrantInv'
    <3>1. /\ driven' = [driven EXCEPT ![c] = @ \cup {frame}]
          /\ handler' = handler /\ shown' = shown /\ perms' = perms
          /\ handler[c] = "loop" /\ perms[c] \cap {needs[frame], "admin"} # {}
      BY <2>2 DEF Drive, reads, allow
    <3>2. PICK permission \in perms[c] : permission \in {needs[frame], "admin"}
      BY <3>1
    <3>3. Granted(c, permission) /\ permission # "websocket.connect"
      BY <3>2, FramesNeedMore DEF GrantInv
    <3>4. \A d \in Conns : \A granted \in perms'[d] : Granted(d, granted)'
      BY <3>1, GrantStays DEF GrantInv
    <3>5. \A d \in Conns : /\ signers(shown[d])' = signers(shown[d])
                           /\ signerRole(shown[d])' = signerRole(shown[d])
      BY <3>1 DEF signerRole, signers
    <3>6. /\ signers(shown[c]) # {} /\ signerRole(shown[c]) = "admin"
          /\ shown[c].server = Server
          /\ shown[c].permissions \cap {needs[frame], "admin"} # {}
      BY <3>2, <3>3 DEF Granted
    <3>7. driven'[c] = driven[c] \cup {frame} /\ \A d \in Conns \ {c} : driven'[d] = driven[d]
      BY <3>1 DEF ConsoleShape
    <3>8. DriveGranted'
      BY <3>1, <3>5, <3>6, <3>7 DEF DriveGranted
    <3>9. ConsoleShape'
      BY <3>1 DEF ConsoleShape
    <3> QED
      BY <3>1, <3>4, <3>7, <3>8, <3>9 DEF GrantInv
  <2>3. ASSUME NEW c \in Conns, FirstFrameOther(c) \/ HandlerStep(c) PROVE GrantInv'
    <3>1. /\ shown' = shown /\ perms' = perms /\ driven' = driven
          /\ handler' \in [Conns -> Places]
          /\ \A d \in Conns : handler'[d] = "auth" => handler[d] = "auth"
      BY <2>3 DEF FirstFrameOther, HandlerStep, ArmTimer, OpenSession, ReadEnds, LeaveSession,
                  Returned, reads, goOn, ConsoleShape, Places
    <3>2. \A d \in Conns : \A permission \in perms[d] : Granted(d, permission)'
      BY <3>1, GrantStays DEF GrantInv
    <3>3. DriveGranted'
      BY <3>1, DrivesStay
    <3> QED
      BY <3>1, <3>2, <3>3 DEF GrantInv, ConsoleShape
  <2>4. ASSUME NEW c \in Conns, TimerFires(c) PROVE GrantInv'
    BY <2>4, <1>2 DEF TimerFires
  <2>5. ASSUME NEW c \in Conns, Socket(c) PROVE GrantInv'
    BY <2>5, <1>2 DEF Socket, consoleVars
  <2>6. ClockTick => GrantInv'
    BY <1>2 DEF ClockTick
  <2> QED
    BY <1>3, <2>1, <2>2, <2>3, <2>4, <2>5, <2>6 DEF ConsoleNext
<1> QED
  BY <1>1, <1>2, <1>3 DEF allVars, configVars, consoleVars

\* "A token signed by a non-admin API key can only watch": whatever frames follow
\* the first one of panelbrowser.go, the server is driven only with a permission
\* of a token an admin key signed for it.
THEOREM DrivesAreGranted == ConsoleSpec => []DriveGranted
<1>1. ConfigInit /\ ConsoleInit => GrantInv
  BY DEF ConfigInit, ConsoleInit, GrantInv, ConsoleShape, DriveGranted, Places
<1>2. GrantInv => DriveGranted
  BY DEF GrantInv
<1> QED
  BY <1>1, <1>2, GrantsInductive, PTL DEF ConsoleSpec, allVars
-----------------------------------------------------------------------------
(***************************************************************************)
(* The doors side by side: every part starts and steps as its own          *)
(* specification says, or rests, so what is proved of the parts holds of a *)
(* front door, and with it every invariant of its run.                     *)
(***************************************************************************)

\* What type correctness needs besides the invariants of the parts.
AccessTypes ==
  /\ DOMAIN clients \subseteq Hosts
  /\ auditFile \in {"open", "none", "closed"} /\ auditSize \in Nat
  /\ lost \subseteq 1..serial

LEMMA AccessTypesStep ==
  ASSUME AccessTypes, AuditInv, AccessNext
  PROVE  AccessTypes'
<1> serial \in Nat /\ Len(auditLog) \in Nat
  BY DEF AuditInv
<1>1. ASSUME NEW r \in Requests, NEW h \in Hosts, NEW send \in Sends, Arrive(r, h, send)
      PROVE  AccessTypes'
  <2>1. DOMAIN roomFor(clients, h, IpPruneAge) \subseteq DOMAIN clients
    BY DEF roomFor, pruned
  <2>2. \/ clients' = clients
        \/ \E b : clients' = stored(roomFor(clients, h, IpPruneAge), h, b)
    BY <1>1 DEF Arrive, RateLimit
  <2>3. DOMAIN clients' \subseteq Hosts
    BY <2>1, <2>2 DEF stored, AccessTypes
  <2> QED
    BY <1>1, <2>3 DEF Arrive, auditVars, AccessTypes
<1>2. ASSUME NEW r \in Requests, NEW wrote \in BOOLEAN, NEW renamed \in BOOLEAN,
             NEW reopened \in BOOLEAN, Audit(r, wrote, renamed, reopened)
      PROVE  AccessTypes'
  <2>1. clients' = clients
    BY <1>2 DEF Audit, bucketVars
  <2>2. CASE UNCHANGED auditVars
    BY <2>1, <2>2 DEF auditVars, AccessTypes
  <2>3. CASE serial' = serial + 1
    <3>1. PICK e : e.n = serial' /\ record(e, wrote, renamed, reopened)
      <4> DEFINE e == [n |-> serial', name |-> recorded(reqs[r].name), role |-> reqs[r].role]
      <4>1. e.n = serial'
        OBVIOUS
      <4>2. record(e, wrote, renamed, reopened)
        BY <1>2, <2>3 DEF Audit, auditVars
      <4> QED
        BY <4>1, <4>2
    <3>2. lost' = lost \/ lost' = lost \cup {serial'}
      BY <3>1 DEF record
    <3>3. auditFile' \in {"open", "none", "closed"} /\ auditSize' \in Nat
      BY <3>1 DEF record, rotate, AccessTypes
    <3>4. lost' \subseteq 1..serial'
      <4>1. \A n \in 1..serial \cup {serial + 1} : n \in 1..(serial + 1)
        OBVIOUS
      <4>2. lost' \subseteq 1..serial \cup {serial + 1}
        BY <2>3, <3>2, Zenon DEF AccessTypes
      <4> QED
        BY <2>3, <4>1, <4>2, Zenon
    <3> QED
      BY <2>1, <3>3, <3>4 DEF AccessTypes
  <2> QED
    BY <1>2, <2>2, <2>3 DEF Audit
<1>3. ASSUME NEW r \in Requests, AuthLimit(r) \/ Route(r) \/ Return(r) PROVE AccessTypes'
  BY <1>3 DEF AuthLimit, Route, Return, bucketVars, auditVars, AccessTypes
<1>4. CASE Tick \/ StartWindow
  BY <1>4 DEF Tick, StartWindow, auditVars, AccessTypes
<1>5. ASSUME NEW opens \in BOOLEAN, Restart(opens) PROVE AccessTypes'
  BY <1>5 DEF Restart, NoBuckets, AccessTypes
<1> QED
  BY <1>1, <1>2, <1>3, <1>4, <1>5 DEF AccessNext

LEMMA AccessIsTyped ==
  ASSUME AccessTypes, LimitInv, AuditInv
  PROVE  AccessTypeOK
<1>1. serial \in Nat /\ DOMAIN reqs = Requests
  BY DEF AuditInv, RequestShape
<1> QED
  BY <1>1 DEF AccessTypes, LimitInv, Buckets, Bucket, AccessTypeOK

-----------------------------------------------------------------------------
Timers == [at : {"none", "warning", "ending", "closing", "gone"}, due : Nat]

\* The handler calls Close when it has left the session, so it is inside of it
\* only then; and a token waits for its timer once it was verified.
ConsoleTypes ==
  /\ clock \in Nat
  /\ session \in [Conns -> {"none", "open", "closed"}]
  /\ timer \in [Conns -> Timers]
  /\ \A c \in Conns :
       /\ handler[c] = "verified" => shown[c] \in PanelTokens
       /\ handler[c] = "loop" => session[c] = "open"
       /\ handler[c] = "returned" => session[c] # "open"
       /\ Reader(c) \in {"frame", "teardown", "closed"} =>
            handler[c] \in {"leaving", "returned"} /\ session[c] # "open"

\* Close of the reader begins when the handler has left.
LEMMA ReaderCloses ==
  ASSUME Shape, NEW c \in Conns, Socket(c)
  PROVE  \A d \in Conns :
           /\ Reader(d)' \in {"frame", "teardown", "closed"}
           /\ Reader(d) \notin {"frame", "teardown", "closed"}
           => handler[d] = "leaving" /\ session[d] # "open"
<1>1. ASSUME NEW label \in Labels, goto(c, "reader", label),
             \/ label \notin {"frame", "teardown", "closed"}
             \/ Reader(c) \in {"frame", "teardown", "closed"}
             \/ handler[c] = "leaving" /\ session[c] # "open"
      PROVE  \A d \in Conns :
               /\ Reader(d)' \in {"frame", "teardown", "closed"}
               /\ Reader(d) \notin {"frame", "teardown", "closed"}
               => handler[d] = "leaving" /\ session[d] # "open"
  BY <1>1, ReaderMoves
<1>2. ASSUME NEW label \in Labels, goto(c, "writer", label)
      PROVE  \A d \in Conns : Reader(d)' = Reader(d)
  BY <1>2, WriterMoves
<1>3. CASE ReceiveClose(c)
  BY <1>1, <1>3 DEF ReceiveClose, swap, Labels
<1>4. CASE ReadFails(c)
  BY <1>1, <1>4 DEF ReadFails, Labels
<1>5. CASE Peer(c)
  BY <1>5 DEF Peer, PeerReset, PeerStalls, PeerReads, Reader
<1>6. CASE Echo(c)
  BY <1>1, <1>6 DEF Echo, Labels
<1>7. CASE CloseFrame(c, "reader") \/ Teardown(c, "reader")
  BY <1>1, <1>7 DEF CloseFrame, Teardown, Reader, Labels
<1>8. CASE CloseFrame(c, "writer") \/ Teardown(c, "writer")
  BY <1>2, <1>8 DEF CloseFrame, Teardown, Labels
<1>9. CASE handler[c] = "leaving" /\ session[c] # "open" /\ CloseBegin(c, "reader")
  <2>1. PICK label \in Labels : goto(c, "reader", label)
    BY <1>9 DEF CloseBegin, swap, Labels
  <2> QED
    BY <1>1, <1>9, <2>1
<1>10. CASE CloseBegin(c, "writer")
  <2>1. PICK label \in Labels : goto(c, "writer", label)
    BY <1>10 DEF CloseBegin, swap, Labels
  <2> QED
    BY <1>2, <2>1
<1> QED
  BY <1>3, <1>4, <1>5, <1>6, <1>7, <1>8, <1>9, <1>10 DEF Socket, Inside, Actors

\* Only ArmTimer and TimerFires set a timer, and they set it to a time to come.
LEMMA TimersStep ==
  ASSUME ConsoleTypes, NEW c \in Conns, ArmTimer(c) \/ TimerFires(c) \/ Returned(c)
  PROVE  timer' \in [Conns -> Timers]
<1> clock \in Nat /\ Warning \in Nat /\ timer \in [Conns -> Timers]
  BY ConsoleAssumption DEF ConsoleTypes
<1>1. timer[c] \in Timers /\ timer[c].due \in Nat
  BY DEF Timers
<1>2. ASSUME NEW t \in Timers, timer' = [timer EXCEPT ![c] = t]
      PROVE  timer' \in [Conns -> Timers]
  BY <1>2
<1>3. CASE ArmTimer(c)
  <2>1. shown[c].exp \in Int
    BY <1>3, TokensAssumption DEF ArmTimer, ConsoleTypes
  <2> DEFINE left == shown[c].exp - clock
  <2>2. left \in Int
    BY <2>1
  <2>3. timer' = [timer EXCEPT ![c] =
          IF left <= 0 THEN @
          ELSE IF left > Warning THEN [at |-> "warning", due |-> clock + left - Warning]
          ELSE [at |-> "ending", due |-> clock + left]]
    BY <1>3 DEF ArmTimer, secondsLeft
  <2> HIDE DEF left
  <2>4. CASE left <= 0
    BY <1>1, <1>2, <2>2, <2>3, <2>4
  <2>5. CASE ~(left <= 0) /\ left > Warning
    <3>1. clock + left - Warning \in Nat
      BY <2>2, <2>5
    <3>2. [at |-> "warning", due |-> clock + left - Warning] \in Timers
      BY <3>1 DEF Timers
    <3> QED
      BY <1>2, <2>3, <2>5, <3>2
  <2>6. CASE ~(left <= 0) /\ ~(left > Warning)
    <3>1. clock + left \in Nat
      BY <2>2, <2>6
    <3>2. [at |-> "ending", due |-> clock + left] \in Timers
      BY <3>1 DEF Timers
    <3> QED
      BY <1>2, <2>3, <2>6, <3>2
  <2> QED
    BY <2>4, <2>5, <2>6
<1>4. CASE TimerFires(c)
  <2>1. PICK t : /\ timer' = [timer EXCEPT ![c] = t]
                 /\ \/ t = [at |-> "ending", due |-> clock + Warning]
                    \/ t = [timer[c] EXCEPT !.at = "closing"]
    BY <1>4, Zenon DEF TimerFires
  <2>2. t \in Timers
    BY <1>1, <2>1 DEF Timers
  <2> QED
    BY <1>2, <2>1, <2>2
<1>5. CASE Returned(c)
  <2>1. PICK label \in {"closing", "gone"} : timer' = [timer EXCEPT ![c].at = label]
    BY <1>5 DEF Returned
  <2>2. timer' = [timer EXCEPT ![c] = [timer[c] EXCEPT !.at = label]]
    BY <2>1, Zenon
  <2>3. [timer[c] EXCEPT !.at = label] \in Timers
    BY <1>1, <2>1 DEF Timers
  <2> QED
    BY <1>2, <2>2, <2>3
<1> QED
  BY <1>3, <1>4, <1>5

LEMMA ConsoleTypesStep ==
  ASSUME ConsoleTypes, ConsoleShape, Shape, ConsoleNext
  PROVE  ConsoleTypes'
<1> DEFINE rest(c) ==
       /\ handler[c] = "verified" => shown[c] \in PanelTokens
       /\ handler[c] = "loop" => session[c] = "open"
       /\ handler[c] = "returned" => session[c] # "open"
       /\ Reader(c) \in {"frame", "teardown", "closed"} =>
            handler[c] \in {"leaving", "returned"} /\ session[c] # "open"
<1> USE DEF ConsoleTypes
<1>1. ASSUME NEW c \in Conns, NEW token \in PanelTokens, FirstFrame(c, token) PROVE ConsoleTypes'
  <2>1. /\ timer' = timer /\ session' = session /\ clock' = clock /\ UNCHANGED vars
        /\ shown' = [shown EXCEPT ![c] = token] /\ handler[c] = "auth"
        /\ Reader(c) = "out"
        /\ \E label \in {"verified", "leaving"} : handler' = [handler EXCEPT ![c] = label]
    BY <1>1 DEF FirstFrame, goOn, reads, Reader
  <2>2. \A d \in Conns : Reader(d)' = Reader(d)
    BY <2>1 DEF vars, Reader
  <2> QED
    BY <2>1, <2>2 DEF ConsoleShape
<1>2. ASSUME NEW c \in Conns, FirstFrameOther(c) \/ HandlerStep(c) PROVE ConsoleTypes'
  <2>1. clock' = clock /\ shown' = shown /\ UNCHANGED vars
    BY <1>2 DEF FirstFrameOther, HandlerStep, ArmTimer, OpenSession, ReadEnds, LeaveSession, Returned
  <2>2. \A d \in Conns : Reader(d)' = Reader(d)
    BY <2>1 DEF vars, Reader
  <2>3. timer' \in [Conns -> Timers]
    BY <1>2, TimersStep
       DEF FirstFrameOther, HandlerStep, OpenSession, ReadEnds, LeaveSession
  <2>4. CASE FirstFrameOther(c) \/ ArmTimer(c) \/ ReadEnds(c)
    <3>1. /\ session' = session
          /\ \E label \in {"armed", "leaving"} : handler' = [handler EXCEPT ![c] = label]
          /\ handler[c] \in {"auth", "verified", "loop"}
      BY <2>4 DEF FirstFrameOther, ArmTimer, ReadEnds, goOn, reads
    <3> QED
      BY <2>1, <2>2, <2>3, <3>1 DEF ConsoleShape
  <2>5. CASE \E opens \in BOOLEAN : OpenSession(c, opens)
    <3>1. /\ handler[c] = "armed"
          /\ \/ handler' = [handler EXCEPT ![c] = "loop"] /\ session' = [session EXCEPT ![c] = "open"]
             \/ handler' = [handler EXCEPT ![c] = "leaving"] /\ session' = session
      BY <2>5 DEF OpenSession, goOn
    <3> QED
      BY <2>1, <2>2, <2>3, <3>1 DEF ConsoleShape
  <2>6. CASE LeaveSession(c)
    BY <2>1, <2>2, <2>3, <2>6 DEF LeaveSession, ConsoleShape
  <2>7. CASE Returned(c)
    <3>1. /\ handler[c] = "leaving" /\ Reader(c) = "closed"
          /\ handler' = [handler EXCEPT ![c] = "returned"] /\ session' = session
      BY <2>7 DEF Returned, goOn, Reader
    <3> QED
      BY <2>1, <2>2, <2>3, <3>1 DEF ConsoleShape
  <2> QED
    BY <1>2, <2>4, <2>5, <2>6, <2>7 DEF HandlerStep
<1>3. ASSUME NEW c \in Conns, TimerFires(c) PROVE ConsoleTypes'
  <2>1. timer' \in [Conns -> Timers]
    BY <1>3, TimersStep
  <2> QED
    BY <1>3, <2>1 DEF TimerFires, vars, Reader
<1>4. ASSUME NEW c \in Conns, NEW frame \in DOMAIN needs, Drive(c, frame) PROVE ConsoleTypes'
  BY <1>4 DEF Drive, vars, Reader
<1>5. ASSUME NEW c \in Conns, Socket(c) PROVE ConsoleTypes'
  <2>1. UNCHANGED consoleVars
    BY <1>5 DEF Socket
  <2>2. ASSUME NEW d \in Conns, Reader(d)' \in {"frame", "teardown", "closed"}
        PROVE  handler[d] \in {"leaving", "returned"} /\ session[d] # "open"
    BY <1>5, <2>2, ReaderCloses
  <2> QED
    BY <2>1, <2>2 DEF consoleVars
<1>6. CASE ClockTick
  BY <1>6 DEF ClockTick, vars, Reader
<1> QED
  BY <1>1, <1>2, <1>3, <1>4, <1>5, <1>6 DEF ConsoleNext

LEMMA ConsoleIsTyped ==
  ASSUME ConsoleTypes, GrantInv
  PROVE  ConsoleTypeOK
<1>1. ASSUME NEW c \in Conns
      PROVE  /\ perms[c] \subseteq shown[c].permissions
             /\ timer[c].at \in {"none", "warning", "ending", "closing", "gone"}
             /\ timer[c].due \in Nat
             /\ handler[c] \in {"loop"} => session[c] = "open"
             /\ handler[c] = "returned" => session[c] # "open"
  BY DEF ConsoleTypes, Timers, GrantInv, Granted
<1> QED
  BY <1>1 DEF ConsoleTypes, ConsoleTypeOK, GrantInv, ConsoleShape, Places

-----------------------------------------------------------------------------
FrontInv ==
  /\ ConfigInv
  /\ LimitInv /\ AuditInv /\ KnownInv /\ AccessTypes
  /\ IInv /\ GrantInv /\ ConsoleTypes
  /\ JailInv

LEMMA FrontStart == FrontInit => FrontInv
<1> SUFFICES ASSUME FrontInit PROVE FrontInv
  OBVIOUS
<1>1. /\ file \in ConfigFiles \cup WrittenFiles /\ conf = Load(file) /\ phase = "loading"
      /\ AccessInit /\ ConsoleInit /\ JailInit
  BY DEF FrontInit
<1>2. ConfigInv
  BY <1>1, ConfigStart
<1>3. LimitInv /\ AuditInv /\ KnownInv
  BY <1>1, <1>2, LimitInit, AuditStart, KnownStart
<1>4. AccessTypes
  BY <1>1 DEF AccessInit, NoBuckets, AccessTypes
<1>5. IInv
  BY <1>1, Initial DEF ConsoleInit
<1>6. GrantInv
  BY <1>1 DEF ConsoleInit, GrantInv, ConsoleShape, DriveGranted, Places
<1>7. ConsoleTypes
  BY <1>1 DEF ConsoleInit, Init, ConsoleTypes, Timers, Reader, Actors
<1>8. JailInv
  BY <1>1, JailStart
<1> QED
  BY <1>2, <1>3, <1>4, <1>5, <1>6, <1>7, <1>8 DEF FrontInv

\* A step of one part leaves the others as they are.
LEMMA FrontSteps ==
  ASSUME [FrontNext]_<<door, parts>>
  PROVE  \/ ConfigNext /\ UNCHANGED <<accessVars, vars, consoleVars, jailVars>>
         \/ AccessNext /\ UNCHANGED <<configVars, vars, consoleVars, jailVars>>
         \/ phase = "serving" /\ ConsoleNext /\ UNCHANGED <<configVars, accessVars, jailVars>>
         \/ JailNext /\ UNCHANGED <<configVars, accessVars, vars, consoleVars>>
         \/ UNCHANGED <<configVars, accessVars, vars, consoleVars, jailVars>>
BY DEF FrontNext, Start, ApiStep, ConsoleStep, FilesStep, parts

LEMMA FrontInductive == FrontInv /\ [FrontNext]_<<door, parts>> => FrontInv'
<1> SUFFICES ASSUME FrontInv, [FrontNext]_<<door, parts>> PROVE FrontInv'
  OBVIOUS
<1>1. ConfigInv'
  BY FrontSteps, StartUpKeeps DEF FrontInv
<1>2. LimitInv' /\ AuditInv' /\ KnownInv'
  <2>1. CASE ConfigNext /\ UNCHANGED accessVars
    BY <2>1, LimitFrame, ConfigStep, KnownConfig DEF accessVars, FrontInv
  <2>2. CASE AccessNext /\ UNCHANGED configVars
    BY <2>2, LimitInductive, AuditSteps, KnownStep DEF FrontInv
  <2>3. CASE UNCHANGED <<configVars, accessVars>>
    BY <2>3, LimitFrame, AuditFrame, KnownFrame DEF accessVars, FrontInv
  <2> QED
    BY <2>1, <2>2, <2>3, FrontSteps
<1>3. AccessTypes'
  <2>1. CASE AccessNext
    BY <2>1, AccessTypesStep DEF FrontInv
  <2>2. CASE UNCHANGED accessVars
    BY <2>2 DEF accessVars, bucketVars, auditVars, AccessTypes, FrontInv
  <2> QED
    BY <2>1, <2>2, FrontSteps
<1>4. [\/ ConfigNext /\ UNCHANGED <<vars, consoleVars>>
       \/ phase = "serving" /\ ConsoleNext /\ UNCHANGED configVars]_allVars
  BY FrontSteps DEF allVars
<1>5. IInv'
  BY <1>4, StepsOfTheConnection, Inductive DEF FrontInv
<1>6. GrantInv'
  BY <1>4, GrantsInductive DEF FrontInv
<1>7. ConsoleTypes'
  <2>1. CASE ConsoleNext
    BY <2>1, ConsoleTypesStep DEF FrontInv, GrantInv, IInv
  <2>2. CASE UNCHANGED <<vars, consoleVars>>
    BY <2>2 DEF vars, consoleVars, ConsoleTypes, Reader, FrontInv
  <2> QED
    BY <2>1, <2>2, FrontSteps
<1>8. JailInv'
  BY FrontSteps, JailStep DEF FrontInv
<1> QED
  BY <1>1, <1>2, <1>3, <1>5, <1>6, <1>7, <1>8 DEF FrontInv

LEMMA FrontInvariant == FrontSpec => []FrontInv
BY FrontStart, FrontInductive, PTL DEF FrontSpec

\* The state of every part is of its type, at any time: what a token was signed
\* for bounds what its connection may do, the log counts what it lost, and what
\* exists in the file system has a parent.
THEOREM PartsAreTyped == FrontSpec => []TypesOK
<1>1. FrontInv => TypesOK
  BY AccessIsTyped, ConnIsTyped, ConsoleIsTyped, JailIsTyped DEF FrontInv, TypesOK
<1> QED
  BY <1>1, FrontInvariant, PTL

\* Behind the front door all of it holds at once: the keys are those of the file,
\* the limits and the log of the API, the handshake and the grants of the console
\* and the jail of the file operations.
THEOREM TheFrontDoorHolds ==
  FrontSpec => []/\ AcceptedAsWritten
                 /\ Throttled /\ KnownBuckets /\ AuditComplete
                 /\ OneCloseFrame /\ FlagMeansFrame /\ CloseIsComplete
                 /\ DriveGranted /\ ServedInside
<1>1. ConfigInv => AcceptedAsWritten
  BY KeysAsWritten
<1>2. LimitInv => Throttled
  BY LimitHolds
<1>3. KnownInv => KnownBuckets
  BY DEF KnownInv, KnownBuckets, Known
<1>4. AuditInv => AuditComplete
  BY KeptIsComplete
<1>5. IInv => OneCloseFrame /\ FlagMeansFrame /\ CloseIsComplete
  BY HandshakeHolds
<1>6. GrantInv => DriveGranted
  BY DEF GrantInv
<1>7. JailInv => ServedInside
  BY InsideHolds
<1> QED
  BY <1>1, <1>2, <1>3, <1>4, <1>5, <1>6, <1>7, FrontInvariant, PTL DEF FrontInv
=============================================================================
