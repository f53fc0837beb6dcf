------------------------------- MODULE Access -------------------------------
(***************************************************************************)
(* The chain of middleware every authenticated request goes through        *)
(* (server.go: CORS, body limit, rate limit by address, authentication,    *)
(* rate limit by key, audit) with the token buckets of internal/auth, the  *)
(* audit log and its rotation (audit.go), and the gate of its route.  Each *)
(* middleware is one step; the requests interleave between them.           *)
(*                                                                         *)
(* Time is counted in ticks, and a token in parts: a request takes Cost of *)
(* them, a bucket holds up to its burst and gains its rate in a tick.      *)
(***************************************************************************)
EXTENDS Config, Routes, FiniteSets

CONSTANTS
  Requests, Hosts, Loopback,
  Sends,       \* what a client sends: [token, via, upgrade, route]
  Cost, IpRate, IpBurst, KeyRate, KeyBurst,
  MaxClients, IpPruneAge, KeyPruneAge,
  AuditMax,    \* entries at which the log is rotated
  Horizon,     \* bound: the ticks
  MaxEntries   \* bound: the requests the audit middleware sees

ASSUME RatesAssumption ==
  /\ Loopback \subseteq Hosts
  /\ Cost \in Nat \ {0} /\ IpRate \in Nat /\ KeyRate \in Nat
  /\ IpBurst \in Nat /\ KeyBurst \in Nat
  /\ IpPruneAge \in Nat /\ KeyPruneAge \in Nat
  /\ MaxClients \in Nat \ {0} /\ AuditMax \in Nat \ {0}
  /\ Horizon \in Nat /\ MaxEntries \in Nat

\* A bucket that may be pruned is full again: true of the defaults, and not
\* enforced on a configuration.
ASSUME PruneAssumption ==
  IpRate * IpPruneAge >= IpBurst /\ KeyRate * KeyPruneAge >= KeyBurst

VARIABLES
  now,
  clients,     \* Middleware.clients: the buckets by address
  keys,        \* Middleware.keys: the buckets by key
  reqs,        \* where a request is
  auditFile,   \* auditLog.f: open, none (nothing is recorded), closed (by a failed rotation)
  auditSize,   \* auditLog.size
  auditLog,    \* the entries in the file at auditLog.path
  auditOld,    \* the entries in the file it was last renamed to
  serial,      \* ghost: the mutating requests the audit middleware saw
  lost,        \* ghost: those of them whose entry was not written
  window,      \* ghost: when the counts below started
  byHost,      \* ghost: the requests each address was let through with since
  byKey        \* ghost: the same for each bucket of keys

bucketVars == <<now, clients, keys, window, byHost, byKey>>
auditVars == <<auditFile, auditSize, auditLog, auditOld, serial, lost>>
accessVars == <<bucketVars, reqs, auditVars>>

NoReq == [at |-> "idle"]
NoBuckets == [id \in {} |-> 0]

AccessInit ==
  /\ now = 0 /\ clients = NoBuckets /\ keys = NoBuckets
  /\ reqs = [r \in Requests |-> NoReq]
  /\ auditFile \in {"open", "none"} /\ auditSize = 0
  /\ auditLog = <<>> /\ auditOld = <<>> /\ serial = 0 /\ lost = {}
  /\ window = 0 /\ byHost = [h \in Hosts |-> 0] /\ byKey = NoBuckets

-----------------------------------------------------------------------------
\* takeLocked, before the token is taken.
refilled(b, rate, burst) ==
  LET tokens == b.tokens + rate * (now - b.last)
  IN [tokens |-> IF tokens > burst THEN burst ELSE tokens, last |-> now]

taken(b) == [b EXCEPT !.tokens = IF @ < Cost THEN @ ELSE @ - Cost]

stored(map, id, b) == [x \in DOMAIN map \cup {id} |-> IF x = id THEN b ELSE map[x]]

pruned(map, age) == [x \in {y \in DOMAIN map : map[y].last >= now - age} |-> map[x]]

\* The buckets a limiter works with: a new one makes room first.
roomFor(map, id, age) ==
  IF id \notin DOMAIN map /\ Cardinality(DOMAIN map) >= MaxClients THEN pruned(map, age) ELSE map

bucketOf(map, id, burst) ==
  IF id \in DOMAIN map THEN map[id] ELSE [tokens |-> burst, last |-> now]

\* One more for id, among counts that start at 0.
counted(map, id) ==
  [x \in DOMAIN map \cup {id} |->
     (IF x \in DOMAIN map THEN map[x] ELSE 0) + (IF x = id THEN 1 ELSE 0)]

\* Mutant: the bucket is filled again whenever it is looked at.
RateLimit_Full(h, pass, refuse) ==
  IF h \in Loopback THEN pass /\ UNCHANGED <<clients, byHost>>
  ELSE /\ clients' = stored(roomFor(clients, h, IpPruneAge), h,
                            taken([tokens |-> IpBurst, last |-> now]))
       /\ byHost' = [byHost EXCEPT ![h] = @ + 1]
       /\ pass

\* RateLimit: loopback passes, and the others take a token of their address.
RateLimit(h, pass, refuse) ==
  IF h \in Loopback THEN pass /\ UNCHANGED <<clients, byHost>>
  ELSE LET b == refilled(bucketOf(clients, h, IpBurst), IpRate, IpBurst)
       IN /\ clients' = stored(roomFor(clients, h, IpPruneAge), h, taken(b))
          /\ IF b.tokens < Cost THEN refuse /\ UNCHANGED byHost
             ELSE pass /\ byHost' = [byHost EXCEPT ![h] = @ + 1]

answered(r) == reqs' = [reqs EXCEPT ![r] = NoReq]

\* A request enters the chain.  CORS answers OPTIONS; the cap of the body only
\* shows when a handler reads it.
Arrive(r, h, send) ==
  /\ phase = "serving"
  /\ reqs[r].at = "idle"
  /\ send.route.method # "OPTIONS"
  /\ RateLimit(h, reqs' = [reqs EXCEPT ![r] = [at |-> "admitted", send |-> send]], answered(r))
  /\ UNCHANGED <<now, keys, window, byKey, auditVars>>

-----------------------------------------------------------------------------
\* The token Authenticate looks at: of the header, or of the query when the
\* request is an upgrade to a websocket.
presents(send) == send.via = "header" \/ (send.via = "query" /\ send.upgrade)

authenticated(send) == presents(send) /\ send.token # "" /\ Authorized(send.token)

\* The bucket of RateLimitKey; a token in the query has none of its own.
bucketId(send) ==
  IF send.via # "header" THEN <<"anon">>
  ELSE LET name == keyOf(send.token).name
       IN <<"key", IF name = "" THEN send.token ELSE name>>

crowded(map, id) == id \notin DOMAIN map /\ Cardinality(DOMAIN map) >= 2 * MaxClients

\* Mutant: the limiter by key comes first, and knows the header only.
AuthLimit_Swapped(r) ==
  /\ reqs[r].at = "admitted"
  /\ LET send == reqs[r].send
         id == IF send.via # "header" THEN <<"anon">> ELSE <<"key", send.token>>
         room == roomFor(keys, id, KeyPruneAge)
         b == refilled(bucketOf(keys, id, KeyBurst), KeyRate, KeyBurst)
     IN /\ keys' = IF crowded(room, id) THEN room ELSE stored(room, id, taken(b))
        /\ IF crowded(room, id) \/ b.tokens < Cost \/ ~authenticated(send)
           THEN answered(r) /\ UNCHANGED byKey
           ELSE /\ byKey' = counted(byKey, id)
                /\ reqs' = [reqs EXCEPT ![r] = [at |-> "limited", route |-> send.route,
                              name |-> keyOf(send.token).name, role |-> keyOf(send.token).role]]
  /\ UNCHANGED <<now, clients, window, byHost, auditVars>>

\* Authenticate, then RateLimitKey.
AuthLimit(r) ==
  /\ reqs[r].at = "admitted"
  /\ LET send == reqs[r].send
         id == bucketId(send)
         room == roomFor(keys, id, KeyPruneAge)
         b == refilled(bucketOf(keys, id, KeyBurst), KeyRate, KeyBurst)
     IN \/ /\ ~authenticated(send)
           /\ answered(r)
           /\ UNCHANGED <<keys, byKey>>
        \/ /\ authenticated(send)
           /\ keys' = IF crowded(room, id) THEN room ELSE stored(room, id, taken(b))
           /\ IF crowded(room, id) \/ b.tokens < Cost
              THEN answered(r) /\ UNCHANGED byKey
              ELSE /\ byKey' = counted(byKey, id)
                   /\ reqs' = [reqs EXCEPT ![r] = [at |-> "limited", route |-> send.route,
                                 name |-> keyOf(send.token).name, role |-> keyOf(send.token).role]]
  /\ UNCHANGED <<now, clients, window, byHost, auditVars>>

-----------------------------------------------------------------------------
\* Mutant: the file that could not be renamed is opened anew.
rotate_Truncate(log, size, renamed, reopened) ==
  IF size < AuditMax
  THEN auditLog' = log /\ auditSize' = size /\ UNCHANGED <<auditOld, auditFile>>
  ELSE /\ IF renamed /\ log # <<>> THEN auditOld' = log ELSE UNCHANGED auditOld
       /\ auditLog' = <<>>
       /\ auditFile' = IF reopened THEN "open" ELSE "closed"
       /\ auditSize' = IF reopened THEN 0 ELSE size

\* maybeRotateLocked, on the log with its new entry: the file is closed,
\* renamed and opened again, each of which may fail.
rotate(log, size, renamed, reopened) ==
  IF size < AuditMax
  THEN auditLog' = log /\ auditSize' = size /\ UNCHANGED <<auditOld, auditFile>>
  ELSE /\ IF renamed /\ log # <<>> THEN auditOld' = log /\ auditLog' = <<>>
          ELSE auditLog' = log /\ UNCHANGED auditOld
       /\ auditFile' = IF reopened THEN "open" ELSE "closed"
       /\ auditSize' = IF reopened THEN 0 ELSE size

\* record: a write to a file that is closed, or to a full disk, is not noticed.
record(entry, wrote, renamed, reopened) ==
  IF auditFile = "none"
  THEN /\ lost' = lost \cup {entry.n}
       /\ UNCHANGED <<auditFile, auditSize, auditLog, auditOld>>
  ELSE LET done == wrote /\ auditFile = "open"
       IN /\ lost' = IF done THEN lost ELSE lost \cup {entry.n}
          /\ rotate(IF done THEN Append(auditLog, entry) ELSE auditLog,
                    IF done THEN auditSize + 1 ELSE auditSize, renamed, reopened)

\* A key without a name is recorded as the routes without a key are.
recorded(name) == IF name = "" THEN "public" ELSE name

\* auditMiddleware, before the handler and its role are looked at.
Audit(r, wrote, renamed, reopened) ==
  /\ reqs[r].at = "limited"
  /\ IF isMutation(reqs[r].route.method)
     THEN /\ serial < MaxEntries
          /\ serial' = serial + 1
          /\ record([n |-> serial', name |-> recorded(reqs[r].name), role |-> reqs[r].role],
                    wrote, renamed, reopened)
          /\ reqs' = [reqs EXCEPT ![r] = [at |-> "audited", route |-> reqs[r].route,
                        name |-> reqs[r].name, role |-> reqs[r].role, n |-> serial']]
     ELSE /\ reqs' = [reqs EXCEPT ![r] = [at |-> "audited", route |-> reqs[r].route,
                        name |-> reqs[r].name, role |-> reqs[r].role, n |-> 0]]
          /\ UNCHANGED auditVars
  /\ UNCHANGED bucketVars

\* The mux and AdminOnly.
Route(r) ==
  /\ reqs[r].at = "audited"
  /\ IF /\ hasHandler(reqs[r].route)
        /\ needsAdmin(reqs[r].route, conf.remote.metrics_requires_auth) => reqs[r].role = "admin"
     THEN reqs' = [reqs EXCEPT ![r].at = "handler"]
     ELSE answered(r)
  /\ UNCHANGED <<bucketVars, auditVars>>

Return(r) ==
  /\ reqs[r].at = "handler"
  /\ answered(r)
  /\ UNCHANGED <<bucketVars, auditVars>>

-----------------------------------------------------------------------------
Tick ==
  /\ now < Horizon
  /\ now' = now + 1
  /\ UNCHANGED <<clients, keys, window, byHost, byKey, reqs, auditVars>>

\* Ghost: start counting here.
StartWindow ==
  /\ window' = now
  /\ byHost' = [h \in Hosts |-> 0] /\ byKey' = NoBuckets
  /\ UNCHANGED <<now, clients, keys, reqs, auditVars>>

\* The process starts again: New has no buckets, and initAudit appends to the
\* log it finds.
Restart(opens) ==
  /\ clients' = NoBuckets /\ keys' = NoBuckets
  /\ reqs' = [r \in Requests |-> NoReq]
  /\ auditFile' = IF opens THEN "open" ELSE "none"
  /\ auditSize' = Len(auditLog)
  /\ window' = now /\ byHost' = [h \in Hosts |-> 0] /\ byKey' = NoBuckets
  /\ UNCHANGED <<now, auditLog, auditOld, serial, lost>>

AccessNext ==
  \/ \E r \in Requests :
       \/ \E h \in Hosts, send \in Sends : Arrive(r, h, send)
       \/ AuthLimit(r)
       \/ \E wrote, renamed, reopened \in BOOLEAN : Audit(r, wrote, renamed, reopened)
       \/ Route(r) \/ Return(r)
  \/ Tick \/ StartWindow
  \/ \E opens \in BOOLEAN : Restart(opens)

AccessSpec ==
  /\ ConfigInit /\ AccessInit
  /\ [][\/ ConfigNext /\ UNCHANGED accessVars
        \/ AccessNext /\ UNCHANGED configVars]_<<configVars, accessVars>>
-----------------------------------------------------------------------------
Bucket(burst) == [tokens : 0..burst, last : 0..now]

AccessTypeOK ==
  /\ now \in Nat /\ window \in 0..now
  /\ DOMAIN clients \subseteq Hosts
  /\ \A h \in DOMAIN clients : clients[h] \in Bucket(IpBurst)
  /\ \A id \in DOMAIN keys : keys[id] \in Bucket(KeyBurst)
  /\ byHost \in [Hosts -> Nat]
  /\ \A id \in DOMAIN byKey : byKey[id] \in Nat
  /\ DOMAIN reqs = Requests
  /\ auditFile \in {"open", "none", "closed"} /\ auditSize \in Nat
  /\ serial \in Nat /\ lost \subseteq 1..serial

\* Over any stretch of time an address, and a key, get no more requests through
\* than its burst and what its rate gives in that time, however the requests
\* interleave and whatever the pruning of the buckets forgets.
Throttled ==
  /\ \A h \in Hosts \ Loopback : byHost[h] * Cost <= IpBurst + IpRate * (now - window)
  /\ \A id \in DOMAIN byKey : byKey[id] * Cost <= KeyBurst + KeyRate * (now - window)

\* Only the keys of the configuration have a bucket of their own (server.go: the
\* limiter by key runs after the authentication, or any token would make one).
KnownBuckets ==
  DOMAIN keys \subseteq
    {<<"anon">>} \cup {<<"key", conf.keys[i].name>> : i \in DOMAIN conf.keys}
                 \cup {<<"key", conf.keys[i].key>> : i \in DOMAIN conf.keys}

Numbered(entries) == {entries[i].n : i \in DOMAIN entries}

\* The audit log and the file it was rotated to hold, in order and without a
\* gap, the mutating requests since the oldest entry they have, but for those
\* that found no open log; and a request is in it, under its own key and role,
\* before its handler runs.
AuditComplete ==
  LET kept == auditOld \o auditLog
  IN kept # <<>> =>
       /\ \A i \in 1 .. Len(kept) - 1 : kept[i].n < kept[i + 1].n
       /\ kept[1].n .. serial \subseteq Numbered(kept) \cup lost
       /\ \A r \in Requests, i \in DOMAIN kept :
            (reqs[r].at \in {"audited", "handler"} /\ reqs[r].n = kept[i].n) =>
              kept[i].name = recorded(reqs[r].name) /\ kept[i].role = reqs[r].role

\* "Mutating handlers wrap themselves in mw.AdminOnly": the handler of a request
\* that is no GET runs for an admin key only.
WritesNeedAdmin ==
  \A r \in Requests :
    reqs[r].at = "handler" /\ reqs[r].route.method # "GET" => reqs[r].role = "admin"
=============================================================================
