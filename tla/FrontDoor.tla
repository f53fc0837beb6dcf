----------------------------- MODULE FrontDoor ------------------------------
(***************************************************************************)
(* What stands between a client and the node: the configuration wings      *)
(* starts with, the chain of the API, the console websocket of the panel   *)
(* and the file operations.  They share the configuration only, so a       *)
(* behaviour walks through one door and leaves the state behind the others *)
(* as it is.                                                               *)
(***************************************************************************)
EXTENDS Access, BrowserConsole, PathJail

CONSTANTS
  WrittenFiles,  \* the files the door "config" reads, for the others ConfigFiles
  Only           \* the one request of the doors "addresses" and "keys"

ASSUME WrittenAssumption ==
  \A f \in WrittenFiles : isSeq(f) /\ \A i \in DOMAIN f : isSeq(f[i].pairs)

VARIABLE door

parts == <<configVars, accessVars, vars, consoleVars, jailVars>>

FrontInit ==
  /\ door \in {"config", "addresses", "keys", "api", "console", "files"}
  /\ IF door = "config" THEN file \in WrittenFiles ELSE file \in ConfigFiles
  /\ conf = Load(file) /\ phase = "loading"
  /\ AccessInit /\ ConsoleInit /\ JailInit
  /\ door # "api" => auditFile = "none"

\* Bounds: the doors "addresses" and "keys" are for the two sets of buckets, with
\* one reading request at a time and the log closed; the door "api" is for the
\* audit and the routes, with requests of the loopback.
Focus ==
  /\ door = "addresses" => keys = NoBuckets
  /\ door \in {"keys", "api"} => clients = NoBuckets
  /\ door \in {"addresses", "keys"} =>
       /\ auditFile = "none"
       /\ \A r \in Requests : reqs[r].at # "idle" => r = Only
       /\ \A r \in Requests : reqs[r].at = "admitted" => reqs[r].send.route.method = "GET"
  /\ door = "api" =>
       /\ now = 0
       /\ \A r \in Requests : reqs[r].at = "admitted" => reqs[r].send.route.method = "POST"

Start == ConfigNext /\ UNCHANGED <<accessVars, vars, consoleVars, jailVars>>

ApiStep ==
  /\ door \in {"addresses", "keys", "api"}
  /\ AccessNext /\ Focus'
  /\ UNCHANGED <<configVars, vars, consoleVars, jailVars>>

ConsoleStep ==
  /\ door = "console" /\ phase = "serving"
  /\ ConsoleNext
  /\ UNCHANGED <<configVars, accessVars, jailVars>>

FilesStep ==
  /\ door = "files" /\ phase = "serving"
  /\ JailNext
  /\ UNCHANGED <<configVars, accessVars, vars, consoleVars>>

FrontNext == UNCHANGED door /\ (Start \/ ApiStep \/ ConsoleStep \/ FilesStep)

\* The fairness of BrowserConsole, for the steps behind its door.
Behind(A) == door = "console" /\ phase = "serving" /\ A /\ UNCHANGED <<door, configVars, accessVars, jailVars>>

FrontFairness ==
  /\ WF_<<door, parts>>(Behind(ClockTick))
  /\ \A c \in Conns : WF_<<door, parts>>(Behind(ExpirySteps(c)))

FrontSpec == FrontInit /\ [][FrontNext]_<<door, parts>> /\ FrontFairness
-----------------------------------------------------------------------------
TypesOK == AccessTypeOK /\ TypeOK /\ ConsoleTypeOK /\ JailTypeOK
=============================================================================
