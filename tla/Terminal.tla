------------------------------ MODULE Terminal ------------------------------
(***************************************************************************)
(* The console sessions of one container (internal/server/terminal.go):    *)
(* terminalManager, which keeps the newest session, the attach goroutine   *)
(* of every session, the handler of POST .../terminal, the websocket       *)
(* handler with its writer goroutine, and the SSE stream.                  *)
(*                                                                         *)
(* Sessions are numbered in the order they are opened; the websocket of a  *)
(* session has its number.  The output of a session is the subject of      *)
(* TerminalSession, the closing handshake of a websocket that of WsConn;   *)
(* here a channel holds the end marker or not and is closed when its       *)
(* session is, and a websocket is open, stalled, or closed by either side. *)
(* It is stalled while its client does not read and the buffers on the way *)
(* are full: WriteText has no deadline, so a write then waits and keeps    *)
(* writeMu, for which Close may wait before it closes the socket.          *)
(***************************************************************************)
EXTENDS Naturals, FiniteSets

CONSTANTS MaxSessions, \* bound: sessions opened
          Streams      \* SSE clients, each streams once

Sessions == 1..MaxSessions
Handlers == Sessions \cup Streams
None == 0              \* no session in the map

ASSUME SessionsAssumption == MaxSessions \in Nat /\ Streams \cap Nat = {}

VARIABLES
  current,  \* terminals.sessions[id]
  opened,   \* how many sessions were opened
  closed,   \* terminalSession.closed
  ctxDone,  \* the context of the session is cancelled
  attach,   \* the attach goroutine and its process
  said,     \* the end marker was broadcast, and is in the ring
  marked,   \* the writer's channel holds the end marker
  pc,       \* where the handler of a session or stream is
  works,    \* the session a stream works on
  writer,   \* the writer goroutine of a websocket
  conn,     \* the websocket of a session: none, open, stalled, closed
  lossy     \* observer: the marker found the writer's channel full

managerVars == <<current, opened>>
closeVars   == <<closed, ctxDone>>
markerVars  == <<said, marked, lossy>>
vars == <<managerVars, closeVars, attach, markerVars, pc, works, writer, conn>>

Init ==
  /\ current = None
  /\ opened = 0
  /\ closed = [s \in Sessions |-> FALSE]
  /\ ctxDone = [s \in Sessions |-> FALSE]
  /\ attach = [s \in Sessions |-> "none"]
  /\ said = [s \in Sessions |-> FALSE]
  /\ marked = [s \in Sessions |-> FALSE]
  /\ pc = [p \in Handlers |-> "idle"]
  /\ works = [g \in Streams |-> None]
  /\ writer = [s \in Sessions |-> "none"]
  /\ lossy = {}
  /\ conn = [s \in Sessions |-> "none"]

goto(p, label) == pc' = [pc EXCEPT ![p] = label]
sessionOf(p) == IF p \in Sessions THEN p ELSE works[p]

\* Mutant: the context is not cancelled.
closeAll_Running(S) ==
  /\ closed' = [s \in Sessions |-> closed[s] \/ s \in S]
  /\ UNCHANGED ctxDone

\* close() of a session; open closes the one it replaces, if any.
closeAll(S) ==
  /\ closed' = [s \in Sessions |-> closed[s] \/ s \in S]
  /\ ctxDone' = [s \in Sessions |-> ctxDone[s] \/ s \in S]

-----------------------------------------------------------------------------
(* terminalManager.open and the handlers that call it *)

\* Under tm.mu the session in the map is closed and replaced; then the attach
\* process is started.
open(s) ==
  /\ s = opened + 1
  /\ opened' = s
  /\ closeAll({current} \ {None})
  /\ current' = s
  /\ attach' = [attach EXCEPT ![s] = "running"]

\* handleTerminalWS: the session is the handler's own, its writer is started.
OpenWS(s) ==
  /\ open(s)
  /\ goto(s, "reading")
  /\ writer' = [writer EXCEPT ![s] = "start"]
  /\ conn' = [conn EXCEPT ![s] = "open"]
  /\ UNCHANGED <<markerVars, works>>

\* handleTerminalOpen: the session runs in the context of the request.
OpenPost(s) ==
  /\ open(s)
  /\ goto(s, "reply")
  /\ UNCHANGED <<markerVars, works, writer, conn>>

\* The handler returns, and net/http cancels the context of its request.
PostReply(s) ==
  /\ pc[s] = "reply"
  /\ goto(s, "gone")
  /\ ctxDone' = [ctxDone EXCEPT ![s] = TRUE]
  /\ UNCHANGED <<managerVars, closed, attach, markerVars, works, writer, conn>>

-----------------------------------------------------------------------------
(* The attach goroutine *)

becomes(s, st) == attach' = [attach EXCEPT ![s] = st]

\* The console ends by itself.
AttachExit(s) ==
  /\ attach[s] = "running"
  /\ becomes(s, "ended")
  /\ UNCHANGED <<managerVars, closeVars, markerVars, pc, works, writer, conn>>

\* exec.CommandContext kills the process when the context is done.
AttachKilled(s) ==
  /\ attach[s] = "running"
  /\ ctxDone[s]
  /\ becomes(s, "killed")
  /\ UNCHANGED <<managerVars, closeVars, markerVars, pc, works, writer, conn>>

\* broadcast of the end marker, which a full channel misses.
AttachEnd(s) ==
  /\ attach[s] \in {"ended", "killed"}
  /\ becomes(s, "closing")
  /\ said' = [said EXCEPT ![s] = ~closed[s]]
  /\ IF closed[s] \/ writer[s] # "loop" THEN UNCHANGED <<marked, lossy>>
     ELSE \/ marked' = [marked EXCEPT ![s] = TRUE] /\ UNCHANGED lossy
          \/ lossy' = lossy \cup {s} /\ UNCHANGED marked
  /\ UNCHANGED <<managerVars, closeVars, pc, works, writer, conn>>

AttachClose(s) ==
  /\ attach[s] = "closing"
  /\ becomes(s, "done")
  /\ closeAll({s})
  /\ UNCHANGED <<managerVars, markerVars, pc, works, writer, conn>>

-----------------------------------------------------------------------------
(* The writer goroutine of a websocket *)

\* Mutant: a session that is over is not replayed.
WriterSubscribes_NoReplay(s) ==
  /\ writer[s] = "start"
  /\ writer' = [writer EXCEPT ![s] = "loop"]
  /\ marked' = [marked EXCEPT ![s] = said[s] /\ ~closed[s]]
  /\ UNCHANGED <<managerVars, closeVars, attach, said, lossy, pc, works, conn>>

\* The ring is replayed, the end marker with it; a closed session is replayed too.
WriterSubscribes(s) ==
  /\ writer[s] = "start"
  /\ writer' = [writer EXCEPT ![s] = "loop"]
  /\ marked' = [marked EXCEPT ![s] = said[s]]
  /\ UNCHANGED <<managerVars, closeVars, attach, said, lossy, pc, works, conn>>

\* The end marker is taken and written, or a write fails, and the websocket is
\* closed.  The writes of a stalled client do not come back, and what would keep
\* Close from the socket keeps the write before it.
WriterStops(s) ==
  /\ writer[s] = "loop" /\ conn[s] # "stalled"
  /\ marked[s] \/ conn[s] # "open"
  /\ writer' = [writer EXCEPT ![s] = "gone"]
  /\ marked' = [marked EXCEPT ![s] = FALSE]
  /\ conn' = [conn EXCEPT ![s] = "closed"]
  /\ UNCHANGED <<managerVars, closeVars, attach, said, lossy, pc, works>>

\* The channel is closed and empty: the goroutine returns and leaves the websocket
\* alone.  With a stalled client it may be stuck in a write before that.
WriterDrained(s) ==
  /\ writer[s] = "loop"
  /\ closed[s] /\ ~marked[s]
  /\ writer' = [writer EXCEPT ![s] = "gone"]
  /\ UNCHANGED <<managerVars, closeVars, attach, markerVars, pc, works, conn>>

-----------------------------------------------------------------------------
(* The stream handler, and the way out of both handlers *)

\* Mutant: the session is used without looking whether there is one.
StreamGet_Unchecked(g) ==
  /\ pc[g] = "idle"
  /\ works' = [works EXCEPT ![g] = current]
  /\ goto(g, "streaming")
  /\ UNCHANGED <<managerVars, closeVars, attach, markerVars, writer, conn>>

StreamGet(g) ==
  /\ pc[g] = "idle"
  /\ current # None
  /\ works' = [works EXCEPT ![g] = current]
  /\ goto(g, "streaming")
  /\ UNCHANGED <<managerVars, closeVars, attach, markerVars, writer, conn>>

\* The client has left, or the session is over.
StreamLeaves(g) ==
  /\ pc[g] = "streaming"
  /\ goto(g, "close")
  /\ UNCHANGED <<managerVars, closeVars, attach, markerVars, works, writer, conn>>

\* ReadText returns an error: the client has left, broke the protocol or was
\* closed by the writer; or writeInput fails: the session is over, or nobody
\* takes its input.
ReaderLeaves(s) ==
  /\ pc[s] = "reading"
  /\ goto(s, "remove")
  /\ UNCHANGED <<managerVars, closeVars, attach, markerVars, works, writer, conn>>

\* Mutant: whatever session is in the map is removed.
removeIf_Any(s) == current' = None

removeIf(s) == current' = IF current = s THEN None ELSE current

\* The deferred calls run last to first: a stream closes its session and then
\* removes it, a websocket handler removes its session and then closes it.
LeaveRemove(p) ==
  /\ pc[p] = "remove"
  /\ removeIf(sessionOf(p))
  /\ goto(p, IF p \in Sessions THEN "close" ELSE "gone")
  /\ UNCHANGED <<opened, closeVars, attach, markerVars, works, writer, conn>>

LeaveClose(p) ==
  /\ pc[p] = "close"
  /\ closeAll({sessionOf(p)})
  /\ goto(p, IF p \in Sessions THEN "conn" ELSE "remove")
  /\ UNCHANGED <<managerVars, attach, markerVars, works, writer, conn>>

\* The deferred Close of a websocket.  It gets through to the socket of a stalled
\* client only when close frames were exchanged before: it needs no writeMu then.
LeaveConn(s) ==
  /\ pc[s] = "conn"
  /\ goto(s, "gone")
  /\ conn' = [conn EXCEPT ![s] = "closed"]
  /\ UNCHANGED <<managerVars, closeVars, attach, markerVars, works, writer>>

\* The browser of a websocket stops reading ...
ClientStalls(s) ==
  /\ conn[s] = "open"
  /\ conn' = [conn EXCEPT ![s] = "stalled"]
  /\ UNCHANGED <<managerVars, closeVars, attach, markerVars, pc, works, writer>>

\* ... reads again ...
ClientReads(s) ==
  /\ conn[s] = "stalled"
  /\ conn' = [conn EXCEPT ![s] = "open"]
  /\ UNCHANGED <<managerVars, closeVars, attach, markerVars, pc, works, writer>>

\* ... or goes away.
ClientLeaves(s) ==
  /\ conn[s] \in {"open", "stalled"}
  /\ conn' = [conn EXCEPT ![s] = "closed"]
  /\ UNCHANGED <<managerVars, closeVars, attach, markerVars, pc, works, writer>>

Attach(s) == AttachKilled(s) \/ AttachEnd(s) \/ AttachClose(s)
Writer(s) == WriterSubscribes(s) \/ WriterStops(s) \/ WriterDrained(s)
Leave(p)  == LeaveRemove(p) \/ LeaveClose(p)
Client(s) == ClientStalls(s) \/ ClientReads(s) \/ ClientLeaves(s)

Next ==
  \/ \E s \in Sessions :
       \/ OpenWS(s) \/ OpenPost(s) \/ PostReply(s)
       \/ AttachExit(s) \/ Attach(s) \/ Writer(s)
       \/ ReaderLeaves(s) \/ LeaveConn(s) \/ Client(s)
  \/ \E p \in Handlers : Leave(p)
  \/ \E g \in Streams : StreamGet(g) \/ StreamLeaves(g)

Spec == Init /\ [][Next]_vars

\* The work of a websocket's goroutines that a client which does not read can hold
\* up for ever.
Sends(s) == WriterStops(s) \/ WriterDrained(s) \/ LeaveConn(s)

\* The work of the daemon's goroutines: the attach goroutine once its process
\* ended or is killed, the writer, and a handler that is on its way out.
Work ==
  \/ \E s \in Sessions :
       \/ Attach(s) \/ WriterSubscribes(s)
       \/ conn[s] # "stalled" /\ Sends(s)
       \/ conn[s] = "closed" /\ ReaderLeaves(s)
  \/ \E p \in Handlers : Leave(p)
  \/ \E g \in Streams : works[g] # None /\ closed[works[g]] /\ StreamLeaves(g)

\* Goroutines run, and the writes of a stream end by the deadline of the server,
\* which a websocket does not have.  The work that is left is finite, so it is
\* enough that some of it is always done.  Nothing is assumed of the console, of the
\* clients (which may stop reading for good), or of who opens sessions.
Fairness == WF_vars(Work)

FairSpec == Spec /\ Fairness
-----------------------------------------------------------------------------
TypeOK ==
  /\ current \in Sessions \cup {None}
  /\ opened \in 0..MaxSessions
  /\ closed \in [Sessions -> BOOLEAN]
  /\ ctxDone \in [Sessions -> BOOLEAN]
  /\ attach \in [Sessions -> {"none", "running", "killed", "ended", "closing", "done"}]
  /\ said \in [Sessions -> BOOLEAN]
  /\ marked \in [Sessions -> BOOLEAN]
  /\ pc \in [Handlers -> {"idle", "reply", "reading", "streaming", "remove", "close", "conn", "gone"}]
  /\ works \in [Streams -> Sessions \cup {None}]
  /\ \A g \in Streams : pc[g] # "idle" => works[g] # None  \* never a nil session
  /\ writer \in [Sessions -> {"none", "start", "loop", "gone"}]
  /\ lossy \subseteq Sessions
  /\ conn \in [Sessions -> {"none", "open", "stalled", "closed"}]

\* A websocket user whose session is live is the one that HTTP input and streams
\* reach: the end of an older connection never takes the newer session out of
\* the map, and no session that was replaced stays live.
LiveIsPublished ==
  \A s \in Sessions : (~closed[s] /\ pc[s] = "reading") => current = s

\* A closed session leaves nothing running for ever: its attach process is killed,
\* its streams return, and a handler that starts to end gets as far as the close of
\* its websocket.  That close, and the writer, end too unless the client of the
\* websocket has stopped reading and keeps its connection.
CleanedUp(s) ==
  /\ closed[s] => /\ attach[s] = "done"
                  /\ \A g \in Streams : works[g] = s => pc[g] = "gone"
  /\ pc[s] \notin {"remove", "close"}
  /\ \/ conn[s] = "stalled"
     \/ pc[s] # "conn" /\ (closed[s] => writer[s] \in {"none", "gone"})

ClosedIsCleanedUp == []<>(\A s \in Sessions : CleanedUp(s))

\* When a live console ends by itself, the client of its websocket is told and its
\* socket is closed, even when it subscribed after the end, unless its channel
\* was full, which drops the marker, or it has stopped reading.
EndReachesClient ==
  \A s \in Sessions : (conn[s] # "none" /\ said[s]) ~> (conn[s] # "open" \/ s \in lossy)

\* What the documentation says of POST .../terminal, which opens the session that
\* the input and stream calls after it use: its console is not killed before the
\* session is closed.
OpenedSessionLives ==
  \A s \in Sessions : attach[s] = "killed" => closed[s]
=============================================================================
