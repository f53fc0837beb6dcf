--------------------------- MODULE TerminalProofs ---------------------------
(***************************************************************************)
(* The console sessions of Terminal, for any number of sessions opened and *)
(* any streams.  That a live session is the one in the map rests on the    *)
(* order of the deferred calls: a websocket handler removes its session    *)
(* and then closes it, a stream closes it and then removes it.             *)
(***************************************************************************)
EXTENDS Terminal, TLAPS

Labels == {"idle", "reply", "reading", "streaming", "remove", "close", "conn", "gone"}

\* A handler that has not begun to leave has its session in the map while it is
\* live; a stream that is about to remove a session has closed it.
Published ==
  /\ \A s \in Sessions :
       (~closed[s] /\ pc[s] \in {"reply", "reading", "remove"}) => current = s
  /\ \A g \in Streams : pc[g] = "remove" => closed[works[g]]

PublishInv == TypeOK /\ Published

\* The operators on handlers and the constants.
LEMMA Constants ==
  /\ Sessions \subseteq Nat /\ None \notin Sessions
  /\ Sessions \cap Streams = {} /\ Handlers = Sessions \cup Streams
BY SessionsAssumption DEF Sessions, None, Handlers

LEMMA Start == Init => PublishInv
<1> SUFFICES ASSUME Init PROVE PublishInv
  OBVIOUS
<1>1. TypeOK
  BY SessionsAssumption DEF Init, TypeOK, None, Handlers
<1> QED
  BY <1>1 DEF Init, PublishInv, Published, Handlers

\* close: sessions only ever become closed.
LEMMA Closing ==
  ASSUME TypeOK, NEW S, closeAll(S)
  PROVE  /\ closed' \in [Sessions -> BOOLEAN] /\ ctxDone' \in [Sessions -> BOOLEAN]
         /\ \A s \in Sessions : closed'[s] = (closed[s] \/ s \in S)
BY DEF closeAll, TypeOK

\* A handler goes to a label, and nobody else moves.
LEMMA Moves ==
  ASSUME TypeOK, NEW p \in Handlers, NEW label \in Labels, goto(p, label)
  PROVE  /\ pc' \in [Handlers -> Labels]
         /\ pc'[p] = label /\ \A q \in Handlers : q # p => pc'[q] = pc[q]
BY DEF TypeOK, goto, Labels

\* What a step does to the properties when it closes nothing that it should not.
LEMMA StillPublished ==
  ASSUME Published, current' = current, works' = works,
         \A s \in Sessions : closed[s] => closed'[s],
         \A s \in Sessions : pc'[s] \in {"reply", "reading", "remove"} =>
           pc[s] \in {"reply", "reading", "remove"} \/ closed'[s],
         \A g \in Streams : pc'[g] = "remove" => pc[g] = "remove" \/ closed'[works[g]],
         \A g \in Streams : pc[g] = "remove" => works[g] \in Sessions
  PROVE  Published'
BY DEF Published

-----------------------------------------------------------------------------
\* terminalManager.open: the session replaced is closed, so the new one is the
\* only one live in the map.
LEMMA OpenStep ==
  ASSUME PublishInv, NEW s \in Sessions, OpenWS(s) \/ OpenPost(s)
  PROVE  PublishInv'
<1> TypeOK /\ Published
  BY DEF PublishInv
<1>1. /\ open(s) /\ (goto(s, "reading") \/ goto(s, "reply"))
      /\ UNCHANGED <<said, marked, lossy, works>>
  BY DEF OpenWS, OpenPost, markerVars
<1>2. /\ closeAll({current} \ {None}) /\ current' = s /\ opened' = s /\ s = opened + 1
      /\ attach' = [attach EXCEPT ![s] = "running"]
  BY <1>1 DEF open
<1>3. /\ closed' \in [Sessions -> BOOLEAN] /\ ctxDone' \in [Sessions -> BOOLEAN]
      /\ \A t \in Sessions : closed'[t] = (closed[t] \/ t \in {current} \ {None})
  BY <1>2, Closing
<1>4. /\ pc' \in [Handlers -> Labels] /\ pc'[s] \in {"reading", "reply"}
      /\ \A q \in Handlers : q # s => pc'[q] = pc[q]
  BY <1>1, Moves, Constants DEF Labels
<1>5. /\ writer' \in [Sessions -> {"none", "start", "loop", "gone"}]
      /\ conn' \in [Sessions -> {"none", "open", "stalled", "closed"}]
  BY DEF OpenWS, OpenPost, TypeOK
<1>6. TypeOK'
  <2>1. \A g \in Streams : pc'[g] # "idle" => works'[g] # None
    BY <1>1, <1>4, Constants DEF TypeOK
  <2>2. current' \in Sessions /\ opened' \in 0..MaxSessions
    BY <1>2, SessionsAssumption DEF Sessions
  <2>3. attach' \in [Sessions -> {"none", "running", "killed", "ended", "closing", "done"}]
    BY <1>2 DEF TypeOK
  <2> QED
    BY <1>1, <1>3, <1>4, <1>5, <2>1, <2>2, <2>3 DEF TypeOK, Labels
<1>7. ASSUME NEW t \in Sessions, ~closed'[t], pc'[t] \in {"reply", "reading", "remove"}
      PROVE  current' = t
  <2>1. CASE t # s
    <3>1. ~closed[t] /\ pc[t] \in {"reply", "reading", "remove"} /\ t \notin {current} \ {None}
      BY <1>3, <1>4, <1>7, <2>1, Constants
    <3>2. current = t
      BY <3>1 DEF Published
    <3> QED
      BY <3>1, <3>2, Constants
  <2> QED
    BY <1>2, <2>1
<1>8. ASSUME NEW g \in Streams, pc'[g] = "remove" PROVE closed'[works'[g]]
  <2>1. pc[g] = "remove" /\ works'[g] = works[g] /\ works[g] \in Sessions
    BY <1>1, <1>4, <1>8, Constants DEF TypeOK
  <2> QED
    BY <1>3, <2>1 DEF Published
<1> QED
  BY <1>6, <1>7, <1>8 DEF PublishInv, Published

\* The attach goroutine, the writer and the client of a session leave the map and
\* the handlers alone, and close their own session at most.
LEMMA BesideStep ==
  ASSUME PublishInv, NEW s \in Sessions,
         AttachExit(s) \/ Attach(s) \/ Writer(s) \/ Client(s)
  PROVE  PublishInv'
<1> TypeOK /\ Published
  BY DEF PublishInv
<1>1. pc' = pc /\ works' = works /\ current' = current /\ opened' = opened
  BY DEF AttachExit, Attach, AttachKilled, AttachEnd, AttachClose, Writer, WriterSubscribes,
         WriterStops, WriterDrained, Client, ClientStalls, ClientReads, ClientLeaves, managerVars
<1>2. /\ closed' \in [Sessions -> BOOLEAN] /\ ctxDone' \in [Sessions -> BOOLEAN]
      /\ \A t \in Sessions : closed[t] => closed'[t]
  <2>1. CASE closed' = closed /\ ctxDone' = ctxDone
    BY <2>1 DEF TypeOK
  <2>2. CASE closeAll({s})
    BY <2>2, Closing
  <2> QED
    BY <2>1, <2>2 DEF AttachExit, Attach, AttachKilled, AttachEnd, AttachClose, Writer,
         WriterSubscribes, WriterStops, WriterDrained, Client, ClientStalls, ClientReads, ClientLeaves, closeVars
<1>3. /\ attach' \in [Sessions -> {"none", "running", "killed", "ended", "closing", "done"}]
      /\ writer' \in [Sessions -> {"none", "start", "loop", "gone"}]
      /\ conn' \in [Sessions -> {"none", "open", "stalled", "closed"}]
      /\ lossy' \subseteq Sessions
  BY DEF AttachExit, Attach, AttachKilled, AttachEnd, AttachClose, Writer, WriterSubscribes,
         WriterStops, WriterDrained, Client, ClientStalls, ClientReads, ClientLeaves, becomes, markerVars, TypeOK
<1>4. said' \in [Sessions -> BOOLEAN] /\ marked' \in [Sessions -> BOOLEAN]
  <2>1. \A f \in [Sessions -> BOOLEAN], b \in BOOLEAN : [f EXCEPT ![s] = b] \in [Sessions -> BOOLEAN]
    OBVIOUS
  <2>2. (~closed[s]) \in BOOLEAN /\ said[s] \in BOOLEAN /\ TRUE \in BOOLEAN /\ FALSE \in BOOLEAN
    BY DEF TypeOK
  <2>3. said \in [Sessions -> BOOLEAN] /\ marked \in [Sessions -> BOOLEAN]
    BY DEF TypeOK
  <2>4. \/ said' = said
        \/ said' = [said EXCEPT ![s] = ~closed[s]]
    BY DEF AttachExit, Attach, AttachKilled, AttachEnd, AttachClose, Writer, WriterSubscribes,
         WriterStops, WriterDrained, Client, ClientStalls, ClientReads, ClientLeaves, markerVars
  <2>5. \/ marked' = marked
        \/ \E b \in BOOLEAN : marked' = [marked EXCEPT ![s] = b]
    BY <2>2 DEF AttachExit, Attach, AttachKilled, AttachEnd, AttachClose, Writer, WriterSubscribes,
         WriterStops, WriterDrained, Client, ClientStalls, ClientReads, ClientLeaves, markerVars
  <2> QED
    BY <2>1, <2>2, <2>3, <2>4, <2>5
<1>5. TypeOK'
  BY <1>1, <1>2, <1>3, <1>4 DEF TypeOK
<1>6. Published'
  <2>1. \A g \in Streams : pc[g] = "remove" => works[g] \in Sessions
    BY DEF TypeOK
  <2> QED
    BY <1>1, <1>2, <2>1, StillPublished
<1> QED
  BY <1>5, <1>6 DEF PublishInv

\* The steps of a handler that neither open a session nor take one out of the map.
LEMMA HandlerStep ==
  ASSUME PublishInv, NEW p \in Handlers, NEW label \in Labels, goto(p, label),
         current' = current, opened' = opened,
         UNCHANGED <<attach, markerVars, writer>>,
         conn' \in [Sessions -> {"none", "open", "stalled", "closed"}],
         closed' \in [Sessions -> BOOLEAN], ctxDone' \in [Sessions -> BOOLEAN],
         \A t \in Sessions : closed[t] => closed'[t],
         works' = works \/ (p \in Streams /\ works' = [works EXCEPT ![p] = current] /\ current # None),
         p \in Streams => works'[p] # None /\ label # "reply" /\ pc[p] # "remove",
         p \in Streams /\ label = "remove" => closed'[works'[p]],
         p \in Sessions /\ label \in {"reply", "reading", "remove"} =>
           pc[p] \in {"reply", "reading", "remove"} \/ closed'[p]
  PROVE  PublishInv'
<1> TypeOK /\ Published
  BY DEF PublishInv
<1>1. /\ pc' \in [Handlers -> Labels] /\ pc'[p] = label
      /\ \A q \in Handlers : q # p => pc'[q] = pc[q]
  BY Moves
<1>2. works' \in [Streams -> Sessions \cup {None}] /\ \A g \in Streams : g # p => works'[g] = works[g]
  BY DEF TypeOK
<1>3. TypeOK'
  <2>1. \A g \in Streams : pc'[g] # "idle" => works'[g] # None
    BY <1>1, <1>2, Constants DEF TypeOK
  <2> QED
    BY <1>1, <1>2, <2>1 DEF TypeOK, Labels, markerVars
<1>4. ASSUME NEW t \in Sessions, ~closed'[t], pc'[t] \in {"reply", "reading", "remove"}
      PROVE  current' = t
  <2>1. ~closed[t] /\ pc[t] \in {"reply", "reading", "remove"}
    BY <1>1, <1>4, Constants
  <2> QED
    BY <2>1 DEF Published
<1>5. ASSUME NEW g \in Streams, pc'[g] = "remove" PROVE closed'[works'[g]]
  <2>1. CASE g # p
    <3>1. pc[g] = "remove" /\ works'[g] = works[g]
      BY <1>1, <1>2, <1>5, <2>1, Constants
    <3>2. works[g] \in Sessions
      BY <3>1 DEF TypeOK
    <3> QED
      BY <3>1, <3>2 DEF Published
  <2> QED
    BY <1>1, <1>5, <2>1
<1> QED
  BY <1>3, <1>4, <1>5 DEF PublishInv, Published

\* The end of a handler: its session is removed only when it is the handler's own
\* or closed already.
LEMMA RemoveStep ==
  ASSUME PublishInv, NEW p \in Handlers, LeaveRemove(p)
  PROVE  PublishInv'
<1> TypeOK /\ Published
  BY DEF PublishInv
<1>1. /\ pc[p] = "remove" /\ removeIf(sessionOf(p))
      /\ goto(p, IF p \in Sessions THEN "close" ELSE "gone")
      /\ UNCHANGED <<opened, closeVars, attach, markerVars, works, writer, conn>>
  BY DEF LeaveRemove
<1>2. current' = current \/ (current = sessionOf(p) /\ current' = None)
  BY <1>1 DEF removeIf
<1>3. /\ pc' \in [Handlers -> Labels] /\ pc'[p] \in {"close", "gone"}
      /\ \A q \in Handlers : q # p => pc'[q] = pc[q]
  BY <1>1, Moves DEF Labels
<1>4. TypeOK'
  <2>1. \A g \in Streams : pc'[g] # "idle" => works'[g] # None
    BY <1>1, <1>3, Constants DEF TypeOK
  <2> QED
    BY <1>1, <1>2, <1>3, <2>1 DEF TypeOK, Labels, closeVars, markerVars
<1>5. ASSUME NEW t \in Sessions, ~closed'[t], pc'[t] \in {"reply", "reading", "remove"}
      PROVE  current' = t
  <2>1. t # p /\ ~closed[t] /\ pc[t] \in {"reply", "reading", "remove"}
    BY <1>1, <1>3, <1>5, Constants DEF closeVars
  <2>2. current = t
    BY <2>1 DEF Published
  <2>3. sessionOf(p) # t
    <3>1. CASE p \in Sessions
      BY <2>1, <3>1 DEF sessionOf
    <3>2. CASE p \in Streams
      <4>1. sessionOf(p) = works[p] /\ closed[works[p]]
        BY <1>1, <3>2, Constants DEF sessionOf, Published
      <4> QED
        BY <2>1, <4>1
    <3> QED
      BY <3>1, <3>2, Constants
  <2> QED
    BY <1>2, <2>2, <2>3
<1>6. ASSUME NEW g \in Streams, pc'[g] = "remove" PROVE closed'[works'[g]]
  BY <1>1, <1>3, <1>6, Constants DEF Published, closeVars
<1> QED
  BY <1>4, <1>5, <1>6 DEF PublishInv, Published

\* Every step preserves the invariant.
LEMMA Inductive == PublishInv /\ [Next]_vars => PublishInv'
<1> SUFFICES ASSUME PublishInv, [Next]_vars PROVE PublishInv'
  OBVIOUS
<1> TypeOK /\ Published
  BY DEF PublishInv
<1>1. CASE UNCHANGED vars
  BY <1>1 DEF vars, managerVars, closeVars, markerVars, PublishInv, TypeOK, Published
<1>2. ASSUME NEW s \in Sessions, PostReply(s) PROVE PublishInv'
  <2>1. ctxDone' \in [Sessions -> BOOLEAN]
    BY <1>2 DEF PostReply, TypeOK
  <2>2. /\ goto(s, "gone") /\ closed' = closed /\ current' = current /\ opened' = opened
        /\ works' = works /\ UNCHANGED <<attach, markerVars, writer>> /\ conn' = conn
    BY <1>2 DEF PostReply, managerVars
  <2> QED
    BY <2>1, <2>2, HandlerStep, Constants DEF TypeOK, Labels
<1>3. ASSUME NEW s \in Sessions, ReaderLeaves(s) PROVE PublishInv'
  <2>1. /\ pc[s] = "reading" /\ goto(s, "remove") /\ closed' = closed /\ ctxDone' = ctxDone
        /\ current' = current /\ opened' = opened
        /\ works' = works /\ UNCHANGED <<attach, markerVars, writer>> /\ conn' = conn
    BY <1>3 DEF ReaderLeaves, managerVars, closeVars
  <2> QED
    BY <2>1, HandlerStep, Constants DEF TypeOK, Labels
<1>4. ASSUME NEW s \in Sessions, LeaveConn(s) PROVE PublishInv'
  <2>1. /\ goto(s, "gone") /\ closed' = closed /\ ctxDone' = ctxDone
        /\ current' = current /\ opened' = opened
        /\ works' = works /\ UNCHANGED <<attach, markerVars, writer>>
        /\ conn' \in [Sessions -> {"none", "open", "stalled", "closed"}]
    BY <1>4 DEF LeaveConn, managerVars, closeVars, TypeOK
  <2> QED
    BY <2>1, HandlerStep, Constants DEF TypeOK, Labels
<1>5. ASSUME NEW g \in Streams, StreamGet(g) PROVE PublishInv'
  <2>1. /\ pc[g] = "idle" /\ goto(g, "streaming") /\ closed' = closed /\ ctxDone' = ctxDone
        /\ current' = current /\ opened' = opened /\ current # None
        /\ works' = [works EXCEPT ![g] = current]
        /\ UNCHANGED <<attach, markerVars, writer>> /\ conn' = conn
    BY <1>5 DEF StreamGet, managerVars, closeVars
  <2>2. works'[g] = current
    BY <2>1 DEF TypeOK
  <2> QED
    BY <2>1, <2>2, HandlerStep, Constants DEF TypeOK, Labels
<1>6. ASSUME NEW g \in Streams, StreamLeaves(g) PROVE PublishInv'
  <2>1. /\ pc[g] = "streaming" /\ goto(g, "close") /\ closed' = closed /\ ctxDone' = ctxDone
        /\ current' = current /\ opened' = opened
        /\ works' = works /\ UNCHANGED <<attach, markerVars, writer>> /\ conn' = conn
    BY <1>6 DEF StreamLeaves, managerVars, closeVars
  <2> QED
    BY <2>1, HandlerStep, Constants DEF TypeOK, Labels
<1>7. ASSUME NEW p \in Handlers, LeaveClose(p) PROVE PublishInv'
  <2> DEFINE label == IF p \in Sessions THEN "conn" ELSE "remove"
  <2>1. /\ pc[p] = "close" /\ goto(p, label) /\ closeAll({sessionOf(p)})
        /\ current' = current /\ opened' = opened
        /\ works' = works /\ UNCHANGED <<attach, markerVars, writer>> /\ conn' = conn
    BY <1>7 DEF LeaveClose, managerVars
  <2>2. /\ closed' \in [Sessions -> BOOLEAN] /\ ctxDone' \in [Sessions -> BOOLEAN]
        /\ \A t \in Sessions : closed'[t] = (closed[t] \/ t \in {sessionOf(p)})
    BY <2>1, Closing
  <2>3. p \in Streams => sessionOf(p) = works[p] /\ works[p] \in Sessions
    BY <2>1, Constants DEF sessionOf, TypeOK
  <2>4. p \in Streams => closed'[works'[p]] /\ works'[p] # None
    BY <2>1, <2>2, <2>3, Constants
  <2> QED
    BY <2>1, <2>2, <2>4, HandlerStep, Constants DEF TypeOK, Labels
<1> QED
  BY <1>1, <1>2, <1>3, <1>4, <1>5, <1>6, <1>7, OpenStep, BesideStep, RemoveStep, Constants
  DEF Next, Leave

\* The inductive invariant, for any number of sessions and streams.
THEOREM Invariance == Spec => []PublishInv
BY Start, Inductive, PTL DEF Spec

\* The variables keep their types, and no stream works on a nil session.
THEOREM TypeCorrect == Spec => []TypeOK
<1>1. PublishInv => TypeOK
  BY DEF PublishInv
<1> QED
  BY <1>1, Invariance, PTL

\* terminalManager: the session of a websocket is, while it is live, the one HTTP
\* input and streams reach, however many replace each other and however late the
\* handlers of the older ones leave.
THEOREM LiveSessionIsPublished == Spec => []LiveIsPublished
<1>1. PublishInv => LiveIsPublished
  BY DEF PublishInv, Published, LiveIsPublished
<1> QED
  BY <1>1, Invariance, PTL
=============================================================================
