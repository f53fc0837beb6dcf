--------------------------- MODULE BrowserConsole ---------------------------
(***************************************************************************)
(* The console websocket of the panel (panelbrowser.go, handleLegacyWS):   *)
(* the first frame carries a token, which says what the connection may do  *)
(* and for how long; a goroutine closes the connection when the token has  *)
(* expired.  It is the writer of WsConn, and the handler the reader.  The  *)
(* output pump only writes, and the session is modelled in Terminal.       *)
(***************************************************************************)
EXTENDS WsConn, PanelToken

CONSTANTS
  Server,   \* the server in the URL of the websocket
  Warning,  \* how long before the end the warning is due: 180 s
  EndTime   \* bound: the clock

ASSUME ConsoleAssumption == Warning \in Nat \ {0} /\ EndTime \in Nat

\* What each frame from the browser asks the permission for.
needs == [command |-> "control.console", start |-> "control.start", stop |-> "control.stop",
          restart |-> "control.restart", kill |-> "control.stop"]

NoToken == [key |-> "", permissions |-> {}]

VARIABLES
  clock,
  handler,  \* auth, verified, armed, loop, leaving, returned
  shown,    \* the token of the first frame
  perms,    \* claims.Permissions, as the handler keeps them
  timer,    \* the goroutine: none, warning, ending, closing, gone; due is its time.After
  session,  \* the console session of this connection
  driven    \* ghost: the frames that acted on the server

consoleVars == <<clock, handler, shown, perms, timer, session, driven>>

ConsoleInit ==
  /\ Init
  /\ clock = 0
  /\ handler = [c \in Conns |-> "auth"]
  /\ shown = [c \in Conns |-> NoToken]
  /\ perms = [c \in Conns |-> {}]
  /\ timer = [c \in Conns |-> [at |-> "none", due |-> 0]]
  /\ session = [c \in Conns |-> "none"]
  /\ driven = [c \in Conns |-> {}]

\* The handler reads a frame: its connection is up, and so is its socket.
reads(c, label) == handler[c] = label /\ at[<<c, "reader">>] = "out" /\ up(c)

goOn(c, label) == handler' = [handler EXCEPT ![c] = label]

\* Mutant: the permissions of a readonly key are kept.
kept_All(token) == token.permissions

\* A token that no admin key signed can only watch.
kept(token) ==
  IF signerRole(token) = "admin" THEN token.permissions
  ELSE token.permissions \cap {"websocket.connect"}

\* The first frame: anything but the right token is answered with an error (wsSend,
\* which a browser that does not read holds up) and ends the connection.
FirstFrame(c, token) ==
  /\ reads(c, "auth")
  /\ shown' = [shown EXCEPT ![c] = token]
  /\ IF verified(token, clock) /\ hasScope(token, "websocket") /\ token.server = Server
     THEN goOn(c, "verified") /\ perms' = [perms EXCEPT ![c] = kept(token)]
     ELSE writes(c) /\ goOn(c, "leaving") /\ UNCHANGED perms
  /\ UNCHANGED <<vars, clock, timer, session, driven>>

FirstFrameOther(c) ==
  /\ reads(c, "auth") /\ writes(c)
  /\ goOn(c, "leaving")
  /\ UNCHANGED <<vars, clock, shown, perms, timer, session, driven>>

\* "auth success" is sent, and the timer is started for a token that has time left
\* when the clock is read again.
ArmTimer(c) ==
  /\ handler[c] = "verified" /\ writes(c)
  /\ LET left == secondsLeft(shown[c], clock)
     IN timer' = [timer EXCEPT ![c] =
          IF left <= 0 THEN @
          ELSE IF left > Warning THEN [at |-> "warning", due |-> clock + left - Warning]
          ELSE [at |-> "ending", due |-> clock + left]]
  /\ goOn(c, "armed")
  /\ UNCHANGED <<vars, clock, shown, perms, session, driven>>

\* terminals.open: its failure ends the connection.
OpenSession(c, opens) ==
  /\ handler[c] = "armed"
  /\ IF opens THEN goOn(c, "loop") /\ session' = [session EXCEPT ![c] = "open"]
     ELSE writes(c) /\ goOn(c, "leaving") /\ UNCHANGED session
  /\ UNCHANGED <<vars, clock, shown, perms, timer, driven>>

allow(c, permission) == perms[c] \cap {permission, "admin"} # {}

\* A frame that drives the server.  The others ("auth" among them, which is
\* answered without a look at its token) change nothing.
Drive(c, frame) ==
  /\ reads(c, "loop")
  /\ allow(c, needs[frame])
  /\ driven' = [driven EXCEPT ![c] = @ \cup {frame}]
  /\ UNCHANGED <<vars, clock, handler, shown, perms, timer, session>>

\* A read fails, or the close frame of the peer comes: the handler returns.
ReadEnds(c) ==
  /\ handler[c] \in {"auth", "loop"}
  /\ at[<<c, "reader">>] = "eof"
  /\ goOn(c, "leaving")
  /\ UNCHANGED <<vars, clock, shown, perms, timer, session, driven>>

\* The deferred calls: removeIf and close of the session first ...
LeaveSession(c) ==
  /\ handler[c] = "leaving" /\ session[c] = "open"
  /\ session' = [session EXCEPT ![c] = "closed"]
  /\ UNCHANGED <<vars, clock, handler, shown, perms, timer, driven>>

\* ... the connection last.  The end of the handler ends the context of the
\* request, and with it the goroutine that waits for the token.
Returned(c) ==
  /\ handler[c] = "leaving" /\ at[<<c, "reader">>] = "closed"
  /\ goOn(c, "returned")
  /\ timer' = [timer EXCEPT ![c].at = IF @ = "closing" THEN @ ELSE "gone"]
  /\ UNCHANGED <<vars, clock, shown, perms, session, driven>>

\* Mutant: the goroutine stops after the warning.
TimerFires_WarnsOnly(c) ==
  /\ timer[c].at \in {"warning", "ending"} /\ clock >= timer[c].due /\ writes(c)
  /\ timer' = [timer EXCEPT ![c] =
       IF @.at = "warning" THEN [at |-> "gone", due |-> @.due] ELSE [@ EXCEPT !.at = "closing"]]
  /\ UNCHANGED <<vars, clock, handler, shown, perms, session, driven>>

\* A time.After fires and its message ("token expiring", "token expired") is sent
\* before anything else: the goroutine waits as long as the browser does not read.
TimerFires(c) ==
  /\ timer[c].at \in {"warning", "ending"} /\ clock >= timer[c].due /\ writes(c)
  /\ timer' = [timer EXCEPT ![c] =
       IF @.at = "warning" THEN [at |-> "ending", due |-> clock + Warning]
       ELSE [@ EXCEPT !.at = "closing"]]
  /\ UNCHANGED <<vars, clock, handler, shown, perms, session, driven>>

waiting(c) == timer[c].at \in {"warning", "ending"} /\ clock < timer[c].due

ClockTick ==
  /\ clock < EndTime \/ \E c \in Conns : waiting(c)
  /\ clock' = clock + 1
  /\ UNCHANGED <<vars, handler, shown, perms, timer, session, driven>>

\* The steps of the connection itself: both goroutines call Close when they are
\* at the end, and ReadText runs while the handler reads.
Socket(c) ==
  /\ \/ handler[c] \in {"auth", "loop"} /\ (ReceiveClose(c) \/ ReadFails(c))
     \/ Peer(c) \/ Inside(c)
     \/ handler[c] = "leaving" /\ session[c] # "open" /\ CloseBegin(c, "reader")
     \/ timer[c].at = "closing" /\ CloseBegin(c, "writer")
  /\ UNCHANGED consoleVars

HandlerStep(c) ==
  \/ ArmTimer(c) \/ \E opens \in BOOLEAN : OpenSession(c, opens)
  \/ ReadEnds(c) \/ LeaveSession(c) \/ Returned(c)

ConsoleNext ==
  \/ \E c \in Conns :
       \/ \E token \in PanelTokens : FirstFrame(c, token)
       \/ FirstFrameOther(c) \/ HandlerStep(c)
       \/ \E frame \in DOMAIN needs : Drive(c, frame)
       \/ TimerFires(c) \/ Socket(c)
  \/ ClockTick

ConsoleSpec ==
  /\ ConfigInit /\ ConsoleInit
  /\ [][\/ ConfigNext /\ UNCHANGED <<vars, consoleVars>>
        \/ phase = "serving" /\ ConsoleNext /\ UNCHANGED configVars]_<<configVars, vars, consoleVars>>

ExpirySteps(c) ==
  \/ TimerFires(c)
  \/ timer[c].at = "closing" /\ CloseBegin(c, "writer") /\ UNCHANGED consoleVars
  \/ Inside(c) /\ UNCHANGED consoleVars

\* The clock moves, a time.After that is due fires, and the goroutine that woke
\* up goes through Close, as does whoever holds closeOnce before it: each as far as
\* its writes end, which they do only while the browser reads.
ConsoleFairness ==
  /\ WF_<<vars, consoleVars>>(phase = "serving" /\ ClockTick /\ UNCHANGED configVars)
  /\ \A c \in Conns : WF_<<vars, consoleVars>>(ExpirySteps(c) /\ UNCHANGED configVars)
-----------------------------------------------------------------------------
ConsoleTypeOK ==
  /\ clock \in Nat
  /\ handler \in [Conns -> {"auth", "verified", "armed", "loop", "leaving", "returned"}]
  /\ session \in [Conns -> {"none", "open", "closed"}]
  /\ driven \in [Conns -> SUBSET DOMAIN needs]
  /\ \A c \in Conns :
       /\ perms[c] \subseteq shown[c].permissions
       /\ timer[c].at \in {"none", "warning", "ending", "closing", "gone"} /\ timer[c].due \in Nat
       /\ handler[c] \in {"loop"} => session[c] = "open"
       /\ handler[c] = "returned" => session[c] # "open"

\* "A token signed by a non-admin API key can only watch": whatever frames
\* follow the first one, the server is driven only by a connection whose token
\* an admin key signed for this server, with the permission itself or "admin".
DriveGranted ==
  \A c \in Conns : \A frame \in driven[c] :
    /\ signers(shown[c]) # {} /\ signerRole(shown[c]) = "admin"
    /\ shown[c].server = Server
    /\ shown[c].permissions \cap {needs[frame], "admin"} # {}

\* A connection whose expiry goroutine was started does not outlive its token
\* forever while the browser reads: the goroutine closes it, or it is gone before.
\* A browser that stops reading keeps it, since the goroutine writes before it
\* closes.
ExpiredIsClosed ==
  \A c \in Conns : timer[c].at # "none" ~> tcp[c] \in {"stalled", "reset", "closed"}
=============================================================================
