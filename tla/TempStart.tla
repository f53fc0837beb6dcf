----------------------------- MODULE TempStart -----------------------------
(***************************************************************************)
(* Who starts and stops containers.  An SFTP session whose data cannot be  *)
(* mounted starts the container for its own duration (handleSSHSession,    *)
(* sftpRootViaStart in internal/server/sftp.go); the pass of autostart.go  *)
(* starts what the panel lists after a boot; the panel starts and stops    *)
(* containers over the API.  Each of them acts on what it saw earlier, and *)
(* none knows of the others.                                               *)
(*                                                                         *)
(* The module refines MountLease: a session stays in "fallback" there      *)
(* while it waits for the container, and every step below is a step of     *)
(* MountLease or leaves its variables alone.                               *)
(***************************************************************************)
EXTENDS MountLease

CONSTANT Backups  \* the sessions that are backup jobs: they never start anything

ASSUME BackupsAssumption == Backups \subseteq Sessions

VARIABLES
  step,      \* where a session is in sftpRootViaStart and after it
  started,   \* sessions whose start was accepted: the result of tryStartContainer
  starting,  \* containers cardinal accepted a start of, not up yet
  found,     \* containers the autostart pass found stopped and goes on to start
  asked,     \* observer: containers the panel or the autostart pass want running
  stray      \* observer: containers left behind by a call that failed or a kill

tempVars == <<step, started, starting, found, asked, stray>>
allVars  == <<vars, tempVars>>

TempInit ==
  /\ Init
  /\ step = [p \in Sessions |-> "none"]
  /\ started = {}
  /\ starting = {}
  /\ found = {}
  /\ asked = {}
  /\ stray = {}

alive == running \cup starting

setStep(p, s) == step' = [step EXCEPT ![p] = s]

\* containerDataRoot: a merged directory with content.
hasRoot(c) == Overlay \in mounted[c] \/ leftover[c]

-----------------------------------------------------------------------------
(* cardinal: a start is accepted at once, the init and the overlay come later *)

accept(c) == starting' = IF c \in running THEN starting ELSE starting \cup {c}

\* A stop that cardinal carries out, of a container in any state.
stopped(c) ==
  /\ starting' = starting \ {c}
  /\ asked' = asked \ {c}
  /\ stray' = stray \ {c}
  /\ IF c \in running THEN CardinalStop(c) ELSE UNCHANGED vars

ComesUp(c) ==
  /\ c \in starting
  /\ starting' = starting \ {c}
  /\ CardinalStart(c)
  /\ UNCHANGED <<step, started, found, asked, stray>>

\* The rootfs is missing, the init exits.
FailsToComeUp(c) ==
  /\ c \in starting
  /\ stopped(c)
  /\ UNCHANGED <<step, started, found>>

-----------------------------------------------------------------------------
(* The panel, and the autostart pass *)

PanelStart(c) ==
  /\ accept(c)
  /\ asked' = asked \cup {c}
  /\ UNCHANGED <<vars, step, started, found, stray>>

\* The panel stops or kills it, or it exits.
PanelStop(c) ==
  /\ c \in alive
  /\ stopped(c)
  /\ UNCHANGED <<step, started, found>>

\* startAutostartRef: Inspect, and nothing more for a container that runs.  The
\* pass waits for the panel first, so it comes to a container at any time.
AutostartInspect(c) ==
  /\ c \notin running \cup found
  /\ found' = found \cup {c}
  /\ UNCHANGED <<vars, step, started, starting, asked, stray>>

\* ... and the start of what was found stopped; it may fail.
AutostartStart(c) ==
  /\ c \in found
  /\ found' = found \ {c}
  /\ \/ accept(c) /\ asked' = asked \cup {c}
     \/ UNCHANGED <<starting, asked>>
  /\ UNCHANGED <<vars, step, started, stray>>

-----------------------------------------------------------------------------
(* handleSSHSession *)

\* ensureDataRoot finds a directory after all; a backup without one fails.
FallbackRoot(p) ==
  /\ step[p] = "none"
  /\ hasRoot(cont(p)) \/ p \in Backups
  /\ Fallback(p)
  /\ UNCHANGED tempVars

\* tryStartContainer: the start is accepted, also for a container that runs; it
\* fails; or its time-out fires after cardinal has accepted it.
TryStart(p) ==
  LET c == cont(p) IN
  /\ pc[p] = "fallback"
  /\ step[p] = "none"
  /\ p \notin Backups
  /\ ~hasRoot(c)
  /\ setStep(p, "poll")
  /\ \/ started' = started \cup {p} /\ accept(c) /\ UNCHANGED stray
     \/ UNCHANGED <<started, starting, stray>>
     \/ accept(c) /\ stray' = stray \cup ({c} \ alive) /\ UNCHANGED started
  /\ UNCHANGED <<vars, found, asked>>

\* One of the polls finds the data.
PollFinds(p) ==
  /\ step[p] = "poll"
  /\ hasRoot(cont(p))
  /\ setStep(p, "serving")
  /\ Fallback(p)
  /\ UNCHANGED <<started, starting, found, asked, stray>>

\* The way on for a session that is through with the container.
leave(p) == setStep(p, IF p \in started THEN "stop" ELSE "none")

\* Mutant: the error return forgets the container it started.
PollGivesUp_Leaves(p) ==
  /\ step[p] = "poll"
  /\ ~hasRoot(cont(p))
  /\ setStep(p, "none")
  /\ started' = started \ {p}
  /\ Fallback(p)
  /\ UNCHANGED <<starting, found, asked, stray>>

\* The last poll finds nothing: the session ends with an error.
PollGivesUp(p) ==
  /\ step[p] = "poll"
  /\ ~hasRoot(cont(p))
  /\ leave(p)
  /\ Fallback(p)
  /\ UNCHANGED <<started, starting, found, asked, stray>>

EndSession(p) ==
  /\ End(p)
  /\ IF step[p] = "serving" THEN leave(p) ELSE UNCHANGED step
  /\ UNCHANGED <<started, starting, found, asked, stray>>

\* tryStopContainer, the release of such a session; its failure is only logged.
TryStop(p) ==
  LET c == cont(p) IN
  /\ step[p] = "stop"
  /\ setStep(p, "none")
  /\ started' = started \ {p}
  /\ \/ stopped(c)
     \/ stray' = stray \cup ({c} \cap alive) /\ UNCHANGED <<vars, starting, asked>>
  /\ UNCHANGED found

\* The daemon or the host restarts; what was started for a session stays up.
TempRestart ==
  /\ Restart
  /\ starting' \in {starting, {}}
  /\ step' = [p \in Sessions |-> "none"]
  /\ started' = {}
  /\ found' = {}
  /\ asked' = asked \cap (running' \cup starting')
  /\ stray' = (running' \cup starting') \ asked

TempSession(p) ==
  \/ FallbackRoot(p) \/ TryStart(p) \/ PollFinds(p) \/ PollGivesUp(p) \/ TryStop(p)

\* MountLease's own steps that start and stop nothing.
LeaseStep ==
  /\ \/ \E p \in Sessions : (step[p] = "none" /\ Acquire(p)) \/ Release(p)
     \/ \E p \in Requests, r \in Refs : BeginRequest(p, r)
     \/ \E p \in Procs : MountWork(p)
     \/ \E p \in Requests : End(p)
  /\ UNCHANGED tempVars

TempNext ==
  \/ LeaseStep
  \/ \E p \in Sessions : TempSession(p) \/ EndSession(p)
  \/ \E c \in Containers :
       \/ ComesUp(c) \/ FailsToComeUp(c) \/ PanelStart(c) \/ PanelStop(c)
       \/ AutostartInspect(c) \/ AutostartStart(c)
  \/ TempRestart

TempSpec == TempInit /\ [][TempNext]_allVars

\* The fairness of MountLease: its step Fallback is every way out of the wait.
FairTempSpec == TempSpec /\ Fairness /\ \A p \in Sessions : WF_allVars(TempSession(p))
-----------------------------------------------------------------------------
TempTypeOK ==
  /\ step \in [Sessions -> {"none", "poll", "serving", "stop"}]
  /\ started \subseteq Sessions
  /\ starting \subseteq Containers
  /\ found \subseteq Containers
  /\ asked \subseteq Containers
  /\ stray \subseteq Containers

\* "A container started only for SFTP is never left running": a container that
\* nobody else wants running has a session that is going to stop it, however two
\* sessions, the panel and the autostart pass start and stop it in between.  A
\* stop that fails, a start that takes effect after its time-out and a killed
\* daemon are the exceptions the code leaves (stray).
NotLeftRunning ==
  \A c \in alive \ (asked \cup stray) :
    \E p \in started : cont(p) = c /\ step[p] \in {"poll", "serving", "stop"}
=============================================================================
