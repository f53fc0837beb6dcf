---------------------------- MODULE SharedMount ----------------------------
(***************************************************************************)
(* What the mount leases promise for one container: the overlay may be     *)
(* mounted and unmounted on demand, but it is there for as long as anyone  *)
(* uses it, and it is taken down only when the last user has left.         *)
(***************************************************************************)
CONSTANT Users

VARIABLES up,     \* the overlay is mounted
          users   \* the users that were given the overlay and not yet left

vars == <<up, users>>

Init == up \in BOOLEAN /\ users = {}

Mount == ~up /\ up' = TRUE /\ UNCHANGED users

Enter(u) == up /\ u \notin users /\ users' = users \cup {u} /\ UNCHANGED up

Leave(u) == u \in users /\ users' = users \ {u} /\ UNCHANGED up

Unmount == up /\ users = {} /\ up' = FALSE /\ UNCHANGED users

\* The daemon or the host is restarted: nobody uses the overlay any more.
Restart == users' = {} /\ (UNCHANGED up \/ up' = FALSE)

Next ==
  \/ Mount
  \/ \E u \in Users : Enter(u) \/ Leave(u)
  \/ Unmount
  \/ Restart

Spec == Init /\ [][Next]_vars
=============================================================================
