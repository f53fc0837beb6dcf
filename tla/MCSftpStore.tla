---------------------------- MODULE MCSftpStore ----------------------------
(* Two requests at a time, two usernames, two containers.                    *)
EXTENDS SftpStore, TLC

CONSTANTS h1, h2, u1, u2, c1, c2

MCHandlers == {h1, h2}
MCUsernames == {u1, u2}
MCContainers == {c1, c2}

\* No handler, username or container is special.
MCSymmetry ==
  Permutations(MCHandlers) \cup Permutations(MCUsernames) \cup Permutations(MCContainers)
=============================================================================
