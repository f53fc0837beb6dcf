----------------------------- MODULE MCTerminal -----------------------------
(* Two sessions of one container and one SSE client.                         *)
EXTENDS Terminal

CONSTANTS g1

MCStreams == {g1}
=============================================================================
