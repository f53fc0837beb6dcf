------------------------- MODULE MCTerminalSession -------------------------
(* A small session with two subscribers and one typist.                     *)
EXTENDS TerminalSession

CONSTANTS u1, u2, t1

MCSubscribers == {u1, u2}
MCTypists == {t1}
=============================================================================
