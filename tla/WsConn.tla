------------------------------- MODULE WsConn -------------------------------
(***************************************************************************)
(* The closing handshake of a websocket (internal/ws/ws.go).  Two          *)
(* goroutines use a connection: the reader, which answers the close frame  *)
(* of the peer inside ReadText and calls Close when its handler returns,   *)
(* and the writer of the console output, which may call Close as well.     *)
(* The flag closing is swapped atomically, so whoever swaps it first sends *)
(* the one close frame; closeOnce serialises Close.                        *)
(*                                                                         *)
(* writeMu is held for one write.  A write has no deadline: when the peer  *)
(* does not read and the buffers on the way are full, the write in hand    *)
(* waits, and every other write waits for writeMu.                         *)
(***************************************************************************)
EXTENDS Naturals

CONSTANT Conns

Actors == {"reader", "writer"}

VARIABLES
  tcp,      \* the socket: open, stalled by a peer that does not read, reset by it, closed by us
  closing,  \* the connections whose flag Conn.closing is set: a close frame was sent or received
  frames,   \* close frames that went out
  once,     \* Conn.closeOnce
  at        \* where an actor is inside ReadText or Close

vars == <<tcp, closing, frames, once, at>>

Init ==
  /\ tcp = [c \in Conns |-> "open"]
  /\ closing = {}
  /\ frames = [c \in Conns |-> 0]
  /\ once = [c \in Conns |-> "free"]
  /\ at = [p \in Conns \X Actors |-> "out"]

goto(c, a, label) == at' = [at EXCEPT ![<<c, a>>] = label]

\* The atomic swap of closing: whoever finds it unset goes on to the label
\* first, the other to the label second.
swap(c, a, first, second) ==
  /\ closing' = closing \cup {c}
  /\ goto(c, a, IF c \in closing THEN second ELSE first)

up(c) == tcp[c] \in {"open", "stalled"}

\* A write ends, with an error when the socket is gone, unless the peer stalls it.
writes(c) == tcp[c] # "stalled"

\* A write to a socket that is gone fails and sends nothing.
sendClose(c) ==
  frames' = IF tcp[c] = "open" THEN [frames EXCEPT ![c] = @ + 1] ELSE frames

\* Mutant: the flag is set, and the reply left out.
ReceiveClose_Silent(c) ==
  /\ at[<<c, "reader">>] = "out"
  /\ up(c)
  /\ swap(c, "reader", "eof", "eof")
  /\ UNCHANGED <<tcp, frames, once>>

\* ReadText receives the close frame of the peer.
ReceiveClose(c) ==
  /\ at[<<c, "reader">>] = "out"
  /\ up(c)
  /\ swap(c, "reader", "echo", "eof")
  /\ UNCHANGED <<tcp, frames, once>>

\* ... and replies to it, if no close frame of ours went out.
Echo(c) ==
  /\ at[<<c, "reader">>] = "echo" /\ writes(c)
  /\ sendClose(c)
  /\ goto(c, "reader", "eof")
  /\ UNCHANGED <<tcp, closing, once>>

\* ReadText fails: the socket is gone, or the peer broke the protocol.
ReadFails(c) ==
  /\ at[<<c, "reader">>] = "out"
  /\ goto(c, "reader", "eof")
  /\ UNCHANGED <<tcp, closing, frames, once>>

\* Mutant: Close does not look at the flag.
CloseBegin_Blind(c, a) ==
  /\ at[<<c, a>>] \in {"out", "eof"}
  /\ \/ /\ once[c] = "free"
        /\ once' = [once EXCEPT ![c] = a]
        /\ closing' = closing \cup {c}
        /\ goto(c, a, "frame")
     \/ /\ once[c] = "done"
        /\ goto(c, a, "closed")
        /\ UNCHANGED <<closing, once>>
  /\ UNCHANGED <<tcp, frames>>

\* Mutant: closeOnce is done before its work is.
CloseBegin_NoOnce(c, a) ==
  /\ at[<<c, a>>] \in {"out", "eof"}
  /\ once' = [once EXCEPT ![c] = "done"]
  /\ IF once[c] = "done" THEN goto(c, a, "closed") /\ UNCHANGED closing
     ELSE swap(c, a, "frame", "teardown")
  /\ UNCHANGED <<tcp, frames>>

\* Close: the first caller works, a second one waits for it and returns.
CloseBegin(c, a) ==
  /\ at[<<c, a>>] \in {"out", "eof"}
  /\ \/ /\ once[c] = "free"
        /\ once' = [once EXCEPT ![c] = a]
        /\ swap(c, a, "frame", "teardown")
     \/ /\ once[c] = "done"
        /\ goto(c, a, "closed")
        /\ UNCHANGED <<closing, once>>
  /\ UNCHANGED <<tcp, frames>>

\* Close sends its frame, under writeMu ...
CloseFrame(c, a) ==
  /\ at[<<c, a>>] = "frame" /\ writes(c)
  /\ sendClose(c)
  /\ goto(c, a, "teardown")
  /\ UNCHANGED <<tcp, closing, once>>

\* ... and closes the socket, which ends the writes that wait.
Teardown(c, a) ==
  /\ at[<<c, a>>] = "teardown"
  /\ tcp' = [tcp EXCEPT ![c] = "closed"]
  /\ once' = [once EXCEPT ![c] = "done"]
  /\ goto(c, a, "closed")
  /\ UNCHANGED <<closing, frames>>

\* The peer goes away without a close frame.
PeerReset(c) ==
  /\ up(c)
  /\ tcp' = [tcp EXCEPT ![c] = "reset"]
  /\ UNCHANGED <<closing, frames, once, at>>

\* The peer stops reading, and reads again.
PeerStalls(c) ==
  /\ tcp[c] = "open"
  /\ tcp' = [tcp EXCEPT ![c] = "stalled"]
  /\ UNCHANGED <<closing, frames, once, at>>

PeerReads(c) ==
  /\ tcp[c] = "stalled"
  /\ tcp' = [tcp EXCEPT ![c] = "open"]
  /\ UNCHANGED <<closing, frames, once, at>>

Peer(c) == PeerReset(c) \/ PeerStalls(c) \/ PeerReads(c)

\* What a connection does on its own once one of its methods was called.
Inside(c) ==
  Echo(c) \/ \E a \in Actors : CloseFrame(c, a) \/ Teardown(c, a)

Next == \E c \in Conns :
  \/ ReceiveClose(c) \/ ReadFails(c) \/ Peer(c) \/ Inside(c)
  \/ \E a \in Actors : CloseBegin(c, a)

Spec == Init /\ [][Next]_vars
-----------------------------------------------------------------------------
TypeOK ==
  /\ tcp \in [Conns -> {"open", "stalled", "reset", "closed"}]
  /\ closing \subseteq Conns
  /\ frames \in [Conns -> Nat]
  /\ once \in [Conns -> {"free", "done"} \cup Actors]
  /\ at \in [Conns \X Actors -> {"out", "echo", "eof", "frame", "teardown", "closed"}]
  /\ \A c \in Conns, a \in Actors :  \* closeOnce is held by who is in Close
       at[<<c, a>>] \in {"frame", "teardown"} <=> once[c] = a

\* "At most one close frame ever goes out", however the echo of the reader, the
\* Close of the writer and the Close of the handler interleave.
OneCloseFrame ==
  \A c \in Conns : frames[c] <= 1

\* The flag never swallows the close frame: once it is set the frame went out, or
\* whoever set it is about to send it, unless the socket is gone.
FlagMeansFrame ==
  \A c \in Conns :
    (c \in closing /\ up(c)) =>
      frames[c] = 1 \/ \E a \in Actors : at[<<c, a>>] \in {"echo", "frame"}

\* When Close returns, to its first caller or to one that waited, the socket is
\* closed: nobody goes on with a connection that is half shut.
CloseIsComplete ==
  \A c \in Conns, a \in Actors : at[<<c, a>>] = "closed" => tcp[c] = "closed"
=============================================================================
