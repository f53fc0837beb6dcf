-------------------------- MODULE TerminalSession --------------------------
(***************************************************************************)
(* The output and input of one console session (terminalSession in         *)
(* internal/server/terminal.go): the fragment held back for its newline,   *)
(* the ring that is replayed to late subscribers, the channels of the      *)
(* subscribers, and the bounded stdin channel.                             *)
(*                                                                         *)
(* Output is abstracted to pieces 1, 2, ... numbered in the order of the   *)
(* broadcasts.  A chunk, one channel item, is a sequence of pieces or a    *)
(* marker.  A subscriber is the writer goroutine of a websocket or an SSE  *)
(* stream, a typist a websocket handler or an HTTP request with input.     *)
(***************************************************************************)
EXTENDS Naturals, SequencesExt

CONSTANTS Subscribers,
          Typists,
          MaxPieces,   \* bound: pieces of output and input
          RingCap,     \* chunks kept for replay (200)
          ChanCap,     \* capacity of a subscriber's channel (512)
          StdinCap,    \* capacity of stdinCh (64)
          End, Error   \* the markers __session_ended__ and __session_error__

Pieces  == 1..MaxPieces
Markers == {End, Error}

ASSUME CapsAssumption ==
  /\ {MaxPieces, ChanCap} \subseteq Nat
  /\ {RingCap, StdinCap} \subseteq Nat \ {0}
  /\ RingCap <= ChanCap
ASSUME MarkersAssumption == End # Error /\ Markers \cap Seq(Pieces) = {}

VARIABLES
  closed,   \* closed, and done is a closed channel
  made,     \* pieces broadcast
  pending,  \* the fragment held back
  ring,     \* the chunks kept for replay
  subs,     \* the subscribers output is forwarded to
  chan,     \* the contents of a subscriber's channel
  chanSt,   \* none, open, closed, or panic: closed twice
  stdin,    \* the number of lines in stdinCh
  attach,   \* the attach goroutine
  pc,       \* where a typist is in writeInput
  got,      \* observer: the pieces a subscriber received
  lossy     \* observer: subscribers whose channel was full at a send

output == <<made, pending, ring, chan, lossy>>
membership == <<subs, chanSt>>
vars == <<closed, output, membership, stdin, attach, pc, got>>

Init ==
  /\ closed = FALSE
  /\ made = 0
  /\ pending = <<>>
  /\ ring = <<>>
  /\ subs = {}
  /\ chan = [u \in Subscribers |-> <<>>]
  /\ chanSt = [u \in Subscribers |-> "none"]
  /\ stdin = 0
  /\ attach = "running"
  /\ pc = [t \in Typists |-> "idle"]
  /\ got = [u \in Subscribers |-> <<>>]
  /\ lossy = {}

-----------------------------------------------------------------------------
(* broadcast *)

firstOf(q, n) == SubSeq(q, 1, IF Len(q) < n THEN Len(q) ELSE n)
lastOf(q, n)  == SubSeq(q, IF Len(q) > n THEN Len(q) - n + 1 ELSE 1, Len(q))

\* Mutant: a send that takes no notice of the capacity.
emit_Unbounded(items) ==
  /\ ring' = lastOf(ring \o items, RingCap)
  /\ chan' = [u \in Subscribers |-> IF u \in subs THEN chan[u] \o items ELSE chan[u]]
  /\ lossy' = lossy

\* emitLocked for every chunk of items: into the ring, and to every subscriber
\* by a send that does not block, so that a full channel misses the chunk.
emit(items) ==
  /\ ring' = lastOf(ring \o items, RingCap)
  /\ chan' = [u \in Subscribers |-> IF u \in subs THEN firstOf(chan[u] \o items, ChanCap) ELSE chan[u]]
  /\ lossy' = lossy \cup {u \in subs : Len(chan[u] \o items) > ChanCap}

\* The fragment held back as a chunk, if there is one.
held == IF pending = <<>> THEN <<>> ELSE <<pending>>

\* A marker is never glued to a fragment: the fragment goes out before it.
broadcastMarker(marker) ==
  IF closed THEN UNCHANGED output
  ELSE /\ emit(held \o <<marker>>)
       /\ pending' = <<>>
       /\ UNCHANGED made

\* Mutant: the fragment held back is overwritten.
broadcast_Lost ==
  LET k == made + 1 IN
  IF closed \/ k > MaxPieces THEN UNCHANGED output
  ELSE /\ made' = k
       /\ \/ emit(<<<<k>>>>) /\ pending' = <<>>
          \/ pending' = <<k>> /\ UNCHANGED <<ring, chan, lossy>>

\* Output: everything up to its last newline goes out with the fragment in front
\* of it, the rest is held back.
broadcast ==
  LET k == made + 1
      line == Append(pending, k)
  IN IF closed \/ k > MaxPieces THEN UNCHANGED output
     ELSE \/ /\ emit(<<line>>)             \* it ends in a newline
             /\ pending' = <<>>
             /\ made' = k
          \/ /\ k < MaxPieces              \* it has a newline inside
             /\ emit(<<line>>)
             /\ pending' = <<k + 1>>
             /\ made' = k + 1
          \/ /\ pending' = line            \* it has none
             /\ made' = k
             /\ UNCHANGED <<ring, chan, lossy>>

\* The timer of a fragment fires: every fragment is held with its timer running.
FlushPending ==
  /\ ~closed
  /\ pending # <<>>
  /\ emit(held)
  /\ pending' = <<>>
  /\ UNCHANGED <<closed, made, membership, stdin, attach, pc, got>>

-----------------------------------------------------------------------------
(* subscribe, unsubscribe, close *)

\* Mutant: the ring is copied, and the channel joins without the lock.
Subscribe_Late(u) ==
  /\ chanSt[u] = "none"
  /\ \/ chan' = [chan EXCEPT ![u] = firstOf(ring, ChanCap)]
     \/ ring # <<>> /\ chan' = [chan EXCEPT ![u] = firstOf(Front(ring), ChanCap)]
  /\ chanSt' = [chanSt EXCEPT ![u] = IF closed THEN "closed" ELSE "open"]
  /\ subs' = IF closed THEN subs ELSE subs \cup {u}
  /\ UNCHANGED <<closed, made, pending, ring, lossy, stdin, attach, pc, got>>

\* Under one lock the ring is replayed and the channel joins the subscribers;
\* the channel of a closed session is closed after the replay.
Subscribe(u) ==
  /\ chanSt[u] = "none"
  /\ chan' = [chan EXCEPT ![u] = firstOf(ring, ChanCap)]
  /\ chanSt' = [chanSt EXCEPT ![u] = IF closed THEN "closed" ELSE "open"]
  /\ subs' = IF closed THEN subs ELSE subs \cup {u}
  /\ UNCHANGED <<closed, made, pending, ring, lossy, stdin, attach, pc, got>>

\* close(ch) panics on a channel that is closed.
closeChans(S) ==
  chanSt' = [u \in Subscribers |-> IF u \notin S THEN chanSt[u]
                                   ELSE IF chanSt[u] = "open" THEN "closed" ELSE "panic"]

\* Mutant: the channel is closed, whether or not close was faster.
Unsubscribe_Unchecked(u) ==
  /\ chanSt[u] # "none"
  /\ closeChans({u})
  /\ subs' = subs \ {u}
  /\ UNCHANGED <<closed, output, stdin, attach, pc, got>>

\* The function that subscribe returned, called when the reader returns.
Unsubscribe(u) ==
  /\ chanSt[u] # "none"
  /\ closeChans({u} \cap subs)
  /\ subs' = subs \ {u}
  /\ UNCHANGED <<closed, output, stdin, attach, pc, got>>

\* The reader of a channel takes the next chunk.
Receive(u) ==
  /\ chan[u] # <<>>
  /\ chan' = [chan EXCEPT ![u] = Tail(@)]
  /\ got' = IF Head(chan[u]) \in Markers THEN got ELSE [got EXCEPT ![u] = @ \o Head(chan[u])]
  /\ UNCHANGED <<closed, made, pending, ring, lossy, membership, stdin, attach, pc>>

\* close: the fragment is dropped and the channels of the subscribers are closed.
close ==
  /\ closed' = TRUE
  /\ IF closed THEN UNCHANGED <<pending, membership>>
     ELSE /\ pending' = <<>>
          /\ closeChans(subs)
          /\ subs' = {}
  /\ UNCHANGED <<made, ring, chan, lossy>>

\* A newer session, or a client that leaves, closes this one.
CloseByOther ==
  /\ close
  /\ UNCHANGED <<stdin, attach, pc, got>>

-----------------------------------------------------------------------------
(* The attach goroutine and its process *)

AttachOutput ==
  /\ attach = "running"
  /\ broadcast
  /\ UNCHANGED <<closed, membership, stdin, attach, pc, got>>

\* A line is taken out of stdinCh and written to the process.
AttachInput ==
  /\ attach = "running"
  /\ ~closed
  /\ stdin > 0
  /\ stdin' = stdin - 1
  /\ UNCHANGED <<closed, output, membership, attach, pc, got>>

\* The process ends, by itself or killed; an error is announced unless the
\* session was cancelled.
AttachExit ==
  /\ attach = "running"
  /\ attach' = "ended"
  /\ broadcastMarker(Error) \/ UNCHANGED output
  /\ UNCHANGED <<closed, membership, stdin, pc, got>>

AttachEnd ==
  /\ attach = "ended"
  /\ attach' = "closing"
  /\ broadcastMarker(End)
  /\ UNCHANGED <<closed, membership, stdin, pc, got>>

AttachClose ==
  /\ attach = "closing"
  /\ attach' = "done"
  /\ close
  /\ UNCHANGED <<stdin, pc, got>>

-----------------------------------------------------------------------------
(* writeInput *)

goto(t, label) == pc' = [pc EXCEPT ![t] = label]

InputCheck(t) ==
  /\ pc[t] = "idle"
  /\ ~closed
  /\ goto(t, "select")
  /\ UNCHANGED <<closed, output, membership, stdin, attach, got>>

\* Mutant: no timer.
InputSelect_Untimed(t) ==
  /\ pc[t] = "select"
  /\ \/ stdin < StdinCap /\ stdin' = stdin + 1 /\ goto(t, "echo")
     \/ closed /\ goto(t, "idle") /\ UNCHANGED stdin
  /\ UNCHANGED <<closed, output, membership, attach, got>>

\* The select after the unlock: the line fits into stdinCh (also when the session
\* was closed since), or the session is done, or nobody took input for two seconds.
InputSelect(t) ==
  /\ pc[t] = "select"
  /\ \/ stdin < StdinCap /\ stdin' = stdin + 1 /\ goto(t, "echo")
     \/ (closed \/ stdin = StdinCap) /\ goto(t, "idle") /\ UNCHANGED stdin
  /\ UNCHANGED <<closed, output, membership, attach, got>>

\* What was typed is shown to everybody who watches.
InputEcho(t) ==
  /\ pc[t] = "echo"
  /\ broadcast
  /\ goto(t, "idle")
  /\ UNCHANGED <<closed, membership, stdin, attach, got>>

Input(t) == InputSelect(t) \/ InputEcho(t)

Next ==
  \/ FlushPending \/ CloseByOther
  \/ AttachOutput \/ AttachInput \/ AttachExit \/ AttachEnd \/ AttachClose
  \/ \E u \in Subscribers : Subscribe(u) \/ Receive(u) \/ Unsubscribe(u)
  \/ \E t \in Typists : InputCheck(t) \/ Input(t)

Spec == Init /\ [][Next]_vars

\* A request that is being served goes on; the console need not take its input.
Fairness == \A t \in Typists : WF_vars(Input(t))

FairSpec == Spec /\ Fairness
-----------------------------------------------------------------------------
Chunks == Seq(Pieces) \cup Markers

TypeOK ==
  /\ closed \in BOOLEAN
  /\ made \in 0..MaxPieces
  /\ pending \in Seq(Pieces)
  /\ Len(ring) <= RingCap /\ \A i \in 1..Len(ring) : ring[i] \in Chunks
  /\ subs \subseteq Subscribers
  /\ \A u \in Subscribers : Len(chan[u]) <= ChanCap /\ \A i \in 1..Len(chan[u]) : chan[u][i] \in Chunks
  /\ chanSt \in [Subscribers -> {"none", "open", "closed", "panic"}]
  /\ stdin \in 0..StdinCap
  /\ attach \in {"running", "ended", "closing", "done"}
  /\ pc \in [Typists -> {"idle", "select", "echo"}]
  /\ got \in [Subscribers -> Seq(Pieces)]
  /\ lossy \subseteq Subscribers

\* The pieces in a chunk, and in a sequence of chunks.
text(x) == IF x \in Markers THEN <<>> ELSE x
pieces(q) == FlattenSeq([i \in 1..Len(q) |-> text(q[i])])

\* q is the last pieces of 1..n, in their order.
latest(q, n) == q = [i \in 1..Len(q) |-> n - Len(q) + i]

\* No output of a live session is lost, repeated or reordered before it is sent:
\* what the ring replays and the fragment held back are the latest output.
RingInOrder ==
  ~closed => latest(pieces(ring) \o pending, made)

\* The replay and the live chunks join without a gap or a repetition: what a
\* subscriber received and what its channel holds is the latest output that went
\* out, unless its channel was full.
ReplayJoinsLive ==
  \A u \in subs \ lossy : latest(got[u] \o pieces(chan[u]), made - Len(pending))

\* Neither close nor unsubscribe, nor an output in between, panics: output goes
\* only to channels that are open, and no channel is closed twice.
ChannelsSafe ==
  /\ \A u \in subs : chanSt[u] = "open"
  /\ \A u \in Subscribers : chanSt[u] # "panic"

\* Input is answered also when nobody takes the input of the console, and when
\* the session is closed meanwhile.
InputAnswered ==
  \A t \in Typists : pc[t] = "select" ~> pc[t] = "idle"
=============================================================================
