------------------------------- MODULE NetEdge -------------------------------
(***************************************************************************)
(* An edge between two groups of a deployed graph: the NetOut node that    *)
(* takes the producer's items and writes them to a TCP connection, the     *)
(* thread that reads what comes back, and the NetIn node that hands the    *)
(* items to its own side.  Connections drop and the network goes down;     *)
(* either group may be cancelled by a failure elsewhere in it.             *)
(*                                                                         *)
(* Items are 1, 2, 3 ... in the order the producer sent them.  A           *)
(* connection is a pair of FIFO streams; when it breaks each keeps some    *)
(* prefix of what was in it, and its ends find out when they next read     *)
(* past that prefix or, perhaps, when they next write.                     *)
(***************************************************************************)
EXTENDS Integers, Sequences

CONSTANTS
    MaxItems,     \* the most items the producer sends
    Capacity,     \* the capacity of the edge: its credits, and the window
    BatchSize,    \* the batch of the edge
    Buffer,       \* frames a connection holds before a write blocks
    MaxConns,     \* connections ever made
    MaxDrops,     \* connections dropped and outages of the network
    Cancels,      \* groups a failure elsewhere in them may cancel
    Slow          \* which of "producer", "consumer" may take any time

Groups == {"out", "in"}             \* the sender's and the receiver's
Conns == 1..MaxConns
None == 0                           \* no connection: sock is None

ASSUME WireAssumption ==
    /\ MaxItems \in Nat /\ Capacity \in Nat \ {0}
    /\ BatchSize \in 1..Capacity /\ Buffer \in Nat \ {0}
    /\ MaxConns \in Nat \ {0} /\ MaxDrops \in Nat
    /\ Cancels \subseteq Groups /\ Slow \subseteq {"producer", "consumer"}

VARIABLES
    \* the producer and the inbox of NetOut
    produced, closed, credits, inq,
    \* _Sender
    spc,          \* where run() is
    then,         \* where it goes on after (re)connecting
    hand,         \* items taken from the inbox and not yet framed
    frame,        \* the frame being written
    resend,       \* frames to write again on the new connection
    last,         \* EOS has been taken from the inbox
    sent, acked, unacked, ended, sock, dropped,
    timed,        \* ack_deadline is set
    readers,      \* connections whose reader thread runs
    \* connections, and state.inbound[edge]
    conn, made, inbound,
    \* _Receiver and its node
    rpc, rsock, todo, upto, expected,
    passed,       \* items given to ctx.send, in order
    delivered,    \* how many of them the local node has; edge.pending holds the rest
    \* the groups' RunContext and _State.failure; the network
    cancelled, message, verdict, up, drops

producerVars == <<produced, closed>>
inboxVars == <<credits, inq>>
controlVars == <<spc, then, hand, frame, resend, last>>
senderVars == <<sent, acked, unacked, ended, sock, dropped, timed, readers>>
wireVars == <<conn, made, inbound>>
receiverVars == <<rpc, rsock, todo, upto, expected, passed, delivered>>
runVars == <<cancelled, message, verdict>>
netVars == <<up, drops>>
vars == <<producerVars, inboxVars, controlVars, senderVars, wireVars, receiverVars,
          runVars, netVars>>
-----------------------------------------------------------------------------
EOS == 0
Data(first, items) == [kind |-> "DATA", first |-> first, items |-> items]
End(n) == [kind |-> "END", first |-> n, items |-> <<>>]
Error == [kind |-> "ERROR", first |-> 0, items |-> <<>>]
Torn == [kind |-> "TORN", first |-> 0, items |-> <<>>]   \* half a frame
Reply(kind, n) == [kind |-> kind, upto |-> n]
NewConn == [fwd |-> <<>>, back |-> <<>>, broken |-> FALSE, sclosed |-> FALSE, rclosed |-> FALSE]

Larger(a, b) == IF a > b THEN a ELSE b
Cut(s, k) == SubSeq(s, 1, k)
\* Broken on purpose: a frame is forgotten one item too early.
BeyondLate(f, n) == f.first + Len(f.items) > n + 1
\* The frame holds items after the n-th.
Beyond(f, n) == f.first + Len(f.items) > n

Init ==
    /\ produced = 0 /\ closed = FALSE /\ credits = Capacity /\ inq = <<>>
    /\ spc = "connect" /\ then = "pop" /\ hand = <<>> /\ frame = End(0)
    /\ resend = <<>> /\ last = FALSE
    /\ sent = 0 /\ acked = 0 /\ unacked = <<>> /\ ended = FALSE
    /\ sock = None /\ dropped = FALSE /\ timed = FALSE /\ readers = {}
    /\ conn = [c \in Conns |-> NewConn] /\ made = 0 /\ inbound = <<>>
    /\ rpc = "wait" /\ rsock = None /\ todo = <<>> /\ upto = 0
    /\ expected = 0 /\ passed = <<>> /\ delivered = 0
    /\ cancelled = [g \in Groups |-> FALSE]
    /\ message = [g \in Groups |-> FALSE]
    /\ verdict = [g \in Groups |-> "none"]
    /\ up = TRUE /\ drops = 0
-----------------------------------------------------------------------------
(* Groups: rc.fail and rc.cancel.                                          *)

\* A node of group g fails: its group is cancelled and has something to say.
Fails(g, why) ==
    /\ cancelled' = [cancelled EXCEPT ![g] = TRUE]
    /\ message' = [message EXCEPT ![g] = TRUE]
    /\ verdict' = [verdict EXCEPT ![g] = IF @ = "none" THEN why ELSE @]
Ends(g, how) ==
    /\ verdict' = [verdict EXCEPT ![g] = IF @ = "none" THEN how ELSE @]
    /\ UNCHANGED <<cancelled, message>>

\* Another node of the group fails, or the run is stopped with nothing to say.
Cancel(g) ==
    /\ g \in Cancels /\ ~cancelled[g]
    /\ IF g = "out" THEN spc # "over" ELSE rpc # "over"
    /\ cancelled' = [cancelled EXCEPT ![g] = TRUE]
    /\ \E m \in BOOLEAN : message' = [message EXCEPT ![g] = m]
    /\ verdict' = [verdict EXCEPT ![g] = "cancelled"]
    /\ UNCHANGED <<producerVars, inboxVars, controlVars, senderVars, wireVars, receiverVars, netVars>>

(* The network, while it matters.                                          *)

Running == spc # "over" \/ rpc # "over"
Break(cs) ==
    \E i, j \in 0..Buffer :
       conn' = [c \in Conns |->
                  IF c \notin cs \/ conn[c].broken THEN conn[c]
                  ELSE [conn[c] EXCEPT !.broken = TRUE,
                                       !.fwd = IF i < Len(@) THEN Cut(@, i) ELSE @,
                                       !.back = IF j < Len(@) THEN Cut(@, j) ELSE @]]
\* One connection drops; the next can be made at once.
Drop ==
    /\ Running /\ drops < MaxDrops /\ drops' = drops + 1
    /\ \E c \in 1..made : ~conn[c].broken /\ Break({c})
    /\ UNCHANGED <<up, made, inbound>>
    /\ UNCHANGED <<producerVars, inboxVars, controlVars, senderVars, receiverVars, runVars>>
\* Nothing gets through until the network is back.
Outage ==
    /\ up /\ up' = FALSE
    /\ Running /\ drops < MaxDrops /\ drops' = drops + 1
    /\ Break(1..made)
    /\ UNCHANGED <<made, inbound>>
    /\ UNCHANGED <<producerVars, inboxVars, controlVars, senderVars, receiverVars, runVars>>
Restore ==
    /\ Running /\ ~up /\ up' = TRUE
    /\ UNCHANGED <<drops, producerVars, inboxVars, controlVars, senderVars, wireVars, receiverVars, runVars>>
-----------------------------------------------------------------------------
(* The producer, through Outbox and Inbox.                                 *)

Produce ==
    /\ ~closed /\ ~cancelled["out"]
    /\ \E k \in 1..BatchSize :
          /\ k <= credits /\ produced + k <= MaxItems
          /\ produced' = produced + k
          /\ credits' = credits - k
          /\ inq' = Append(inq, [i \in 1..k |-> produced + i])
    /\ UNCHANGED <<closed, controlVars, senderVars, wireVars, receiverVars, runVars, netVars>>

CloseOutput ==
    /\ ~closed /\ ~cancelled["out"] /\ credits > 0
    /\ closed' = TRUE
    /\ credits' = credits - 1
    /\ inq' = Append(inq, <<EOS>>)
    /\ UNCHANGED <<produced, controlVars, senderVars, wireVars, receiverVars, runVars, netVars>>
-----------------------------------------------------------------------------
(* _Sender.run.                                                            *)

\* The next thing to do once nothing is in hand.
AfterSend == IF last THEN "finish" ELSE "pop"
\* Broken on purpose: what was held for a full batch is forgotten at the end.
AfterLastForgets == "finish"
\* After EOS: send the partial batch first.
AfterLast == IF hand = <<>> THEN "finish" ELSE "room"

Pop ==
    /\ spc = "pop" /\ inq # <<>>
    /\ IF Head(inq) = <<EOS>>
       THEN /\ last' = TRUE
            /\ credits' = credits + 1
            /\ spc' = AfterLast
            /\ UNCHANGED hand
       ELSE /\ hand' = hand \o Head(inq)
            /\ spc' = IF Len(hand') >= BatchSize \/ Len(inq) = 1 THEN "room" ELSE "pop"
            /\ UNCHANGED <<last, credits>>
    /\ inq' = Tail(inq)
    /\ UNCHANGED <<then, frame, resend, producerVars, senderVars, wireVars, receiverVars, runVars, netVars>>

\* _send_items: the part of the batch the window has room for becomes a frame.
Outstanding == sent - acked
MakeFrame ==
    /\ spc = "room" /\ Outstanding < Capacity
    /\ LET n == Capacity - Outstanding
           k == IF n < Len(hand) THEN n ELSE Len(hand)
           f == Data(sent, Cut(hand, k))
       IN /\ frame' = f
          /\ unacked' = Append(unacked, f)
          /\ sent' = sent + k
          /\ hand' = SubSeq(hand, k + 1, Len(hand))
    /\ spc' = "write"
    /\ UNCHANGED <<then, resend, last, acked, ended, sock, dropped, timed, readers>>
    /\ UNCHANGED <<producerVars, inboxVars, wireVars, receiverVars, runVars, netVars>>

\* Every item is sent: _finish, up to the frame it writes.
Finish ==
    /\ spc = "finish"
    /\ ended' = TRUE /\ frame' = End(sent)
    /\ spc' = "write"
    /\ UNCHANGED <<then, hand, resend, last, sent, acked, unacked, sock, dropped, timed, readers>>
    /\ UNCHANGED <<producerVars, inboxVars, wireVars, receiverVars, runVars, netVars>>

\* A write goes into the connection, or into nothing when the peer is not there
\* and this end does not know it yet; it blocks while the connection is full.
Deaf(c) == conn[c].broken \/ conn[c].rclosed
Writes(c, f) ==
    /\ Deaf(c) \/ Len(conn[c].fwd) < Buffer
    /\ conn' = IF Deaf(c) THEN conn ELSE [conn EXCEPT ![c].fwd = Append(@, f)]

\* _transmit: the frame is written ...
Transmit ==
    /\ spc = "write" /\ ~cancelled["out"]
    /\ Writes(sock, frame)
    /\ timed' = (timed \/ frame.kind = "DATA")
    /\ spc' = IF frame.kind = "END" THEN "drain"
              ELSE IF hand # <<>> THEN "room" ELSE AfterSend
    /\ UNCHANGED <<then, hand, frame, resend, last, made, inbound>>
    /\ UNCHANGED <<sent, acked, unacked, ended, sock, dropped, readers>>
    /\ UNCHANGED <<producerVars, inboxVars, receiverVars, runVars, netVars>>

\* Closing one end.  What the other end has not read yet may be thrown away
\* with it when there is unread input: the system sends a reset.  The sender's
\* reader thread may have taken one more frame and not have handled it.
Intact(cn, c) == {[cn EXCEPT ![c].sclosed = TRUE, ![c].back = b] :
                     b \in IF c \in readers /\ cn[c].back # <<>> THEN {<<>>, Cut(cn[c].back, 1)} ELSE {<<>>}}
SClose(cn, c) ==
    IF c = None THEN {cn}
    ELSE UNION {Intact([cn EXCEPT ![c].fwd = Cut(@, k)], c) :
                   k \in IF cn[c].back = <<>> THEN {Len(cn[c].fwd)} ELSE 0..Len(cn[c].fwd)}
RClose(cn, c) ==
    {[cn EXCEPT ![c].rclosed = TRUE, ![c].back = Cut(@, k)] :
        k \in IF cn[c].fwd = <<>> THEN {Len(cn[c].back)} ELSE 0..Len(cn[c].back)}

\* _reconnect: give up the old connection and make another, then go on to w.
Reconnects(w) ==
    /\ spc' = "connect" /\ then' = w
    /\ sock' = None /\ dropped' = FALSE
    /\ conn' \in SClose(conn, sock)
    /\ UNCHANGED <<hand, frame, resend, last, sent, acked, unacked, ended, timed, readers>>
    /\ UNCHANGED <<made, inbound, producerVars, inboxVars, receiverVars, runVars, netVars>>

\* ... or the write fails, and is made again after the frames that were resent.
TransmitFails == spc = "write" /\ ~cancelled["out"] /\ Deaf(sock) /\ Reconnects("write")
ResendFails == spc = "resend" /\ ~cancelled["out"] /\ resend # <<>> /\ Deaf(sock) /\ Reconnects(then)
\* _wait_for: waiting for acknowledgements, the drop is noticed at once.
WaitReconnects ==
    /\ ~cancelled["out"] /\ dropped
    /\ \/ spc = "room" /\ Outstanding >= Capacity
       \/ spc = "drain" /\ acked < sent
    /\ Reconnects(spc)

\* _finish returns once everything is acknowledged.
Done ==
    /\ spc = "drain" /\ acked >= sent
    /\ spc' = "over" /\ sock' = None
    /\ conn' \in SClose(conn, sock)
    /\ Ends("out", "done")
    /\ UNCHANGED <<then, hand, frame, resend, last, sent, acked, unacked, ended, dropped, timed, readers>>
    /\ UNCHANGED <<made, inbound, producerVars, inboxVars, receiverVars, netVars>>
-----------------------------------------------------------------------------
(* _Sender._connect and the listener's handshake.                          *)

Dials(where) ==
    /\ up /\ made < MaxConns
    /\ made' = made + 1
    /\ inbound' = Append(inbound, made + 1)
    /\ spc' = where
    /\ UNCHANGED <<then, hand, frame, resend, last, conn>>
    /\ UNCHANGED <<producerVars, inboxVars, senderVars, receiverVars, runVars, netVars>>
Connect == spc = "connect" /\ ~cancelled["out"] /\ Dials("welcome")

\* Frames that hold nothing after the n-th item are forgotten, from the oldest on.
Forget(n) ==
    \E k \in 0..Len(unacked) :
       /\ \A i \in 1..k : ~Beyond(unacked[i], n)
       /\ k < Len(unacked) => Beyond(unacked[k + 1], n)
       /\ unacked' = SubSeq(unacked, k + 1, Len(unacked))
\* Broken on purpose: an old acknowledgement takes credits away again.
AcknowledgeAny(n) ==
    /\ acked' = Larger(acked, n)
    /\ credits' = credits + (n - acked)
    /\ Forget(n)
\* _acknowledge: give the producer its credits back, forget what has arrived.
Acknowledge(n) ==
    IF n <= acked THEN UNCHANGED <<acked, credits, unacked>>
    ELSE acked' = n /\ credits' = credits + (n - acked) /\ Forget(n)

\* The peer says where it is.
Welcomed ==
    /\ spc = "welcome" /\ conn[made].back # <<>>
    /\ Head(conn[made].back).kind = "WELCOME"
    /\ Acknowledge(Head(conn[made].back).upto)
    /\ conn' = [conn EXCEPT ![made].back = Tail(@)]
    /\ sock' = made /\ dropped' = FALSE
    /\ readers' = readers \cup {made}
    /\ spc' = "snapshot"
    /\ UNCHANGED <<then, hand, frame, resend, last, sent, ended, timed, made, inbound, inq>>
    /\ UNCHANGED <<producerVars, receiverVars, runVars, netVars>>

\* No welcome, but an error, the end of the connection, or ten seconds' silence:
\* try again.
Unwelcome(c) == /\ conn[c].back # <<>> => Head(conn[c].back).kind # "WELCOME"
                /\ Deaf(c) \/ conn[c].back # <<>>
RetryConnect ==
    /\ spc' = "connect"
    /\ conn' \in SClose(conn, made)
    /\ UNCHANGED <<then, hand, frame, resend, last, made, inbound>>
    /\ UNCHANGED <<producerVars, inboxVars, senderVars, receiverVars, runVars, netVars>>
ConnectFails == spc = "welcome" /\ Unwelcome(made) /\ RetryConnect

\* _reconnect: what is not acknowledged goes again, and END if it was said once.
\* Broken on purpose: only what was never written is sent.
FramesAgainLast == IF ended THEN <<End(sent)>> ELSE <<>>
FramesAgain == unacked \o (IF ended THEN <<End(sent)>> ELSE <<>>)
Snapshot ==
    /\ spc = "snapshot"
    /\ resend' = FramesAgain
    /\ spc' = "resend"
    /\ UNCHANGED <<then, hand, frame, last, inboxVars, producerVars, senderVars, wireVars,
                   receiverVars, runVars, netVars>>
Resend ==
    /\ spc = "resend" /\ resend # <<>> /\ ~cancelled["out"]
    /\ Writes(sock, Head(resend))
    /\ resend' = Tail(resend)
    /\ UNCHANGED <<spc, then, hand, frame, last, made, inbound, producerVars, inboxVars, senderVars,
                   receiverVars, runVars, netVars>>
\* After a reconnect in _wait_for the deadline starts anew.
Resent ==
    /\ spc = "resend" /\ resend = <<>>
    /\ spc' = then
    /\ timed' = (timed \/ then \in {"room", "drain"})
    /\ UNCHANGED <<then, hand, frame, resend, last, sent, acked, unacked, ended, sock, dropped, readers>>
    /\ UNCHANGED <<producerVars, inboxVars, wireVars, receiverVars, runVars, netVars>>
-----------------------------------------------------------------------------
(* Cancelled and _say_goodbye.                                             *)

\* Cancelled is raised where the code looks at rc.cancelled; between two parts
\* of a frame it leaves half a frame behind.
Quit ==
    /\ cancelled["out"]
    /\ \/ spc \in {"connect", "write"}
       \/ spc = "pop" /\ inq = <<>>
       \/ spc = "room" /\ Outstanding >= Capacity
       \/ spc = "drain" /\ acked < sent
       \/ spc = "resend" /\ resend # <<>>
    /\ \/ conn' = conn
       \/ spc \in {"write", "resend"} /\ Writes(sock, Torn)
    /\ spc' = IF ~message["out"] THEN "leave" ELSE IF sock = None THEN "callback" ELSE "goodbye"
    /\ UNCHANGED <<then, hand, frame, resend, last, made, inbound>>
    /\ UNCHANGED <<producerVars, inboxVars, senderVars, receiverVars, runVars, netVars>>

\* ERROR goes into the open connection, if it still takes it ...
Goodbye(c) ==
    /\ conn' = IF Deaf(c) \/ Len(conn[c].fwd) = Buffer THEN conn
               ELSE [conn EXCEPT ![c].fwd = Append(@, Error)]
    /\ spc' = "leave"
    /\ UNCHANGED <<then, hand, frame, resend, last, made, inbound>>
    /\ UNCHANGED <<producerVars, inboxVars, senderVars, receiverVars, runVars, netVars>>
SayGoodbye == spc = "goodbye" /\ Goodbye(sock)
\* ... or a connection made for it, if that works within seconds.
CallBack == spc = "callback" /\ Dials("farewell")
Farewell ==
    /\ spc = "farewell" /\ conn[made].back # <<>>
    /\ Head(conn[made].back).kind = "WELCOME"
    /\ Goodbye(made)
FarewellFails ==
    /\ spc = "farewell" /\ Unwelcome(made)
    /\ spc' = "leave"
    /\ UNCHANGED <<then, hand, frame, resend, last, inboxVars, producerVars, senderVars, wireVars,
                   receiverVars, runVars, netVars>>

\* The socket is closed, after _linger if there was a message: it is not reset.
Leave ==
    /\ spc = "leave"
    /\ spc' = "over" /\ sock' = None
    /\ LET c == IF sock = None THEN made ELSE sock IN
          conn' \in IF c = None THEN {conn} ELSE Intact(conn, c)
    /\ Ends("out", "cancelled")
    /\ UNCHANGED <<then, hand, frame, resend, last, sent, acked, unacked, ended, dropped, timed, readers>>
    /\ UNCHANGED <<made, inbound, producerVars, inboxVars, receiverVars, netVars>>
-----------------------------------------------------------------------------
(* _Sender._reader, one thread per connection that was welcomed.           *)

ReadAck(c) ==
    /\ c \in readers
    /\ conn[c].back # <<>> /\ Head(conn[c].back).kind = "ACK"
    /\ conn' = [conn EXCEPT ![c].back = Tail(@)]
    /\ Acknowledge(Head(conn[c].back).upto)
    /\ timed' = TRUE
    /\ UNCHANGED <<controlVars, producerVars, inq, sent, ended, sock, dropped, readers, made, inbound>>
    /\ UNCHANGED <<receiverVars, runVars, netVars>>

ReadError(c) ==
    /\ c \in readers
    /\ conn[c].back # <<>> /\ Head(conn[c].back).kind = "ERROR"
    /\ conn' = [conn EXCEPT ![c].back = Tail(@)]
    /\ readers' = readers \ {c}
    /\ Fails("out", "failed")
    /\ UNCHANGED <<controlVars, producerVars, inboxVars, sent, acked, unacked, ended, sock, dropped, timed>>
    /\ UNCHANGED <<made, inbound, receiverVars, netVars>>

\* The connection has ended, at either end.
ReadEnd(c) ==
    /\ c \in readers
    /\ conn[c].back = <<>> /\ (Deaf(c) \/ conn[c].sclosed)
    /\ readers' = readers \ {c}
    /\ dropped' = (dropped \/ sock = c)
    /\ UNCHANGED <<controlVars, producerVars, inboxVars, sent, acked, unacked, ended, sock, timed>>
    /\ UNCHANGED <<wireVars, receiverVars, runVars, netVars>>

Reader(c) == ReadAck(c) \/ ReadError(c) \/ ReadEnd(c)
-----------------------------------------------------------------------------
(* _Receiver.                                                              *)

\* A reply is sent, or lost, or the connection turns out to be gone.
Replies(r) == conn' = IF conn[rsock].broken \/ conn[rsock].sclosed THEN conn
                      ELSE [conn EXCEPT ![rsock].back = Append(@, r)]
SenderGone(c) == conn[c].broken \/ conn[c].sclosed

Accept ==
    /\ rpc = "wait" /\ inbound # <<>> /\ ~cancelled["in"]
    /\ LET c == Head(inbound) IN
          /\ rsock' = c
          /\ conn' = IF SenderGone(c) THEN conn
                     ELSE [conn EXCEPT ![c].back = Append(@, Reply("WELCOME", expected))]
    /\ inbound' = Tail(inbound)
    /\ rpc' = "serve"
    /\ UNCHANGED <<todo, upto, expected, passed, delivered, made, producerVars, inboxVars, controlVars,
                   senderVars, runVars, netVars>>

\* Items sent on and not yet with the local node: edge.pending is flushed before reading.
Pending == Len(passed) - delivered
Reading == rpc = "serve" /\ ~cancelled["in"] /\ Pending = 0
Incoming(kind) == Reading /\ conn[rsock].fwd # <<>> /\ Head(conn[rsock].fwd).kind = kind
First == Head(conn[rsock].fwd).first
Received == conn' = [conn EXCEPT ![rsock].fwd = Tail(@)]

\* Broken on purpose: a frame sent again is delivered again.
SkipNothing(first) == 0
Skip(first) == expected - first

ReceiveData ==
    /\ Incoming("DATA") /\ First <= expected
    /\ LET items == Head(conn[rsock].fwd).items IN
          /\ todo' = SubSeq(items, Skip(First) + 1, Len(items))
          /\ upto' = First + Len(items)
    /\ Received
    /\ rpc' = "deliver"
    /\ UNCHANGED <<rsock, expected, passed, delivered, made, inbound, producerVars, inboxVars, controlVars,
                   senderVars, runVars, netVars>>

\* Outbox.put: the item joins edge.pending, which is flushed when it is a whole batch.
PassOn ==
    /\ rpc = "deliver" /\ todo # <<>> /\ Pending < BatchSize
    /\ passed' = Append(passed, Head(todo))
    /\ todo' = Tail(todo)
    /\ UNCHANGED <<rpc, rsock, upto, expected, delivered, wireVars, producerVars, inboxVars,
                   controlVars, senderVars, runVars, netVars>>

\* _flush_edge: the local node takes what is pending.  A send flushes a whole batch, and
\* less when the last flush was long ago; _serve flushes before it reads.
Flush ==
    /\ rpc \in {"deliver", "serve"} /\ Pending > 0
    /\ delivered' = Len(passed)
    /\ UNCHANGED <<rpc, rsock, todo, upto, expected, passed, wireVars, producerVars, inboxVars,
                   controlVars, senderVars, runVars, netVars>>

\* All of the frame is sent on: expected moves on and is acknowledged, though a part
\* of a batch may still be pending.
AckFrame ==
    /\ rpc = "deliver" /\ todo = <<>> /\ Pending < BatchSize
    /\ expected' = Larger(expected, upto)
    /\ \/ Replies(Reply("ACK", Larger(expected, upto))) /\ rpc' = "serve"
       \/ SenderGone(rsock) /\ rpc' = "drop" /\ conn' = conn
    /\ UNCHANGED <<rsock, todo, upto, passed, delivered, made, inbound, producerVars, inboxVars,
                   controlVars, senderVars, runVars, netVars>>

\* Nothing to read for a while: the same acknowledgement again, as a heartbeat.
\* The bound: a heartbeat is sent once the one before it has been read.
Heartbeat ==
    /\ Reading /\ conn[rsock].fwd = <<>> /\ ~SenderGone(rsock) /\ conn[rsock].back = <<>>
    /\ Replies(Reply("ACK", expected))
    /\ UNCHANGED <<receiverVars, made, inbound, producerVars, inboxVars, controlVars, senderVars,
                   runVars, netVars>>

\* END with nothing missing: the stream is over, if the reply can be sent.
ReceiveEnd ==
    /\ Incoming("END") /\ First <= expected
    /\ \/ /\ rpc' = "close"
          /\ conn' = IF SenderGone(rsock) THEN [conn EXCEPT ![rsock].fwd = Tail(@)]
                     ELSE [conn EXCEPT ![rsock].fwd = Tail(@),
                                       ![rsock].back = Append(@, Reply("ACK", expected))]
       \/ SenderGone(rsock) /\ rpc' = "drop" /\ Received
    /\ UNCHANGED <<rsock, todo, upto, expected, passed, delivered, made, inbound, producerVars, inboxVars,
                   controlVars, senderVars, runVars, netVars>>

\* The connection ended, broke inside a frame, or skipped something.
Dropped ==
    /\ Reading
    /\ \/ conn[rsock].fwd = <<>> /\ SenderGone(rsock)
       \/ Incoming("TORN")
       \/ (Incoming("DATA") \/ Incoming("END")) /\ First > expected
    /\ rpc' = "drop"
    /\ UNCHANGED <<rsock, todo, upto, expected, passed, delivered, wireVars, producerVars, inboxVars,
                   controlVars, senderVars, runVars, netVars>>

\* run's finally: close the socket and wait for the sender to come back, or end.
CloseSocket ==
    /\ rpc \in {"drop", "close"}
    /\ conn' \in RClose(conn, rsock)
    /\ rsock' = None
    /\ IF rpc = "drop" THEN rpc' = "wait" /\ UNCHANGED runVars
       ELSE rpc' = "over" /\ Ends("in", "done")
    /\ UNCHANGED <<todo, upto, expected, passed, delivered, made, inbound, producerVars, inboxVars, controlVars,
                   senderVars, netVars>>

\* PeerFailed: the sender's group said why it stopped.
ReceiveError ==
    /\ Incoming("ERROR")
    /\ conn' \in RClose([conn EXCEPT ![rsock].fwd = Tail(@)], rsock)
    /\ rpc' = "over" /\ rsock' = None
    /\ Fails("in", "failed")
    /\ UNCHANGED <<todo, upto, expected, passed, delivered, made, inbound, producerVars, inboxVars, controlVars,
                   senderVars, netVars>>

\* close_all, in run_node's finally: what is pending goes to the local node if there is
\* room for it, or else the group, being cancelled, gives it up.
ClosesOutput == delivered' \in {delivered, Len(passed)}

\* Cancelled, while waiting, reading or flushing: say why, if it can be said, and leave
\* after _linger.
QuitReceiver ==
    /\ cancelled["in"]
    /\ rpc \in {"wait", "serve"} \/ (rpc = "deliver" /\ Pending > 0)
    /\ conn' = IF rsock = None THEN conn
               ELSE IF message["in"] /\ ~SenderGone(rsock)
               THEN [conn EXCEPT ![rsock].back = Append(@, Reply("ERROR", 0)), ![rsock].rclosed = TRUE]
               ELSE [conn EXCEPT ![rsock].rclosed = TRUE]
    /\ rpc' = "over" /\ rsock' = None
    /\ Ends("in", "cancelled") /\ ClosesOutput
    /\ UNCHANGED <<todo, upto, expected, passed, made, inbound, producerVars, inboxVars, controlVars,
                   senderVars, netVars>>
-----------------------------------------------------------------------------
Sender == \/ Pop \/ MakeFrame \/ Finish \/ Transmit \/ TransmitFails \/ WaitReconnects \/ Done
          \/ Connect \/ Welcomed \/ ConnectFails \/ Snapshot \/ Resend \/ ResendFails \/ Resent
          \/ Quit \/ SayGoodbye \/ CallBack \/ Farewell \/ FarewellFails \/ Leave
Receiver == \/ Accept \/ ReceiveData \/ PassOn \/ AckFrame \/ Heartbeat \/ ReceiveEnd \/ Dropped
            \/ CloseSocket \/ ReceiveError \/ QuitReceiver
Producer == Produce \/ CloseOutput
Over == spc = "over" /\ rpc = "over" /\ UNCHANGED vars

\* Steps that take next to no time.  A deadline of seconds passes only when none
\* of them can be taken.
Prompt == \/ Sender \/ Receiver \/ \E c \in Conns : Reader(c)
          \/ "producer" \notin Slow /\ Producer
          \/ "consumer" \notin Slow /\ Flush
Quiescent == ~ENABLED Prompt

\* _connect's or _reconnect's budget is used up: PeerLost, without a goodbye.
ConnectTimesOut ==
    /\ spc \in {"connect", "welcome"} /\ Quiescent
    /\ spc' = "over"
    /\ conn' \in SClose(conn, IF spc = "welcome" THEN made ELSE None)
    /\ Fails("out", "lost")
    /\ UNCHANGED <<then, hand, frame, resend, last, made, inbound>>
    /\ UNCHANGED <<producerVars, inboxVars, senderVars, receiverVars, netVars>>
\* Nobody answers the handshake, and the budget is not used up yet.
WelcomeTimesOut == spc = "welcome" /\ Quiescent /\ made < MaxConns /\ RetryConnect
FarewellTimesOut ==
    /\ spc \in {"callback", "farewell"} /\ Quiescent
    /\ spc' = "leave"
    /\ UNCHANGED <<then, hand, frame, resend, last, inboxVars, producerVars, senderVars, wireVars,
                   receiverVars, runVars, netVars>>
\* The reader finds that items are out and nothing was heard for too long.
Silence ==
    /\ sock \in readers
    /\ sent > acked /\ timed /\ Quiescent /\ ~cancelled["out"]
    /\ Fails("out", "lost")
    /\ readers' = readers \ {sock}
    /\ UNCHANGED <<controlVars, producerVars, inboxVars, sent, acked, unacked, ended, sock, dropped, timed>>
    /\ UNCHANGED <<wireVars, receiverVars, netVars>>
\* So does _wait_for, unless it sees that the connection dropped.
WaitTimesOut ==
    /\ timed /\ Quiescent /\ ~cancelled["out"] /\ ~dropped
    /\ \/ spc = "room" /\ Outstanding >= Capacity
       \/ spc = "drain" /\ acked < sent
    /\ spc' = "over" /\ sock' = None
    /\ conn' \in SClose(conn, sock)
    /\ Fails("out", "lost")
    /\ UNCHANGED <<then, hand, frame, resend, last, sent, acked, unacked, ended, dropped, timed, readers>>
    /\ UNCHANGED <<made, inbound, producerVars, inboxVars, receiverVars, netVars>>
\* Broken on purpose: only the first connection is waited for so long.
NobodyEverComes == rpc = "wait" /\ made = 0 /\ Quiescent
NobodyComes == rpc = "wait" /\ inbound = <<>> /\ Quiescent
\* No connection comes, or comes back, within the budget.
AcceptTimesOut ==
    /\ NobodyComes
    /\ rpc' = "over"
    /\ Fails("in", "lost") /\ ClosesOutput
    /\ UNCHANGED <<rsock, todo, upto, expected, passed, wireVars, producerVars, inboxVars,
                   controlVars, senderVars, netVars>>
Timeout == ConnectTimesOut \/ WelcomeTimesOut \/ FarewellTimesOut
           \/ Silence \/ WaitTimesOut \/ AcceptTimesOut

Next == \/ Producer \/ Sender \/ (\E c \in Conns : Reader(c))
        \/ Receiver \/ Flush \/ Timeout \/ Over
        \/ Drop \/ Outage \/ Restore \/ \E g \in Groups : Cancel(g)

\* The threads run, the producer and the local node go on in the end, and time
\* passes.  The network need never come back.
Fairness == /\ WF_vars(Sender) /\ WF_vars(Receiver) /\ \A c \in Conns : WF_vars(Reader(c))
            /\ WF_vars(Flush) /\ WF_vars(CloseOutput) /\ WF_vars(Timeout)

Spec == Init /\ [][Next]_vars
FairSpec == Spec /\ Fairness
-----------------------------------------------------------------------------
(* What should hold.                                                       *)

\* Credits survive the wire: the producer's credits are the capacity less what is
\* in the inbox, in hand, or out and not acknowledged, however often the
\* connection dropped and whatever was acknowledged twice (_acknowledge, Inbox).
Size(q) == LET size[i \in 0..Len(q)] == IF i = 0 THEN 0 ELSE size[i - 1] + Len(q[i])
           IN  size[Len(q)]
InInbox == Size(inq)
CreditsAcrossWire ==
    /\ credits >= 0
    /\ credits + InInbox + Len(hand) + Outstanding = Capacity

\* An item is acknowledged only once NetIn has it and all but a part of a batch has gone
\* on to the local node, and what is not acknowledged can still be sent again: the
\* frames kept hold it (_serve, _acknowledge, _reconnect).
AckedHasArrived ==
    /\ acked <= Len(passed) /\ acked < delivered + BatchSize
    /\ \A i \in (acked + 1)..sent : \E k \in DOMAIN unacked :
          LET f == unacked[k] IN
          i \in (f.first + 1)..(f.first + Len(f.items)) /\ f.items[i - f.first] = i

\* The branch of _serve that finds items missing is never taken: whatever dropped,
\* the sender resends from where the receiver is, and END comes after the items.
NothingMissing ==
    (Incoming("DATA") \/ Incoming("END")) => First <= expected

\* When the receiver's stream ends, its node has every item.  When the sender is done,
\* NetIn has them all, each once; those still pending go to the node with the next flush,
\* unless that group is cancelled first (_finish, _serve).
EndIsComplete ==
    /\ (verdict["in"] = "done" \/ verdict["out"] = "done") =>
          closed /\ passed = [i \in 1..produced |-> i]
    /\ verdict["in"] = "done" => delivered = produced

\* Both ends come to an end, whatever drops or fails: the reader thread brings
\* what happens to the connection to wherever run() is blocked (_reader).
BothEnd == <>(spc = "over" /\ rpc = "over")

\* They do unless every credit of the edge is out for good: the only way left to
\* wait for ever (_Sender.run).
EndOrStarve == BothEnd \/ <>[](credits = 0)

\* Nobody is given up for lost while the network is up and its group runs: a
\* dropped connection is made again, and a slow node is not a lost peer.
LostOnlyInOutage ==
    [][\A g \in Groups : verdict'[g] = "lost" /\ verdict[g] # "lost" =>
          ~up \/ \E h \in Groups : verdict[h] \notin {"none", "done"}]_vars
=============================================================================
