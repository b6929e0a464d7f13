------------------------------- MODULE Tunnel -------------------------------
(***************************************************************************)
(* The outbound data path of one connection: runTunnel of core/main.go and *)
(* what it uses of core/netstack.go and core/gp.go.                        *)
(*                                                                         *)
(* A pump moves packets from the network stack's queue to the channel out. *)
(* runTunnel opens one TLS connection after another; each has a writer     *)
(* goroutine that takes packets from out, and a callback of the context    *)
(* that closes it.  Inbound packets keep no state here: of the read loop   *)
(* only its end matters.                                                   *)
(***************************************************************************)
EXTENDS Naturals, Sequences

CONSTANTS
  Packets,   \* how many packets the stack sends (they are numbered)
  Conns,     \* how many connections the gateway accepts at most
  QueueCap,  \* capacity of the stack's queue (1024)
  OutCap     \* capacity of the channel out (256)

ASSUME TunnelAssumption ==
  /\ Packets \in Nat /\ Conns \in Nat
  /\ QueueCap \in Nat \ {0} /\ OutCap \in Nat \ {0}

Packet == 1..Packets
Conn   == 1..Conns

VARIABLES
  ctx,     \* has the context been cancelled?
  main,    \* where runTunnel is
  conn,    \* the last connection opened, 0 for none
  open,    \* the connections not closed at our end
  peer,    \* per connection, its other end: "none" yet, "up", "silent", "gone"
  armed,   \* the connections that a cancellation will close (AfterFunc)
  done,    \* the connections whose channel done is closed
  writer,  \* per connection: where its writer is
  load,    \* per connection: the packet it is writing, 0 for a keepalive
  made,    \* packets the stack has sent
  queue,   \* the stack's queue
  closed,  \* has the stack been closed?
  pump,    \* where the pump is
  held,    \* the packet it holds
  out,     \* the channel out
  taken,   \* history: the packets that entered the queue
  wire     \* history: the packets the gateway received

connVars  == <<conn, peer, armed, done>>
stackVars == <<made, queue, closed, taken>>
pumpVars  == <<pump, held>>
vars == <<ctx, main, connVars, open, writer, load, stackVars, pumpVars, out, wire>>

-----------------------------------------------------------------------------
(* The stack and the pump.                                                 *)

\* The stack sends a packet; a full queue drops it.
StackSends ==
  /\ made < Packets /\ ~closed
  /\ made' = made + 1
  /\ IF Len(queue) < QueueCap
       THEN queue' = Append(queue, made') /\ taken' = Append(taken, made')
       ELSE UNCHANGED <<queue, taken>>
  /\ UNCHANGED <<ctx, main, connVars, open, writer, load, closed, pumpVars, out, wire>>

\* vstack.read: a packet, or nil when the context is done, or when the stack is
\* closed and its queue is empty.
PumpRead ==
  /\ pump = "read"
  /\ \/ /\ queue # <<>>
        /\ held' = Head(queue)
        /\ queue' = Tail(queue)
        /\ pump' = "send"
     \/ /\ ctx \/ (closed /\ queue = <<>>)
        /\ pump' = "end"
        /\ UNCHANGED <<held, queue>>
  /\ UNCHANGED <<ctx, main, connVars, open, writer, load, made, closed, taken, out,
                 wire>>

\* The pump's select: hand the packet over, or give up.
PumpTo(o, l) ==
  /\ pump = "send"
  /\ out' = o
  /\ pump' = l
  /\ UNCHANGED <<ctx, main, connVars, open, writer, load, stackVars, held, wire>>

\* Three mutants: no limit; a default case that drops; no case for the context.
PumpSendUnbounded == PumpTo(Append(out, held), "read") \/ (ctx /\ PumpTo(out, "end"))
PumpSendOrDrop ==
  \/ Len(out) < OutCap /\ PumpTo(Append(out, held), "read")
  \/ Len(out) = OutCap /\ PumpTo(out, "read")
  \/ ctx /\ PumpTo(out, "end")
PumpSendOnly == Len(out) < OutCap /\ PumpTo(Append(out, held), "read")

PumpSend ==
  \/ Len(out) < OutCap /\ PumpTo(Append(out, held), "read")
  \/ ctx /\ PumpTo(out, "end")

-----------------------------------------------------------------------------
(* runTunnel.                                                              *)

Step(from, to) == main = from /\ main' = to

\* Its condition.
Head_ ==
  /\ Step("head", IF ctx THEN "return" ELSE "dial")
  /\ UNCHANGED <<ctx, connVars, open, writer, load, stackVars, pumpVars, out, wire>>

\* openTunnel: a connection, a rejected session, or another error.  It does not
\* look at the context.
OpenTunnel ==
  /\ \/ /\ Step("dial", "on")
        /\ conn < Conns
        /\ conn' = conn + 1
        /\ open' = open \cup {conn'}
        /\ peer' = [peer EXCEPT ![conn'] = "up"]
     \/ (Step("dial", "return") \/ Step("dial", "backoff")) /\ UNCHANGED <<conn, open, peer>>
  /\ UNCHANGED <<ctx, armed, done, writer, load, stackVars, pumpVars, out, wire>>

\* Five seconds, or less when the context is cancelled.
Backoff ==
  /\ Step("backoff", "head")
  /\ UNCHANGED <<ctx, connVars, open, writer, load, stackVars, pumpVars, out, wire>>

\* emit("on"), then context.AfterFunc for the connections a, and the writer.
StartWith(a) ==
  /\ Step("on", "read")
  /\ armed' = armed \cup a
  /\ writer' = [writer EXCEPT ![conn] = "select"]
  /\ UNCHANGED <<ctx, conn, peer, done, open, load, stackVars, pumpVars, out, wire>>

\* Mutant: no AfterFunc.
StartUnarmed == StartWith({})

Start == StartWith({conn})

\* When the read loop must end: our end is closed, the other end is gone, or
\* nothing has arrived for 60 s.
MustFail == conn \notin open \/ peer[conn] # "up"

\* It may end sooner, by a frame that is none.
ReadFails ==
  /\ Step("read", "done")
  /\ UNCHANGED <<ctx, connVars, open, writer, load, stackVars, pumpVars, out, wire>>

\* close(done); stop().
CloseDone ==
  /\ Step("done", "close")
  /\ done' = done \cup {conn}
  /\ armed' = armed \ {conn}
  /\ UNCHANGED <<ctx, conn, peer, open, writer, load, stackVars, pumpVars, out, wire>>

\* Mutant: c is left to its writer.
CloseConnNever ==
  /\ Step("close", "head")
  /\ UNCHANGED <<ctx, connVars, open, writer, load, stackVars, pumpVars, out, wire>>

\* Mutant: a new channel out for every connection.
CloseConnFlush ==
  /\ Step("close", "head")
  /\ open' = open \ {conn}
  /\ out' = <<>>
  /\ UNCHANGED <<ctx, connVars, writer, load, stackVars, pumpVars, wire>>

\* c.Close().
CloseConn ==
  /\ Step("close", "head")
  /\ open' = open \ {conn}
  /\ UNCHANGED <<ctx, connVars, writer, load, stackVars, pumpVars, out, wire>>

\* runTunnel returns, and serve closes the stack.
Return ==
  /\ Step("return", "end")
  /\ closed' = TRUE
  /\ UNCHANGED <<ctx, connVars, open, writer, load, made, queue, taken, pumpVars, out,
                 wire>>

-----------------------------------------------------------------------------
(* The goroutines of a connection.                                         *)

\* The context's callback, in a goroutine of its own.
CloseOnCancel(c) ==
  /\ ctx /\ c \in armed
  /\ open' = open \ {c}
  /\ armed' = armed \ {c}
  /\ UNCHANGED <<ctx, main, conn, peer, done, writer, load, stackVars, pumpVars, out,
                 wire>>

\* The writer's select: a packet, a keepalive when the ticker says so, or done.
WriterSelect(c) ==
  /\ writer[c] = "select"
  /\ \/ /\ out # <<>>
        /\ load' = [load EXCEPT ![c] = Head(out)]
        /\ out' = Tail(out)
        /\ writer' = [writer EXCEPT ![c] = "write"]
     \/ /\ load' = [load EXCEPT ![c] = 0]
        /\ writer' = [writer EXCEPT ![c] = "write"]
        /\ UNCHANGED out
     \/ /\ c \in done
        /\ writer' = [writer EXCEPT ![c] = "end"]
        /\ UNCHANGED <<load, out>>
  /\ UNCHANGED <<ctx, main, connVars, open, stackVars, pumpVars, wire>>

\* c.Write succeeds: the packet arrives, or is lost on a silent network.
Written(c) ==
  /\ writer[c] = "write"
  /\ c \in open /\ peer[c] # "gone"
  /\ wire' = IF load[c] # 0 /\ peer[c] = "up" THEN Append(wire, load[c]) ELSE wire
  /\ writer' = [writer EXCEPT ![c] = "select"]
  /\ load' = [load EXCEPT ![c] = 0]
  /\ UNCHANGED <<ctx, main, connVars, open, stackVars, pumpVars, out>>

\* c.Write fails: close the connection, and on to label l.
WriteFails(c, l) ==
  /\ writer[c] = "write"
  /\ c \notin open \/ peer[c] = "gone"
  /\ open' = open \ {c}
  /\ writer' = [writer EXCEPT ![c] = l]
  /\ load' = [load EXCEPT ![c] = 0]
  /\ UNCHANGED <<ctx, main, connVars, stackVars, pumpVars, out, wire>>

\* Mutant: an error does not end the writer.
WriterWriteOn(c) == Written(c) \/ WriteFails(c, "select")

WriterWrite(c) == Written(c) \/ WriteFails(c, "end")

-----------------------------------------------------------------------------
(* The environment: the user disconnects, the network or the gateway fails. *)

Cancel ==
  /\ ~ctx
  /\ ctx' = TRUE
  /\ UNCHANGED <<main, connVars, open, writer, load, stackVars, pumpVars, out, wire>>

PeerFails(c) ==
  /\ peer[c] \in {"up", "silent"}
  /\ \E s \in {"silent", "gone"} \ {peer[c]} : peer' = [peer EXCEPT ![c] = s]
  /\ UNCHANGED <<ctx, main, conn, armed, done, open, writer, load, stackVars, pumpVars,
                 out, wire>>

-----------------------------------------------------------------------------

Init ==
  /\ ctx = FALSE
  /\ main = "head"
  /\ conn = 0 /\ open = {} /\ armed = {} /\ done = {}
  /\ peer = [c \in Conn |-> "none"]
  /\ writer = [c \in Conn |-> "none"]
  /\ load = [c \in Conn |-> 0]
  /\ made = 0 /\ queue = <<>> /\ closed = FALSE /\ taken = <<>>
  /\ pump = "read" /\ held = 0
  /\ out = <<>> /\ wire = <<>>

Finished == main = "end" /\ UNCHANGED vars

Next ==
  \/ StackSends \/ PumpRead \/ PumpSend
  \/ Head_ \/ OpenTunnel \/ Backoff \/ Start \/ ReadFails \/ CloseDone
  \/ CloseConn \/ Return
  \/ \E c \in Conn : \/ CloseOnCancel(c) \/ WriterSelect(c) \/ WriterWrite(c)
                     \/ PeerFails(c)
  \/ Cancel
  \/ Finished

Spec == Init /\ [][Next]_vars

\* Every goroutine that can run does.  OpenTunnel is left out: its TLS handshake
\* and its write have no deadline, so it need not return.  A write may block for as
\* long as the other end is silent and ours is open, and the read loop of a healthy
\* connection need not end.
Fairness ==
  /\ WF_vars(PumpRead) /\ WF_vars(PumpSend)
  /\ WF_vars(Head_) /\ WF_vars(Backoff) /\ WF_vars(Start)
  /\ WF_vars(ReadFails /\ MustFail) /\ WF_vars(CloseDone) /\ WF_vars(CloseConn)
  /\ WF_vars(Return)
  /\ \A c \in Conn :
       /\ WF_vars(CloseOnCancel(c)) /\ WF_vars(WriterSelect(c))
       /\ WF_vars(WriterWrite(c) /\ (c \in open => peer[c] # "silent"))

FairSpec == Spec /\ Fairness

-----------------------------------------------------------------------------
(* Properties.                                                             *)

TypeOK ==
  /\ ctx \in BOOLEAN
  /\ main \in {"head", "dial", "backoff", "on", "read", "done", "close", "return",
              "end"}
  /\ conn \in 0..Conns
  /\ open \in SUBSET Conn /\ armed \in SUBSET Conn /\ done \in SUBSET Conn
  /\ peer \in [Conn -> {"none", "up", "silent", "gone"}]
  /\ writer \in [Conn -> {"none", "select", "write", "end"}]
  /\ load \in [Conn -> 0..Packets]
  /\ made \in 0..Packets
  /\ queue \in Seq(Packet) /\ Len(queue) <= QueueCap
  /\ closed \in BOOLEAN
  /\ pump \in {"read", "send", "end"}
  /\ held \in 0..Packets
  /\ out \in Seq(Packet) /\ Len(out) <= OutCap
  /\ taken \in Seq(Packet) /\ wire \in Seq(Packet)

\* The gateway receives packets in the order the stack sent them, none twice,
\* across all reconnections: although two writers can read the same channel, the
\* one that is late cannot write any more.  (c.Close before the next dial.)
InOrder == \A i, j \in 1..Len(wire) : i < j => wire[i] < wire[j]

\* No connection is left open behind the current one, nor at all when runTunnel
\* looks for its next step or has returned.
NoConnLeftOpen ==
  /\ open \subseteq {conn}
  /\ main \in {"head", "dial", "backoff", "return", "end"} => open = {}

\* As long as the first connection is healthy and the user stays connected no
\* packet that entered the queue is lost, whatever the goroutines do: a full
\* channel makes the pump wait.
Held == (IF pump = "send" THEN <<held>> ELSE <<>>)
Loaded == IF conn = 1 /\ load[1] # 0 THEN <<load[1]>> ELSE <<>>

Healthy ==
  /\ ~ctx
  /\ conn <= 1
  /\ conn = 1 => peer[1] = "up" /\ main \in {"on", "read", "done"}

NoLossWhileUp == Healthy => wire \o Loaded \o out \o Held \o queue = taken

\* The packets between the stack and the gateway, the oldest first.  That of a
\* writer counts as long as its connection, the current one, is open.
Carried == IF conn \in open /\ load[conn] # 0 THEN <<load[conn]>> ELSE <<>>
Way == Carried \o (out \o (Held \o queue))

\* The data path is a queue that loses packets only after a failure, and then
\* only at its head: neither the writers of earlier connections nor a new dial
\* reorder, repeat or drop what is waiting.
TheLink == INSTANCE Link WITH Room <- QueueCap, way <- Way, got <- wire,
                              good <- Healthy, off <- ctx

ImplementsLink == TheLink!Spec

\* A cancelled runTunnel returns, even from a read of a healthy connection or of one
\* that has fallen silent with a writer stuck in it, unless a dial never ends.
CancelEnds == ctx ~> main = "end" \/ [](main = "dial")

\* No writer outlives its connection for ever, although the next connection may be
\* up, with packets in out for either writer to take, by the time it ends.
WritersEnd == \A c \in Conn : c \in done ~> writer[c] = "end"

\* The pump ends when the user disconnects, even with nobody to take its packet.
PumpEndsOnCancel == ctx ~> pump = "end"
=============================================================================
