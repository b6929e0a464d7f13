---------------------------- MODULE TunnelProofs ----------------------------
(***************************************************************************)
(* Proofs about Tunnel for any number of packets and of connections and    *)
(* for queues of any capacity.  Every packet between the stack and the     *)
(* gateway has a place in one line, Line; a step moves a packet forward in *)
(* it, takes one out or adds a new one at its end.                         *)
(***************************************************************************)
EXTENDS Tunnel, SequenceTheorems, TLAPS

Increasing(s) == \A i, j \in 1..Len(s) : i < j => s[i] < s[j]
Below(s, m) == \A i \in 1..Len(s) : s[i] <= m

\* All packets that were sent and not lost, the oldest first.
Line == wire \o Way

\* Where runTunnel has a connection, and what a writer may hold.
Positions ==
  /\ main \in {"on", "read", "done", "close"} => conn # 0
  /\ main = "on" => writer[conn] = "none"
  /\ \A c \in Conn : writer[c] # "write" => load[c] = 0
  /\ \A c \in Conn : c > conn => writer[c] = "none"
  /\ pump = "send" => held # 0

Sorted == Increasing(Line) /\ Below(Line, made)

Complete == Healthy => (conn = 1 => 1 \in open) /\ Line = taken

IInv == TypeOK /\ Positions /\ NoConnLeftOpen /\ Sorted /\ Complete

-----------------------------------------------------------------------------
(* Sequences of packets.                                                   *)

LEMMA HeadFirst ==
  ASSUME NEW S, NEW s \in Seq(S), s # <<>>
  PROVE  s = <<Head(s)>> \o Tail(s) /\ Head(s) \in S /\ Tail(s) \in Seq(S)
<1>1. Head(s) \in S /\ Tail(s) \in Seq(S) /\ Len(Tail(s)) = Len(s) - 1
      /\ (\A i \in 1..Len(Tail(s)) : Tail(s)[i] = s[i + 1]) /\ Len(s) \in Nat \ {0}
  BY HeadTailProperties, EmptySeq
<1> DEFINE t == <<Head(s)>> \o Tail(s)
<1>2. <<Head(s)>> \in Seq(S) /\ Len(<<Head(s)>>) = 1 /\ <<Head(s)>>[1] = s[1]
  BY <1>1
<1>3. t \in Seq(S) /\ Len(t) = Len(s)
  BY <1>1, <1>2, ConcatProperties
<1>4. \A i \in 1..Len(s) : t[i] = s[i]
  <2> TAKE i \in 1..Len(s)
  <2>1. t[i] = IF i <= 1 THEN <<Head(s)>>[i] ELSE Tail(s)[i - 1]
    BY <1>1, <1>2, ConcatProperties
  <2> QED
    BY <2>1, <1>1, <1>2
<1>5. s = t
  BY <1>3, <1>4, SeqEqual
<1> QED
  BY <1>5, <1>1

\* The same facts of packets, in the form the steps below use.
LEMMA Assoc == \A a, b, c \in Seq(Packet) : a \o (b \o c) = (a \o b) \o c
BY ConcatAssociative, SMTT(30)

LEMMA Closed ==
  /\ \A a, b \in Seq(Packet) : a \o b \in Seq(Packet)
  /\ \A p \in Packet : <<p>> \in Seq(Packet)
BY ConcatProperties

LEMMA Assoc5 ==
  \A a, b, c, d, e \in Seq(Packet) :
    a \o (b \o (c \o (d \o e))) = (((a \o b) \o c) \o d) \o e
<1> TAKE a, b, c, d, e \in Seq(Packet)
<1>1. \A x, y \in Seq(Packet) : a \o (x \o y) = (a \o x) \o y
  BY Assoc
<1>2. \A x, y \in Seq(Packet) : (a \o b) \o (x \o y) = ((a \o b) \o x) \o y
  <2>1. a \o b \in Seq(Packet)
    BY Closed
  <2> QED
    BY <2>1, Assoc, Zenon
<1>3. \A x, y \in Seq(Packet) : ((a \o b) \o c) \o (x \o y) = (((a \o b) \o c) \o x) \o y
  <2>1. a \o b \in Seq(Packet)
    BY Closed
  <2>2. (a \o b) \o c \in Seq(Packet)
    BY <2>1, Closed
  <2> QED
    BY <2>2, Assoc, Zenon
<1>4. d \o e \in Seq(Packet) /\ c \o (d \o e) \in Seq(Packet)
  BY Closed
<1>5. a \o (b \o (c \o (d \o e))) = (a \o b) \o (c \o (d \o e))
  BY <1>1, <1>4
<1>6. (a \o b) \o (c \o (d \o e)) = ((a \o b) \o c) \o (d \o e)
  BY <1>2, <1>4
<1>7. ((a \o b) \o c) \o (d \o e) = (((a \o b) \o c) \o d) \o e
  BY <1>3, <1>4
<1> QED
  BY <1>5, <1>6, <1>7

LEMMA NoneFirst == \A a \in Seq(Packet) : <<>> \o a = a /\ a \o <<>> = a
BY ConcatEmptySeq

LEMMA LastOne == \A a \in Seq(Packet), p \in Packet : Append(a, p) = a \o <<p>>
BY AppendIsConcat

LEMMA FirstOff ==
  ASSUME NEW p \in Packet, NEW r \in Seq(Packet)
  PROVE  <<p>> \o r # <<>> /\ Head(<<p>> \o r) = p /\ Tail(<<p>> \o r) = r
<1> DEFINE s == <<p>> \o r
<1>1. <<p>> \in Seq(Packet) /\ Len(<<p>>) = 1 /\ Len(r) \in Nat
  BY LenProperties
<1>2. s \in Seq(Packet) /\ Len(s) = Len(r) + 1 /\ s[1] = p
      /\ \A k \in 2..Len(s) : s[k] = r[k - 1]
  BY <1>1, ConcatProperties
<1>3. s # <<>>
  BY <1>1, <1>2, EmptySeq
<1> HIDE DEF s
<1>4. Head(s) = p /\ Tail(s) \in Seq(Packet) /\ Len(Tail(s)) = Len(r)
      /\ \A k \in 1..Len(r) : Tail(s)[k] = s[k + 1]
  BY <1>1, <1>2, <1>3, HeadTailProperties
<1>5. \A k \in 1..Len(r) : Tail(s)[k] = r[k]
  BY <1>1, <1>2, <1>4
<1>6. Tail(s) = r
  BY <1>4, <1>5, SeqEqual
<1> QED
  BY <1>3, <1>4, <1>6 DEF s

\* Taking a part out of a sorted line leaves it sorted.
LEMMA TakeOut ==
  ASSUME NEW S, S \subseteq Nat, NEW a \in Seq(S), NEW b \in Seq(S), NEW c \in Seq(S),
         NEW m \in Nat, Increasing(a \o (b \o c)), Below(a \o (b \o c), m)
  PROVE  Increasing(a \o c) /\ Below(a \o c, m)
<1> DEFINE l == a \o (b \o c)
           k == a \o c
           f(i) == IF i <= Len(a) THEN i ELSE i + Len(b)
<1>1. Len(a) \in Nat /\ Len(b) \in Nat /\ Len(c) \in Nat /\ b \o c \in Seq(S)
      /\ Len(b \o c) = Len(b) + Len(c) /\ l \in Seq(S) /\ k \in Seq(S)
      /\ Len(l) = Len(a) + Len(b) + Len(c) /\ Len(k) = Len(a) + Len(c)
  BY ConcatProperties, LenProperties
<1>2. \A i \in 1..Len(k) : f(i) \in 1..Len(l) /\ k[i] = l[f(i)]
  <2> TAKE i \in 1..Len(k)
  <2>1. k[i] = IF i <= Len(a) THEN a[i] ELSE c[i - Len(a)]
    BY <1>1, ConcatProperties
  <2>2. CASE i <= Len(a)
    <3>1. l[i] = a[i]
      BY <1>1, <2>2, ConcatProperties
    <3> QED
      BY <3>1, <2>1, <2>2, <1>1
  <2>3. CASE i > Len(a)
    <3>1. l[i + Len(b)] = (b \o c)[i + Len(b) - Len(a)]
      BY <1>1, <2>3, ConcatProperties
    <3>2. (b \o c)[i + Len(b) - Len(a)] = c[i - Len(a)]
      BY <1>1, <2>3, ConcatProperties
    <3> QED
      BY <3>1, <3>2, <2>1, <2>3, <1>1
  <2> QED
    BY <2>2, <2>3, <1>1
<1>3. \A i, j \in 1..Len(k) : i < j => f(i) < f(j)
  BY <1>1
<1> HIDE DEF l, k, f
<1>4. Increasing(l) /\ Below(l, m)
  BY DEF l
<1>5. Increasing(k) /\ Below(k, m)
  BY <1>2, <1>3, <1>4 DEF Increasing, Below
<1> QED
  BY <1>5 DEF k

\* A packet younger than all keeps the line sorted.
LEMMA AddLast ==
  ASSUME NEW S, S \subseteq Nat, NEW s \in Seq(S), NEW m \in Nat, m + 1 \in S,
         Increasing(s), Below(s, m)
  PROVE  Increasing(Append(s, m + 1)) /\ Below(Append(s, m + 1), m + 1)
<1>0. Len(s) \in Nat /\ \A i \in 1..Len(s) : s[i] \in Nat
  BY ElementOfSeq, LenProperties
<1>1. /\ Len(s) \in Nat /\ Len(Append(s, m + 1)) = Len(s) + 1
      /\ \A i \in 1..Len(s) : Append(s, m + 1)[i] = s[i] /\ s[i] \in Nat
      /\ Append(s, m + 1)[Len(s) + 1] = m + 1
  BY <1>0, AppendProperties
<1> DEFINE t == Append(s, m + 1)
<1> HIDE DEF t
<1>2. \A i \in 1..Len(t) : i \in 1..Len(s) \/ i = Len(s) + 1
  BY <1>1 DEF t
<1>3. Below(t, m + 1)
  BY <1>1, <1>2 DEF Below, t
<1>4. Increasing(t)
  <2> SUFFICES ASSUME NEW i \in 1..Len(t), NEW j \in 1..Len(t), i < j
               PROVE  t[i] < t[j]
    BY DEF Increasing
  <2>1. i \in 1..Len(s)
    BY <1>1, <1>2 DEF t
  <2>2. CASE j \in 1..Len(s)
    BY <2>1, <2>2, <1>1 DEF Increasing, t
  <2>3. CASE j = Len(s) + 1
    <3>1. t[j] = m + 1 /\ t[i] = s[i] /\ s[i] <= m /\ s[i] \in Nat
      BY <2>1, <2>3, <1>1 DEF Below, t
    <3> QED
      BY <3>1
  <2> QED
    BY <1>2, <2>2, <2>3
<1> QED
  BY <1>3, <1>4 DEF t

\* The beginning of a sorted line is sorted.
LEMMA Beginning ==
  ASSUME NEW S, NEW a \in Seq(S), NEW b \in Seq(S), Increasing(a \o b)
  PROVE  Increasing(a)
<1>1. Len(a) \in Nat /\ Len(b) \in Nat /\ Len(a \o b) = Len(a) + Len(b)
      /\ \A i \in 1..Len(a) : (a \o b)[i] = a[i]
  BY ConcatProperties, LenProperties
<1> QED
  BY <1>1 DEF Increasing

-----------------------------------------------------------------------------
(* Types, positions and connections.                                       *)

LEMMA InitInv == Init => IInv
<1> SUFFICES ASSUME Init PROVE IInv
  OBVIOUS
<1> USE TunnelAssumption DEF Init
<1>1. TypeOK
  <2>1. peer \in [Conn -> {"none", "up", "silent", "gone"}]
        /\ writer \in [Conn -> {"none", "select", "write", "end"}]
        /\ load \in [Conn -> 0..Packets]
    OBVIOUS
  <2>2. ctx \in BOOLEAN /\ closed \in BOOLEAN
    BY Zenon
  <2>3. queue \in Seq(Packet) /\ out \in Seq(Packet) /\ taken \in Seq(Packet)
        /\ wire \in Seq(Packet)
    OBVIOUS
  <2>4. Len(queue) = 0 /\ Len(out) = 0
    OBVIOUS
  <2> QED
    BY <2>1, <2>2, <2>3, <2>4 DEF TypeOK
<1>2. Positions /\ NoConnLeftOpen
  BY DEF Positions, NoConnLeftOpen
<1>3. Line = <<>>
  <2>1. Carried = <<>> /\ Held = <<>> /\ <<>> \in Seq(Packet)
    BY DEF Carried, Held
  <2> QED
    BY <2>1, ConcatEmptySeq DEF Line, Way
<1>4. Sorted /\ Complete
  BY <1>3 DEF Sorted, Complete, Healthy, Increasing, Below
<1> QED
  BY <1>1, <1>2, <1>4 DEF IInv

\* A bounded queue of packets gains one at its end or loses its first.
LEMMA Longer ==
  ASSUME NEW s \in Seq(Packet), NEW p \in Packet, NEW cap \in Nat, Len(s) < cap,
         NEW t, t = Append(s, p)
  PROVE  t \in Seq(Packet) /\ Len(t) <= cap
BY AppendProperties, LenProperties

LEMMA Shorter ==
  ASSUME NEW s \in Seq(Packet), s # <<>>, NEW cap \in Nat, Len(s) <= cap,
         NEW t, t = Tail(s)
  PROVE  t \in Seq(Packet) /\ Len(t) <= cap /\ Head(s) \in Packet
BY HeadTailProperties, LenProperties

\* A writer takes a packet, or is done with one.
LEMMA WriterMoves ==
  ASSUME TypeOK, Positions, NEW c \in Conn, writer[c] # "none",
         NEW l \in {"select", "write", "end"}, writer' = [writer EXCEPT ![c] = l],
         NEW p \in 0..Packets, load' = [load EXCEPT ![c] = p],
         l # "write" => p = 0, UNCHANGED <<main, conn, pump, held>>
  PROVE  /\ Positions'
         /\ load' \in [Conn -> 0..Packets]
         /\ writer' \in [Conn -> {"none", "select", "write", "end"}]
<1>1. DOMAIN writer = Conn /\ DOMAIN load = Conn
  BY DEF TypeOK
<1>2. /\ load' \in [Conn -> 0..Packets]
      /\ writer' \in [Conn -> {"none", "select", "write", "end"}]
  BY DEF TypeOK
<1>3. main = "on" => conn # c
  BY DEF Positions
<1>4. \A d \in Conn : writer'[d] # "write" => load'[d] = 0
  BY <1>1 DEF Positions
<1>5. \A d \in Conn : d > conn => writer'[d] = "none"
  BY <1>1 DEF Positions
<1>6. main = "on" => writer'[conn] = "none"
  BY <1>1, <1>3 DEF Positions
<1> QED
  BY <1>2, <1>4, <1>5, <1>6 DEF Positions

LEMMA FrameInv ==
  IInv /\ [Next]_vars => TypeOK' /\ Positions' /\ NoConnLeftOpen'
<1> SUFFICES ASSUME IInv, [Next]_vars
             PROVE  TypeOK' /\ Positions' /\ NoConnLeftOpen'
  OBVIOUS
<1> USE TunnelAssumption DEF IInv, TypeOK, Positions, NoConnLeftOpen, Packet, Conn,
        connVars, stackVars, pumpVars, Step
<1>1. CASE StackSends
  <2>1. made' \in Packet /\ made' \in 0..Packets
    BY <1>1 DEF StackSends
  <2>2. queue' \in Seq(Packet) /\ Len(queue') <= QueueCap /\ taken' \in Seq(Packet)
    <3>1. CASE UNCHANGED <<queue, taken>>
      BY <3>1
    <3>2. CASE Len(queue) < QueueCap /\ queue' = Append(queue, made')
               /\ taken' = Append(taken, made')
      <4>1. queue' \in Seq(Packet) /\ Len(queue') <= QueueCap
        BY <3>2, <2>1, Longer
      <4>2. taken' \in Seq(Packet)
        BY <3>2, <2>1, AppendProperties
      <4> QED
        BY <4>1, <4>2
    <3> QED
      BY <1>1, <3>1, <3>2 DEF StackSends
  <2> QED
    BY <1>1, <2>1, <2>2 DEF StackSends
<1>2. CASE PumpRead
  <2>0. pump = "read" /\ UNCHANGED <<ctx, main, connVars, open, writer, load, made, closed,
                                     taken, out, wire>>
    BY <1>2 DEF PumpRead
  <2>1. CASE queue # <<>> /\ queue' = Tail(queue) /\ held' = Head(queue) /\ pump' = "send"
    <3>1. queue' \in Seq(Packet) /\ Len(queue') <= QueueCap /\ held' \in Packet
      BY <2>1, Shorter
    <3>2. pump' = "send"
      BY <2>1
    <3>3. held' \in 0..Packets /\ held' # 0
      BY <3>1
    <3>4. Positions' /\ NoConnLeftOpen'
      BY <2>0, <3>3
    <3>5. TypeOK'
      BY <2>0, <3>1, <3>2, <3>3
    <3> QED
      BY <3>4, <3>5
  <2>2. CASE pump' = "end" /\ UNCHANGED <<held, queue>>
    BY <2>0, <2>2
  <2> QED
    BY <1>2, <2>1, <2>2 DEF PumpRead
<1>3. CASE PumpSend
  <2>1. held \in Packet
    BY <1>3 DEF PumpSend, PumpTo
  <2>2. out' \in Seq(Packet) /\ Len(out') <= OutCap
    <3>1. CASE Len(out) < OutCap /\ out' = Append(out, held)
      BY <3>1, <2>1, Longer
    <3>2. CASE out' = out
      BY <3>2
    <3> QED
      BY <1>3, <3>1, <3>2 DEF PumpSend, PumpTo
  <2>3. /\ pump' \in {"read", "end"}
        /\ UNCHANGED <<ctx, main, connVars, open, writer, load, stackVars, held, wire>>
    BY <1>3 DEF PumpSend, PumpTo
  <2> QED
    BY <2>2, <2>3
<1>4. CASE Head_
  BY <1>4 DEF Head_
<1>5. CASE OpenTunnel
  <2>1. CASE main' = "on"
    <3>1. conn' = conn + 1 /\ conn' \in Conn /\ open' = open \cup {conn'}
          /\ peer' = [peer EXCEPT ![conn'] = "up"] /\ main = "dial"
      BY <1>5, <2>1 DEF OpenTunnel
    <3>2. peer' \in [Conn -> {"none", "up", "silent", "gone"}]
      BY <3>1
    <3>3. UNCHANGED <<ctx, armed, done, writer, load, stackVars, pumpVars, out, wire>>
      BY <1>5 DEF OpenTunnel
    <3>4. Positions'
      <4>1. conn' > conn /\ conn' # 0
        BY <3>1
      <4>2. \A c \in Conn : c > conn' => writer[c] = "none"
        BY <3>1, <4>1
      <4> QED
        BY <2>1, <3>1, <3>3, <4>1, <4>2
    <3>5. NoConnLeftOpen' /\ open' \subseteq Conn
      BY <2>1, <3>1
    <3>6. TypeOK'
      BY <2>1, <3>1, <3>2, <3>3, <3>5
    <3> QED
      BY <3>4, <3>5, <3>6
  <2>2. CASE main' # "on"
    BY <1>5, <2>2 DEF OpenTunnel
  <2> QED
    BY <2>1, <2>2
<1>6. CASE Backoff
  BY <1>6 DEF Backoff
<1>7. CASE Start
  <2>1. /\ UNCHANGED <<ctx, conn, open, peer, done, load, stackVars, pumpVars, out, wire>>
        /\ main = "on" /\ main' = "read"
        /\ armed' = armed \cup {conn} /\ writer' = [writer EXCEPT ![conn] = "select"]
    BY <1>7 DEF Start, StartWith
  <2>2. conn \in Conn
    BY <2>1
  <2>3. TypeOK'
    BY <2>1, <2>2
  <2>4. Positions' /\ NoConnLeftOpen'
    BY <2>1, <2>2
  <2> QED
    BY <2>3, <2>4
<1>8. CASE ReadFails
  BY <1>8 DEF ReadFails
<1>9. CASE CloseDone
  BY <1>9 DEF CloseDone
<1>10. CASE CloseConn
  BY <1>10 DEF CloseConn
<1>11. CASE Return
  BY <1>11 DEF Return
<1>12. ASSUME NEW c \in Conn, CloseOnCancel(c)
       PROVE  TypeOK' /\ Positions' /\ NoConnLeftOpen'
  BY <1>12 DEF CloseOnCancel
<1>13. ASSUME NEW c \in Conn, WriterSelect(c)
       PROVE  TypeOK' /\ Positions' /\ NoConnLeftOpen'
  <2>0. writer[c] = "select" /\ UNCHANGED <<ctx, main, connVars, open, stackVars, pumpVars,
                                            wire>>
    BY <1>13 DEF WriterSelect
  <2>1. ASSUME NEW p \in 0..Packets, NEW l \in {"write", "end"},
               load' = [load EXCEPT ![c] = p], writer' = [writer EXCEPT ![c] = l],
               l = "end" => p = 0, out' \in Seq(Packet), Len(out') <= OutCap
        PROVE  TypeOK' /\ Positions' /\ NoConnLeftOpen'
    <3>1. /\ load' \in [Conn -> 0..Packets]
          /\ writer' \in [Conn -> {"none", "select", "write", "end"}]
          /\ Positions'
      BY <2>0, <2>1, WriterMoves
    <3>2. TypeOK'
      BY <2>0, <2>1, <3>1
    <3> QED
      BY <2>0, <3>1, <3>2
  <2>2. CASE out # <<>> /\ out' = Tail(out) /\ load' = [load EXCEPT ![c] = Head(out)]
             /\ writer' = [writer EXCEPT ![c] = "write"]
    <3>1. out' \in Seq(Packet) /\ Len(out') <= OutCap /\ Head(out) \in Packet
      BY <2>2, Shorter
    <3> DEFINE p == Head(out)
    <3>2. p \in 0..Packets
      BY <3>1
    <3>3. load' = [load EXCEPT ![c] = p] /\ writer' = [writer EXCEPT ![c] = "write"]
      BY <2>2
    <3> HIDE DEF p
    <3> QED
      BY <2>1, <3>1, <3>2, <3>3
  <2>3. CASE /\ load' = [load EXCEPT ![c] = 0] /\ UNCHANGED out
             /\ writer' = [writer EXCEPT ![c] = "write"]
    <3>1. 0 \in 0..Packets /\ out' \in Seq(Packet) /\ Len(out') <= OutCap
      BY <2>3
    <3> QED
      BY <2>1, <2>3, <3>1
  <2>4. CASE writer' = [writer EXCEPT ![c] = "end"] /\ UNCHANGED <<load, out>>
    <3>1. load' = [load EXCEPT ![c] = 0] /\ 0 \in 0..Packets
          /\ out' \in Seq(Packet) /\ Len(out') <= OutCap
      BY <2>0, <2>4
    <3> QED
      BY <2>1, <2>4, <3>1
  <2> QED
    BY <1>13, <2>2, <2>3, <2>4 DEF WriterSelect
<1>14. ASSUME NEW c \in Conn, Written(c)
       PROVE  TypeOK' /\ Positions' /\ NoConnLeftOpen'
  <2>1. wire' \in Seq(Packet)
    <3>1. load[c] # 0 => Append(wire, load[c]) \in Seq(Packet)
      BY AppendProperties
    <3> QED
      BY <1>14, <3>1 DEF Written
  <2>2. /\ writer[c] = "write" /\ writer' = [writer EXCEPT ![c] = "select"]
        /\ load' = [load EXCEPT ![c] = 0] /\ 0 \in 0..Packets
        /\ UNCHANGED <<ctx, main, connVars, open, stackVars, pumpVars, out>>
    BY <1>14 DEF Written
  <2>3. /\ load' \in [Conn -> 0..Packets]
        /\ writer' \in [Conn -> {"none", "select", "write", "end"}]
        /\ Positions'
    BY <2>2, WriterMoves
  <2>4. TypeOK'
    BY <2>1, <2>2, <2>3
  <2> QED
    BY <2>2, <2>3, <2>4
<1>15. ASSUME NEW c \in Conn, WriteFails(c, "end")
       PROVE  TypeOK' /\ Positions' /\ NoConnLeftOpen'
  <2>1. /\ writer[c] = "write" /\ writer' = [writer EXCEPT ![c] = "end"]
        /\ load' = [load EXCEPT ![c] = 0] /\ 0 \in 0..Packets /\ open' = open \ {c}
        /\ UNCHANGED <<ctx, main, connVars, stackVars, pumpVars, out, wire>>
    BY <1>15 DEF WriteFails
  <2>2. /\ load' \in [Conn -> 0..Packets]
        /\ writer' \in [Conn -> {"none", "select", "write", "end"}]
        /\ Positions'
    BY <2>1, WriterMoves
  <2>3. TypeOK'
    BY <2>1, <2>2
  <2> QED
    BY <2>1, <2>2, <2>3
<1>16. ASSUME NEW c \in Conn, PeerFails(c)
       PROVE  TypeOK' /\ Positions' /\ NoConnLeftOpen'
  <2>1. peer' \in [Conn -> {"none", "up", "silent", "gone"}]
    BY <1>16 DEF PeerFails
  <2>2. TypeOK'
    BY <1>16, <2>1 DEF PeerFails
  <2>3. Positions' /\ NoConnLeftOpen'
    BY <1>16 DEF PeerFails
  <2> QED
    BY <2>2, <2>3
<1>17. CASE Cancel
  <2>1. ctx' = TRUE /\ UNCHANGED <<main, conn, open, peer, armed, done, writer, load, made,
                                  queue, closed, pump, held, out, taken, wire>>
    BY <1>17 DEF Cancel
  <2>2. TypeOK'
    BY <2>1
  <2>3. Positions' /\ NoConnLeftOpen'
    BY <2>1
  <2> QED
    BY <2>2, <2>3
<1>18. CASE UNCHANGED vars
  <2>1. UNCHANGED <<ctx, main, conn, open, peer, armed, done, writer, load, made, queue,
                    closed, pump, held, out, taken, wire>>
    BY <1>18 DEF vars
  <2> QED
    BY <2>1
<1> QED
  BY <1>1, <1>2, <1>3, <1>4, <1>5, <1>6, <1>7, <1>8, <1>9, <1>10, <1>11, <1>12, <1>13,
     <1>14, <1>15, <1>16, <1>17, <1>18 DEF Next, Finished, WriterWrite

-----------------------------------------------------------------------------
(* The line of packets.                                                    *)

LEMMA LineTypes ==
  ASSUME TypeOK, Positions, NoConnLeftOpen
  PROVE  /\ Packet \subseteq Nat /\ made \in Nat
         /\ wire \in Seq(Packet) /\ Carried \in Seq(Packet) /\ out \in Seq(Packet)
         /\ Held \in Seq(Packet) /\ queue \in Seq(Packet) /\ taken \in Seq(Packet)
         /\ Held \o queue \in Seq(Packet) /\ out \o (Held \o queue) \in Seq(Packet)
         /\ Way \in Seq(Packet) /\ Line \in Seq(Packet)
<1> USE TunnelAssumption
<1>1. Packet \subseteq Nat /\ made \in Nat
  BY DEF TypeOK, Packet
<1>2. wire \in Seq(Packet) /\ out \in Seq(Packet) /\ queue \in Seq(Packet)
      /\ taken \in Seq(Packet)
  BY DEF TypeOK
<1>3. Carried \in Seq(Packet)
  <2>1. CASE conn \in open /\ load[conn] # 0
    <3>1. load[conn] \in Packet
      BY <2>1 DEF TypeOK, Packet
    <3> QED
      BY <2>1, <3>1 DEF Carried
  <2>2. CASE ~(conn \in open /\ load[conn] # 0)
    BY <2>2, EmptySeq DEF Carried
  <2> QED
    BY <2>1, <2>2
<1>4. Held \in Seq(Packet)
  <2>1. CASE pump = "send"
    <3>1. held \in Packet
      BY <2>1 DEF TypeOK, Positions, Packet
    <3> QED
      BY <2>1, <3>1 DEF Held
  <2>2. CASE pump # "send"
    BY <2>2, EmptySeq DEF Held
  <2> QED
    BY <2>1, <2>2
<1>5. Held \o queue \in Seq(Packet)
  BY <1>2, <1>4, ConcatProperties
<1>6. out \o (Held \o queue) \in Seq(Packet)
  BY <1>2, <1>5, ConcatProperties
<1>7. Way \in Seq(Packet)
  BY <1>3, <1>6, ConcatProperties DEF Way
<1>8. Line \in Seq(Packet)
  BY <1>2, <1>7, ConcatProperties DEF Line
<1> QED
  BY <1>1, <1>2, <1>3, <1>4, <1>5, <1>6, <1>7, <1>8

\* What a step does to the packets: nothing; the oldest one arrives; one is lost,
\* among the two oldest or after the user disconnected; or one enters, or is
\* refused because the queue is full.
Stays == UNCHANGED <<made, taken, wire>> /\ Way' = Way

Arrives ==
  /\ UNCHANGED <<made, taken, ctx>> /\ Healthy' = Healthy
  /\ \E p \in Packet, r \in Seq(Packet) :
       Way = <<p>> \o r /\ Way' = r /\ wire' = Append(wire, p)

Lost ==
  \E a, c \in Seq(Packet), p \in Packet :
    Way = a \o (<<p>> \o c) /\ Way' = a \o c /\ (Len(a) <= 1 \/ ctx)

Loses == UNCHANGED <<made, taken, wire, ctx>> /\ Lost /\ ~Healthy'

Enters ==
  /\ made' = made + 1 /\ made' \in Packet
  /\ UNCHANGED <<wire, ctx>> /\ Healthy' = Healthy
  /\ \/ taken' = taken /\ Way' = Way /\ Len(queue) >= QueueCap
     \/ taken' = Append(taken, made') /\ Way' = Append(Way, made')

\* The parts of the line that a step leaves alone.
LEMMA CarriedKept ==
  ASSUME UNCHANGED <<conn, open, load>>
  PROVE  Carried' = Carried
BY DEF Carried

LEMMA HeldKept ==
  ASSUME UNCHANGED <<pump, held>>
  PROVE  Held' = Held
BY DEF Held

LEMMA HealthyKept ==
  ASSUME UNCHANGED <<ctx, conn, peer, main>>
  PROVE  Healthy' = Healthy
BY DEF Healthy

\* A writer carries one packet at most.
LEMMA CarriedOne ==
  ASSUME IInv
  PROVE  /\ Carried = <<>> \/ \E p \in Packet : Carried = <<p>>
         /\ Len(Carried) <= 1
<1>1. CASE conn \in open /\ load[conn] # 0
  <2>1. load[conn] \in Packet /\ Carried = <<load[conn]>>
    BY <1>1, TunnelAssumption DEF IInv, TypeOK, Packet, Carried
  <2> QED
    BY <2>1
<1>2. CASE ~(conn \in open /\ load[conn] # 0)
  BY <1>2 DEF Carried
<1> QED
  BY <1>1, <1>2

\* A packet whose connection is closed, or whose writer has given up.
LEMMA CarriedLost ==
  ASSUME IInv, UNCHANGED <<out, queue, pump, held>>, Carried' = <<>>
  PROVE  Way' = Way \/ Lost
<1> DEFINE r == out \o (Held \o queue)
<1>1. r \in Seq(Packet) /\ r' = r
  BY LineTypes, HeldKept DEF IInv
<1>2. Way = Carried \o r /\ Way' = <<>> \o r
  BY <1>1 DEF Way
<1> HIDE DEF r
<1>3. <<>> \o r = r /\ <<>> \in Seq(Packet)
  BY <1>1, NoneFirst, EmptySeq
<1>4. CASE Carried = <<>>
  BY <1>2, <1>4
<1>5. ASSUME NEW p \in Packet, Carried = <<p>>
      PROVE  Lost
  <2>1. Way = <<>> \o (<<p>> \o r) /\ Way' = <<>> \o r
    <3>1. <<p>> \o r \in Seq(Packet)
      BY <1>1, Closed
    <3>2. <<>> \o (<<p>> \o r) = <<p>> \o r
      BY <3>1, NoneFirst
    <3> QED
      BY <1>2, <1>5, <3>2
  <2>2. Len(<<>>) <= 1
    OBVIOUS
  <2> QED
    BY <1>1, <1>3, <2>1, <2>2 DEF Lost
<1> QED
  BY <1>4, <1>5, CarriedOne

LEMMA HealthyBefore ==
  ASSUME IInv, [Next]_vars, Healthy'
  PROVE  Healthy /\ (conn' = 1 => 1 \in open')
<1> USE DEF IInv, Positions, Complete, Healthy, NoConnLeftOpen, connVars, stackVars,
        pumpVars, Step
<1>0. conn \in Nat /\ peer \in [Conn -> {"none", "up", "silent", "gone"}]
  BY TunnelAssumption DEF TypeOK
<1>1. CASE StackSends \/ PumpRead \/ PumpSend \/ Finished \/ Cancel
  BY <1>1 DEF StackSends, PumpRead, PumpSend, PumpTo, Finished, vars, Cancel
<1>2. CASE Head_ \/ Backoff \/ Start \/ ReadFails \/ CloseDone \/ Return
  BY <1>2 DEF Head_, Backoff, Start, StartWith, ReadFails, CloseDone, Return
<1>3. CASE OpenTunnel
  BY <1>0, <1>3 DEF OpenTunnel
<1>4. CASE CloseConn
  BY <1>0, <1>4 DEF CloseConn
<1>5. ASSUME NEW c \in Conn, CloseOnCancel(c) \/ WriterSelect(c) \/ Written(c)
      PROVE  Healthy /\ (conn' = 1 => 1 \in open')
  BY <1>5 DEF CloseOnCancel, WriterSelect, Written
<1>6. ASSUME NEW c \in Conn, WriteFails(c, "end")
      PROVE  Healthy /\ (conn' = 1 => 1 \in open')
  <2>1. c <= conn /\ c >= 1 /\ c \in Nat
    BY <1>0, <1>6 DEF WriteFails, Conn
  <2> QED
    BY <1>0, <1>6, <2>1 DEF WriteFails
<1>7. ASSUME NEW c \in Conn, PeerFails(c)
      PROVE  Healthy /\ (conn' = 1 => 1 \in open')
  BY <1>0, <1>7 DEF PeerFails
<1>8. CASE UNCHANGED vars
  BY <1>8 DEF vars
<1> QED
  BY <1>1, <1>2, <1>3, <1>4, <1>5, <1>6, <1>7, <1>8 DEF Next, WriterWrite

LEMMA WayStep ==
  ASSUME IInv, [Next]_vars
  PROVE  Stays \/ Arrives \/ Loses \/ Enters
<1> USE DEF connVars, stackVars, pumpVars
<1>0. /\ wire \in Seq(Packet) /\ Carried \in Seq(Packet) /\ out \in Seq(Packet)
      /\ Held \in Seq(Packet) /\ queue \in Seq(Packet) /\ taken \in Seq(Packet)
      /\ Held \o queue \in Seq(Packet) /\ out \o (Held \o queue) \in Seq(Packet)
      /\ Way \in Seq(Packet) /\ conn \in Nat /\ <<>> \in Seq(Packet)
      /\ Packet \subseteq Nat /\ made \in Nat
  BY LineTypes, EmptySeq, TunnelAssumption DEF IInv, TypeOK
<1>a. /\ Carried \in Seq(Packet) /\ out \in Seq(Packet)
      /\ Held \in Seq(Packet) /\ queue \in Seq(Packet)
  BY <1>0
<1>b. Held \o queue \in Seq(Packet) /\ out \o (Held \o queue) \in Seq(Packet)
  BY <1>0
<1>1. ASSUME UNCHANGED <<conn, open, load, pump, held, made, queue, out, taken, wire>>
      PROVE  Stays
  BY <1>1, CarriedKept, HeldKept DEF Stays, Way
<1>2. CASE StackSends
  <2>1. UNCHANGED <<conn, open, load, pump, held, out, wire, ctx>> /\ Healthy' = Healthy
    BY <1>2, HealthyKept DEF StackSends
  <2>2. made' = made + 1 /\ made' \in Packet
    BY <1>2, <1>0, TunnelAssumption DEF StackSends, Packet
  <2>3. CASE UNCHANGED <<queue, taken>> /\ ~(Len(queue) < QueueCap)
    <3>1. Way' = Way
      BY <2>1, <2>3, CarriedKept, HeldKept DEF Way
    <3>2. Len(queue) >= QueueCap
      BY <1>0, <2>3, LenProperties, TunnelAssumption
    <3> QED
      BY <2>1, <2>2, <2>3, <3>1, <3>2 DEF Enters
  <2>4. CASE queue' = Append(queue, made') /\ taken' = Append(taken, made')
    <3>0. <<made'>> \in Seq(Packet)
      BY <2>2, Closed
    <3>1. /\ queue \o <<made'>> = Append(queue, made')
          /\ Way \o <<made'>> = Append(Way, made')
      BY <1>0, <2>2, LastOne
    <3>2. Held \o (queue \o <<made'>>) = (Held \o queue) \o <<made'>>
      BY <1>a, <3>0, Assoc
    <3>3. out \o ((Held \o queue) \o <<made'>>) = (out \o (Held \o queue)) \o <<made'>>
      BY <1>a, <1>b, <3>0, Assoc, SMTT(20)
    <3>4. Carried \o ((out \o (Held \o queue)) \o <<made'>>) = Way \o <<made'>>
      BY <1>a, <1>b, <3>0, Assoc DEF Way
    <3>5. Way' = Carried \o (out \o (Held \o Append(queue, made')))
      BY <2>1, <2>4, CarriedKept, HeldKept DEF Way
    <3>6. Way' = Append(Way, made')
      BY <3>1, <3>2, <3>3, <3>4, <3>5
    <3> QED
      BY <2>1, <2>2, <2>4, <3>6 DEF Enters
  <2> QED
    BY <1>2, <2>3, <2>4 DEF StackSends
<1>3. CASE PumpRead
  <2>1. UNCHANGED <<conn, open, load, made, out, wire, taken>> /\ pump = "read"
    BY <1>3 DEF PumpRead
  <2>2. CASE pump' = "end" /\ UNCHANGED <<held, queue>>
    <3>1. Held' = Held
      BY <2>1, <2>2 DEF Held
    <3> QED
      BY <2>1, <2>2, <3>1, CarriedKept DEF Stays, Way
  <2>3. CASE queue # <<>> /\ held' = Head(queue) /\ queue' = Tail(queue) /\ pump' = "send"
    <3>1. Held = <<>> /\ Held' = <<Head(queue)>>
      BY <2>1, <2>3 DEF Held
    <3>2. <<Head(queue)>> \o Tail(queue) = queue /\ <<>> \o queue = queue
      BY <1>0, <2>3, HeadFirst, NoneFirst
    <3>3. Held' \o queue' = Held \o queue
      BY <2>3, <3>1, <3>2
    <3> QED
      BY <2>1, <3>3, CarriedKept DEF Stays, Way
  <2> QED
    BY <1>3, <2>2, <2>3 DEF PumpRead
<1>4. CASE PumpSend
  <2>1. UNCHANGED <<conn, open, load, made, queue, taken, held, wire, ctx>> /\ pump = "send"
        /\ Carried' = Carried
    BY <1>4, CarriedKept DEF PumpSend, PumpTo
  <2>2. held \in Packet /\ Held = <<held>>
    BY <2>1, TunnelAssumption DEF Held, IInv, TypeOK, Positions, Packet
  <2>3. CASE out' = Append(out, held) /\ pump' = "read"
    <3>1. Held' = <<>>
      BY <2>3 DEF Held
    <3>2. out \o (<<held>> \o queue) = Append(out, held) \o queue /\ <<>> \o queue = queue
      <4>1. <<held>> \in Seq(Packet) /\ Append(out, held) = out \o <<held>>
        BY <1>0, <2>2, LastOne, Closed
      <4> QED
        BY <1>a, <4>1, Assoc, NoneFirst
    <3>3. out' \o (Held' \o queue') = out \o (Held \o queue)
      BY <2>1, <2>2, <2>3, <3>1, <3>2
    <3> QED
      BY <2>1, <3>3 DEF Stays, Way
  <2>4. CASE ctx /\ out' = out /\ pump' = "end"
    <3> DEFINE a == Carried \o out
    <3>1. a \in Seq(Packet)
      BY <1>a, Closed
    <3>2. Held' = <<>> /\ <<>> \o queue = queue /\ <<held>> \o queue \in Seq(Packet)
      BY <1>0, <2>2, <2>4, NoneFirst, Closed DEF Held
    <3>3. Way = a \o (<<held>> \o queue) /\ Way' = a \o queue
      <4>1. \A r \in Seq(Packet) : Carried \o (out \o r) = a \o r
        BY <1>a, Assoc
      <4> QED
        BY <1>a, <2>1, <2>2, <2>4, <3>2, <4>1 DEF Way
    <3> HIDE DEF a
    <3>4. Lost
      BY <1>a, <2>2, <2>4, <3>1, <3>3 DEF Lost
    <3>5. ~Healthy'
      BY <2>1, <2>4 DEF Healthy
    <3> QED
      BY <2>1, <3>4, <3>5 DEF Loses
  <2> QED
    BY <1>4, <2>3, <2>4 DEF PumpSend, PumpTo
<1>5. CASE Head_ \/ Backoff \/ Start \/ ReadFails \/ CloseDone \/ Return \/ Cancel
  BY <1>1, <1>5 DEF Head_, Backoff, Start, StartWith, ReadFails, CloseDone, Return, Cancel
<1>6. CASE OpenTunnel
  <2>1. UNCHANGED <<load, pump, held, made, queue, out, taken, wire>> /\ open = {}
        /\ main = "dial"
    BY <1>6 DEF OpenTunnel, IInv, NoConnLeftOpen, Step
  <2>2. CASE UNCHANGED <<conn, open>>
    BY <1>1, <2>1, <2>2
  <2>3. CASE conn < Conns /\ conn' = conn + 1
    <3>1. conn' \in Conn /\ conn' > conn
      BY <1>0, <2>3, TunnelAssumption DEF Conn
    <3>2. load'[conn'] = 0
      BY <2>1, <3>1 DEF IInv, Positions
    <3>3. Carried = <<>> /\ Carried' = <<>>
      BY <2>1, <3>2 DEF Carried
    <3> QED
      BY <2>1, <3>3, HeldKept DEF Stays, Way
  <2> QED
    BY <1>6, <2>2, <2>3 DEF OpenTunnel
<1>7. CASE CloseConn
  <2>1. UNCHANGED <<ctx, conn, load, pump, held, made, queue, out, taken, wire>>
        /\ main' = "head" /\ conn # 0 /\ Carried' = <<>>
    BY <1>7 DEF CloseConn, Carried, IInv, Positions, Step
  <2>2. ~Healthy'
    BY <1>0, <2>1 DEF Healthy
  <2> QED
    BY <2>1, <2>2, CarriedLost DEF Stays, Loses
<1>8. ASSUME NEW c \in Conn, CloseOnCancel(c)
      PROVE  Stays \/ Loses
  <2>1. UNCHANGED <<ctx, conn, load, pump, held, made, queue, out, taken, wire>>
        /\ ~Healthy' /\ open' = open \ {c}
    BY <1>8 DEF CloseOnCancel, Healthy
  <2>2. Carried' = Carried \/ Carried' = <<>>
    BY <2>1 DEF Carried
  <2>3. CASE Carried' = Carried
    BY <2>1, <2>3, HeldKept DEF Stays, Way
  <2> QED
    BY <2>1, <2>2, <2>3, CarriedLost DEF Stays, Loses
<1>9. ASSUME NEW c \in Conn, WriterSelect(c)
      PROVE  Stays \/ Loses
  <2>1. UNCHANGED <<ctx, conn, open, pump, held, made, queue, taken, wire>>
        /\ writer[c] = "select" /\ load[c] = 0 /\ load \in [Conn -> 0..Packets]
    BY <1>9 DEF WriterSelect, IInv, Positions, TypeOK
  <2>2. CASE out' = out /\ (load' = load \/ load' = [load EXCEPT ![c] = 0])
    <3>1. load' = load
      BY <2>1, <2>2
    <3> QED
      BY <1>1, <2>1, <2>2, <3>1
  <2>3. CASE out # <<>> /\ out' = Tail(out) /\ load' = [load EXCEPT ![c] = Head(out)]
    <3> DEFINE h == Head(out)
               t == Tail(out)
               r == Held \o queue
    <3>0. out = <<h>> \o t /\ h \in Packet /\ t \in Seq(Packet)
      BY <1>0, <2>3, HeadFirst
    <3>1. out = <<h>> \o t /\ h \in Packet /\ t \in Seq(Packet) /\ <<h>> \in Seq(Packet)
          /\ h # 0
      BY <3>0, Closed DEF Packet
    <3>2. load' = [load EXCEPT ![c] = h] /\ out' = t /\ Held' = Held
      BY <2>1, <2>3, HeldKept
    <3> HIDE DEF h, t
    <3>3. (<<h>> \o t) \o r = <<h>> \o (t \o r) /\ t \o r \in Seq(Packet)
      BY <1>b, <3>1, Assoc, Closed
    <3>4. Way = Carried \o (<<h>> \o (t \o r)) /\ Way' = Carried' \o (t \o r)
      BY <2>1, <3>1, <3>2, <3>3 DEF Way
    <3>5. CASE c = conn /\ conn \in open
      <4>1. Carried = <<>> /\ Carried' = <<h>>
        BY <2>1, <3>1, <3>2, <3>5 DEF Carried
      <4>2. <<>> \o (<<h>> \o (t \o r)) = <<h>> \o (t \o r)
        BY <3>1, <3>3, Closed, NoneFirst
      <4> QED
        BY <2>1, <3>4, <4>1, <4>2 DEF Stays
    <3>6. CASE ~(c = conn /\ conn \in open)
      <4>1. Carried' = Carried
        BY <2>1, <3>2, <3>6 DEF Carried
      <4>2. Lost
        BY <1>a, <3>1, <3>3, <3>4, <4>1, CarriedOne DEF Lost
      <4>3. ~Healthy'
        <5> SUFFICES ASSUME Healthy' PROVE FALSE
          OBVIOUS
        <5>1. conn <= 1 /\ (conn = 1 => 1 \in open)
          BY <2>1, HealthyBefore DEF Healthy
        <5>2. c <= conn /\ c >= 1 /\ c \in Nat
          BY <1>0, <2>1 DEF IInv, Positions, Conn
        <5>3. c = 1 /\ conn = 1
          BY <1>0, <5>1, <5>2
        <5> QED
          BY <3>6, <5>1, <5>3
      <4> QED
        BY <2>1, <4>2, <4>3 DEF Loses
    <3> QED
      BY <3>5, <3>6
  <2> QED
    BY <1>9, <2>2, <2>3 DEF WriterSelect
<1>10. ASSUME NEW c \in Conn, Written(c)
       PROVE  Stays \/ Arrives \/ Loses
  <2>1. UNCHANGED <<ctx, conn, open, pump, held, made, queue, taken, out>> /\ c = conn
        /\ load \in [Conn -> 0..Packets] /\ load' = [load EXCEPT ![c] = 0]
        /\ c \in open /\ Carried' = <<>> /\ Held' = Held /\ Healthy' = Healthy
    BY <1>10, HeldKept, HealthyKept DEF Written, IInv, NoConnLeftOpen, TypeOK, Carried
  <2>2. CASE load[c] = 0
    <3>1. wire' = wire /\ Carried = <<>>
      BY <1>10, <2>1, <2>2 DEF Written, Carried
    <3> QED
      BY <2>1, <3>1 DEF Stays, Way
  <2>3. CASE load[c] # 0 /\ peer[c] = "up"
    <3>1. wire' = Append(wire, load[c]) /\ Carried = <<load[c]>> /\ load[c] \in Packet
      BY <1>10, <2>1, <2>3 DEF Written, Carried, Packet
    <3> DEFINE r == out \o (Held \o queue)
               l == load[c]
    <3>2. l \in Packet /\ r \in Seq(Packet) /\ Carried = <<l>> /\ wire' = Append(wire, l)
      BY <1>0, <3>1
    <3>3. r' = r
      BY <2>1
    <3>4. Way = <<l>> \o r /\ Way' = <<>> \o r
      BY <2>1, <3>2, <3>3 DEF Way
    <3> HIDE DEF r, l
    <3>5. <<>> \o r = r
      BY <3>2, NoneFirst
    <3> QED
      BY <2>1, <3>2, <3>4, <3>5 DEF Arrives
  <2>4. CASE load[c] # 0 /\ peer[c] # "up"
    <3>1. wire' = wire
      BY <1>10, <2>4 DEF Written
    <3>2. ~Healthy'
      BY <1>0, <1>10, <2>1, <2>4 DEF Written, Healthy, Conn
    <3> QED
      BY <2>1, <3>1, <3>2, CarriedLost DEF Stays, Loses
  <2> QED
    BY <2>2, <2>3, <2>4
<1>11. ASSUME NEW c \in Conn, WriteFails(c, "end")
       PROVE  Stays \/ Loses
  <2>1. UNCHANGED <<ctx, conn, peer, main, pump, held, made, queue, taken, out, wire>>
        /\ load \in [Conn -> 0..Packets] /\ load' = [load EXCEPT ![c] = 0]
        /\ open' = open \ {c} /\ writer[c] = "write" /\ Held' = Held
    BY <1>11, HeldKept DEF WriteFails, IInv, TypeOK
  <2>2. CASE c # conn
    <3>1. Carried' = Carried
      BY <2>1, <2>2 DEF Carried
    <3> QED
      BY <2>1, <3>1 DEF Stays, Way
  <2>3. CASE c = conn
    <3>1. Carried' = <<>>
      BY <2>1, <2>3 DEF Carried
    <3>2. ~Healthy'
      <4> SUFFICES ASSUME Healthy' PROVE FALSE
        OBVIOUS
      <4>1. Healthy /\ (conn' = 1 => 1 \in open')
        BY HealthyBefore
      <4>2. conn = 1
        BY <1>0, <2>3, <4>1 DEF Healthy, Conn
      <4> QED
        BY <2>1, <2>3, <4>1, <4>2
    <3> QED
      BY <2>1, <3>1, <3>2, CarriedLost DEF Stays, Loses
  <2> QED
    BY <2>2, <2>3
<1>12. ASSUME NEW c \in Conn, PeerFails(c)
       PROVE  Stays
  BY <1>1, <1>12 DEF PeerFails
<1>13. CASE UNCHANGED vars
  BY <1>1, <1>13 DEF vars
<1> QED
  BY <1>2, <1>3, <1>4, <1>5, <1>6, <1>7, <1>8, <1>9, <1>10, <1>11, <1>12, <1>13
     DEF Next, WriterWrite, Finished

\* What that means for the line: it stays, loses a part, or grows at its end.
LEMMA LineStep ==
  ASSUME IInv, [Next]_vars
  PROVE  \/ made' = made /\ taken' = taken /\ Line' = Line
         \/ /\ made' = made /\ ~Healthy'
            /\ \E a, b, c \in Seq(Packet) : Line = a \o (b \o c) /\ Line' = a \o c
         \/ /\ made' = made + 1 /\ made' \in Packet
            /\ \/ taken' = taken /\ Line' = Line
               \/ taken' = Append(taken, made') /\ Line' = Append(Line, made')
<1>0. wire \in Seq(Packet) /\ Way \in Seq(Packet)
  BY LineTypes DEF IInv
<1>1. CASE Stays
  BY <1>1 DEF Stays, Line
<1>2. CASE Arrives
  <2>1. PICK p \in Packet, r \in Seq(Packet) :
          Way = <<p>> \o r /\ Way' = r /\ wire' = Append(wire, p)
    BY <1>2 DEF Arrives
  <2>2. <<p>> \in Seq(Packet) /\ wire' = wire \o <<p>>
    BY <1>0, <2>1, Closed, LastOne
  <2>3. wire \o (<<p>> \o r) = (wire \o <<p>>) \o r
    BY <1>0, <2>2, Assoc
  <2>4. Line' = Line
    BY <2>1, <2>2, <2>3 DEF Line
  <2> QED
    BY <1>2, <2>4 DEF Arrives
<1>3. CASE Loses
  <2>1. PICK a \in Seq(Packet), c \in Seq(Packet), p \in Packet :
          Way = a \o (<<p>> \o c) /\ Way' = a \o c
    BY <1>3 DEF Loses, Lost
  <2>2. <<p>> \in Seq(Packet) /\ <<p>> \o c \in Seq(Packet) /\ wire \o a \in Seq(Packet)
    BY <1>0, Closed
  <2>3. \A x \in Seq(Packet) : wire \o (a \o x) = (wire \o a) \o x
    BY <1>0, Assoc
  <2>4. Line = (wire \o a) \o (<<p>> \o c) /\ Line' = (wire \o a) \o c
    BY <1>3, <2>1, <2>2, <2>3 DEF Line, Loses
  <2> QED
    BY <1>3, <2>2, <2>4 DEF Loses
<1>4. CASE Enters
  <2>1. CASE taken' = taken /\ Way' = Way
    BY <1>4, <2>1 DEF Enters, Line
  <2>2. CASE taken' = Append(taken, made') /\ Way' = Append(Way, made')
    <3>1. made' \in Packet /\ wire' = wire
      BY <1>4 DEF Enters
    <3>2. <<made'>> \in Seq(Packet) /\ wire \o Way \in Seq(Packet)
      BY <1>0, <3>1, Closed
    <3>3. Append(Way, made') = Way \o <<made'>>
          /\ Append(Line, made') = (wire \o Way) \o <<made'>>
      BY <1>0, <3>1, <3>2, LastOne DEF Line
    <3>4. wire \o (Way \o <<made'>>) = (wire \o Way) \o <<made'>>
      BY <1>0, <3>2, Assoc
    <3>5. Line' = Append(Line, made')
      BY <2>2, <3>1, <3>3, <3>4 DEF Line
    <3> QED
      BY <1>4, <2>2, <3>5 DEF Enters
  <2> QED
    BY <1>4, <2>1, <2>2 DEF Enters
<1> QED
  BY <1>1, <1>2, <1>3, <1>4, WayStep

-----------------------------------------------------------------------------

LEMMA StepInv == IInv /\ [Next]_vars => IInv'
<1> SUFFICES ASSUME IInv, [Next]_vars PROVE IInv'
  OBVIOUS
<1>1. TypeOK' /\ Positions' /\ NoConnLeftOpen'
  BY FrameInv
<1>2. Packet \subseteq Nat /\ made \in Nat /\ Line \in Seq(Packet)
  BY LineTypes DEF IInv
<1>3. Increasing(Line) /\ Below(Line, made)
  BY DEF IInv, Sorted
<1>4. CASE made' = made /\ taken' = taken /\ Line' = Line
  <2>1. Sorted'
    BY <1>3, <1>4 DEF Sorted
  <2>2. Complete'
    BY <1>4, HealthyBefore DEF IInv, Complete
  <2> QED
    BY <1>1, <2>1, <2>2 DEF IInv
<1>5. CASE /\ made' = made /\ ~Healthy'
           /\ \E a, b, c \in Seq(Packet) : Line = a \o (b \o c) /\ Line' = a \o c
  <2>1. PICK a \in Seq(Packet), b \in Seq(Packet), c \in Seq(Packet) :
          Line = a \o (b \o c) /\ Line' = a \o c
    BY <1>5
  <2>2. Increasing(a \o (b \o c)) /\ Below(a \o (b \o c), made)
    BY <1>3, <2>1
  <2>3. Increasing(a \o c) /\ Below(a \o c, made)
    BY <1>2, <2>2, TakeOut
  <2>4. Sorted' /\ Complete'
    BY <1>5, <2>1, <2>3 DEF Sorted, Complete
  <2> QED
    BY <1>1, <2>4 DEF IInv
<1>6. CASE made' = made + 1 /\ made' \in Packet /\ taken' = taken /\ Line' = Line
  <2>1. \A i \in 1..Len(Line) : Line[i] \in Nat
    BY <1>2, ElementOfSeq
  <2>2. Below(Line, made')
    BY <1>2, <1>3, <1>6, <2>1 DEF Below
  <2>3. Sorted'
    BY <1>3, <1>6, <2>2 DEF Sorted
  <2>4. Complete'
    BY <1>6, HealthyBefore DEF IInv, Complete
  <2> QED
    BY <1>1, <2>3, <2>4 DEF IInv
<1>7. CASE /\ made' = made + 1 /\ made' \in Packet
           /\ taken' = Append(taken, made') /\ Line' = Append(Line, made')
  <2>1. Sorted'
    BY <1>2, <1>3, <1>7, AddLast DEF Sorted
  <2>2. Complete'
    BY <1>7, HealthyBefore DEF IInv, Complete
  <2> QED
    BY <1>1, <2>1, <2>2 DEF IInv
<1> QED
  BY <1>4, <1>5, <1>6, <1>7, LineStep

-----------------------------------------------------------------------------
(* The theorems.                                                           *)

LEMMA Invariance == Spec => []IInv
BY InitInv, StepInv, PTL DEF Spec

\* Types, and the bounds of the two queues.
THEOREM TunnelTypes == Spec => []TypeOK
<1>1. IInv => TypeOK
  BY DEF IInv
<1> QED
  BY <1>1, Invariance, PTL

\* runTunnel never has a connection besides the current one, and none when it
\* dials, waits or has returned (c.Close before the next turn of the loop).
THEOREM OneConnAtATime == Spec => []NoConnLeftOpen
<1>1. IInv => NoConnLeftOpen
  BY DEF IInv
<1> QED
  BY <1>1, Invariance, PTL

\* The gateway never receives a packet twice or after a later one, however often
\* the tunnel is reopened and however many writers read the channel.
THEOREM OrderIsKept == Spec => []InOrder
<1>1. IInv => InOrder
  <2> SUFFICES ASSUME IInv PROVE InOrder
    OBVIOUS
  <2>1. wire \in Seq(Packet)
    BY LineTypes DEF IInv
  <2>2. Way \in Seq(Packet)
    BY LineTypes DEF IInv
  <2>3. Increasing(wire \o Way)
    BY DEF IInv, Sorted, Line
  <2>4. Increasing(wire)
    BY <2>1, <2>2, <2>3, Beginning
  <2> QED
    BY <2>4 DEF Increasing, InOrder
<1> QED
  BY <1>1, Invariance, PTL

\* Between the stack's queue and the gateway nothing is lost while the first
\* connection is up (the pump waits for room in out, and so does the writer).
THEOREM NothingIsLost == Spec => []NoLossWhileUp
<1>1. IInv => NoLossWhileUp
  <2> SUFFICES ASSUME IInv, Healthy
               PROVE  wire \o Loaded \o out \o Held \o queue = taken
    BY DEF NoLossWhileUp, Healthy
  <2>1. /\ wire \in Seq(Packet) /\ Carried \in Seq(Packet) /\ out \in Seq(Packet)
        /\ Held \in Seq(Packet) /\ queue \in Seq(Packet)
    BY LineTypes DEF IInv
  <2>2. Line = taken /\ (conn = 1 => 1 \in open)
    BY DEF IInv, Complete
  <2>3. Loaded = Carried
    <3>1. conn # 1 => conn = 0 /\ conn \notin open
      BY TunnelAssumption DEF Healthy, IInv, TypeOK, Conn
    <3> QED
      BY <2>2, <3>1 DEF Loaded, Carried
  <2>4. Line = (((wire \o Carried) \o out) \o Held) \o queue
    <3>1. wire \in Seq(Packet) /\ Carried \in Seq(Packet)
      BY <2>1
    <3>2. \A c, d, e \in Seq(Packet) :
            wire \o (Carried \o (c \o (d \o e))) = (((wire \o Carried) \o c) \o d) \o e
      BY <3>1, Assoc5
    <3>3. out \in Seq(Packet) /\ Held \in Seq(Packet) /\ queue \in Seq(Packet)
      BY <2>1
    <3> QED
      BY <3>2, <3>3 DEF Line, Way
  <2> QED
    BY <2>2, <2>3, <2>4
<1> QED
  BY <1>1, Invariance, PTL
-----------------------------------------------------------------------------
(* The abstract specification.                                             *)

\* A sequence without the element between two parts of it.
LEMMA TakenOut ==
  ASSUME NEW a \in Seq(Packet), NEW c \in Seq(Packet), NEW p \in Packet,
         NEW s, s = a \o (<<p>> \o c)
  PROVE  /\ Len(a) + 1 \in 1..Len(s)
         /\ a \o c = TheLink!Without(s, Len(a) + 1)
<1> DEFINE d == <<p>> \o c
           w == TheLink!Without(s, Len(a) + 1)
<1>1. <<p>> \in Seq(Packet) /\ Len(<<p>>) = 1 /\ Len(a) \in Nat /\ Len(c) \in Nat
  BY LenProperties
<1>2. d \in Seq(Packet) /\ Len(d) = Len(c) + 1
      /\ \A k \in 2..Len(c) + 1 : d[k] = c[k - 1]
  BY <1>1, ConcatProperties
<1> HIDE DEF d
<1>3. s \in Seq(Packet) /\ Len(s) = Len(a) + Len(c) + 1
      /\ (\A k \in 1..Len(a) : s[k] = a[k])
      /\ \A k \in Len(a) + 1..Len(s) : s[k] = d[k - Len(a)]
  BY <1>1, <1>2, ConcatProperties DEF d
<1>4. a \o c \in Seq(Packet) /\ Len(a \o c) = Len(a) + Len(c)
      /\ (\A k \in 1..Len(a) : (a \o c)[k] = a[k])
      /\ \A k \in Len(a) + 1..Len(a) + Len(c) : (a \o c)[k] = c[k - Len(a)]
  BY <1>1, ConcatProperties
<1>5. w = [k \in 1..Len(s) - 1 |-> IF k < Len(a) + 1 THEN s[k] ELSE s[k + 1]]
  BY DEF TheLink!Without
<1>6. w \in Seq(Packet) /\ Len(w) = Len(a) + Len(c)
  <2>1. PICK n \in Nat : n = Len(a) + Len(c)
    BY <1>1
  <2>2. w = [k \in 1..n |-> IF k < Len(a) + 1 THEN s[k] ELSE s[k + 1]]
    <3>1. n = Len(s) - 1
      BY <1>1, <1>3, <2>1
    <3> QED
      BY <1>5, <3>1
  <2>3. \A k \in 1..n + 1 : s[k] \in Packet
    BY <1>1, <1>3, <2>1, ElementOfSeq
  <2>4. \A k \in 1..n : k \in 1..n + 1 /\ k + 1 \in 1..n + 1
    BY <2>1
  <2> HIDE DEF w
  <2>5. w \in [1..n -> Packet]
    BY <2>2, <2>3, <2>4
  <2>6. w \in Seq(Packet)
    BY <2>5, SeqDef
  <2>7. Len(w) = n
    <3>1. DOMAIN w = 1..n /\ DOMAIN w = 1..Len(w) /\ Len(w) \in Nat
      BY <2>5, <2>6, LenProperties
    <3>2. Len(w) \in 1..n \/ Len(w) = 0
      BY <3>1
    <3>3. n \in 1..Len(w) \/ n = 0
      BY <2>1, <3>1
    <3>4. Len(w) \leq n
      BY <2>1, <3>1, <3>2
    <3>5. n \leq Len(w)
      BY <2>1, <3>1, <3>3
    <3> QED
      BY <2>1, <3>1, <3>4, <3>5
  <2> QED
    BY <2>1, <2>6, <2>7
<1>7. \A k \in 1..Len(a) + Len(c) : w[k] = (a \o c)[k]
  <2> TAKE k \in 1..Len(a) + Len(c)
  <2>1. w[k] = IF k < Len(a) + 1 THEN s[k] ELSE s[k + 1]
    <3>1. k \in 1..Len(s) - 1
      BY <1>1, <1>3
    <3> HIDE DEF w
    <3> QED
      BY <1>5, <3>1
  <2>2. CASE k < Len(a) + 1
    <3>1. k \in 1..Len(a)
      BY <1>1, <2>2
    <3>2. s[k] = a[k] /\ (a \o c)[k] = a[k]
      BY <1>3, <1>4, <3>1
    <3> QED
      BY <2>1, <2>2, <3>2
  <2>3. CASE ~(k < Len(a) + 1)
    <3>1. k + 1 \in Len(a) + 1..Len(s) /\ k + 1 - Len(a) \in 2..Len(c) + 1
          /\ k \in Len(a) + 1..Len(a) + Len(c) /\ (k + 1 - Len(a)) - 1 = k - Len(a)
      BY <1>1, <1>3, <2>3
    <3>2. s[k + 1] = d[k + 1 - Len(a)]
      BY <1>3, <3>1, SMTT(20)
    <3>3. d[k + 1 - Len(a)] = c[k - Len(a)]
      BY <1>2, <3>1
    <3>4. (a \o c)[k] = c[k - Len(a)]
      BY <1>4, <3>1
    <3> QED
      BY <2>1, <2>3, <3>2, <3>3, <3>4
  <2> QED
    BY <2>2, <2>3
<1> HIDE DEF w
<1>8. a \o c = w
  BY <1>4, <1>6, <1>7, SeqEqual
<1> QED
  BY <1>1, <1>3, <1>8 DEF w

\* The context stays cancelled once it is.
LEMMA CtxStep ==
  ASSUME [Next]_vars
  PROVE  ctx' = ctx \/ ctx' = TRUE
BY DEF Next, vars, Finished, StackSends, PumpRead, PumpSend, PumpTo, Head_, OpenTunnel,
   Backoff, Start, StartWith, ReadFails, CloseDone, CloseConn, Return, CloseOnCancel,
   WriterSelect, WriterWrite, Written, WriteFails, Cancel, PeerFails

LEMMA StepOfLink == IInv /\ [Next]_vars => [TheLink!Next]_(TheLink!vars)
<1> SUFFICES ASSUME IInv, [Next]_vars PROVE [TheLink!Next]_(TheLink!vars)
  OBVIOUS
<1>0. /\ Way \in Seq(Packet) /\ out \in Seq(Packet) /\ Held \in Seq(Packet)
      /\ queue \in Seq(Packet) /\ Carried \in Seq(Packet)
      /\ Held \o queue \in Seq(Packet) /\ out \o (Held \o queue) \in Seq(Packet)
  BY LineTypes DEF IInv
<1>b. Healthy \in BOOLEAN /\ Healthy' \in BOOLEAN
  BY Zenon DEF Healthy
<1>1. CASE Stays
  <2>1. Healthy' => Healthy /\ ~ctx'
    BY HealthyBefore DEF Healthy
  <2>2. CASE Healthy'
    <3>1. Healthy' = Healthy /\ ctx' = ctx
      BY <2>1, <2>2, CtxStep, <1>b
    <3> QED
      BY <1>1, <3>1 DEF Stays, TheLink!vars
  <2>3. CASE ~Healthy' /\ ctx' = ctx
    <3>1. Healthy' = FALSE
      BY <1>b, <2>3
    <3>2. TheLink!Fail
      BY <1>1, <2>3, <3>1 DEF Stays, TheLink!Fail
    <3> QED
      BY <3>2 DEF TheLink!Next
  <2>4. CASE ~Healthy' /\ ctx' = TRUE
    <3>1. Healthy' = FALSE
      BY <1>b, <2>4
    <3>2. TheLink!Disconnect
      BY <1>1, <2>4, <3>1 DEF Stays, TheLink!Disconnect
    <3> QED
      BY <3>2 DEF TheLink!Next
  <2> QED
    BY <2>2, <2>3, <2>4, CtxStep
<1>2. CASE Arrives
  <2>1. PICK p \in Packet, r \in Seq(Packet) :
          Way = <<p>> \o r /\ Way' = r /\ wire' = Append(wire, p)
    BY <1>2 DEF Arrives
  <2>2. Way # <<>> /\ Head(Way) = p /\ Tail(Way) = r
    BY <2>1, FirstOff
  <2>3. TheLink!Deliver
    BY <1>2, <2>1, <2>2 DEF Arrives, TheLink!Deliver
  <2> QED
    BY <2>3 DEF TheLink!Next
<1>3. CASE Loses
  <2>1. PICK a \in Seq(Packet), c \in Seq(Packet), p \in Packet :
          Way = a \o (<<p>> \o c) /\ Way' = a \o c /\ (Len(a) <= 1 \/ ctx)
    BY <1>3 DEF Loses, Lost
  <2> DEFINE i == Len(a) + 1
  <2>2. i \in 1..Len(Way) /\ Way' = TheLink!Without(Way, i)
    BY <2>1, TakenOut
  <2>3. i <= 2 \/ ctx
    BY <2>1, LenProperties
  <2> HIDE DEF i
  <2>4. Healthy' = FALSE
    BY <1>3, <1>b DEF Loses
  <2>5. TheLink!Lose(i)
    BY <1>3, <2>2, <2>3, <2>4 DEF Loses, TheLink!Lose
  <2> QED
    BY <2>2, <2>5 DEF TheLink!Next
<1>4. CASE Enters
  <2>1. CASE Way' = Append(Way, made')
    <3>1. TheLink!Send
      BY <1>4, <2>1 DEF Enters, TheLink!Send
    <3> QED
      BY <3>1 DEF TheLink!Next
  <2>2. CASE Way' = Way /\ Len(queue) >= QueueCap
    <3>1. Len(Held \o queue) = Len(Held) + Len(queue)
          /\ Len(out \o (Held \o queue)) = Len(out) + Len(Held \o queue)
          /\ Len(Way) = Len(Carried) + Len(out \o (Held \o queue))
      BY <1>0, ConcatProperties DEF Way
    <3>2. Len(Held) \in Nat /\ Len(queue) \in Nat /\ Len(out) \in Nat /\ Len(Carried) \in Nat
      BY <1>0, LenProperties
    <3>3. Len(Way) >= QueueCap
      BY <2>2, <3>1, <3>2, TunnelAssumption
    <3>4. TheLink!Refuse
      BY <1>4, <2>2, <3>3 DEF Enters, TheLink!Refuse
    <3> QED
      BY <3>4 DEF TheLink!Next
  <2> QED
    BY <1>4, <2>1, <2>2 DEF Enters
<1> QED
  BY <1>1, <1>2, <1>3, <1>4, WayStep

\* Every behaviour of the goroutines, queues and connections is one of the link:
\* packets enter at one end and arrive in order at the other; reopening the
\* tunnel loses none of those that wait.
THEOREM TunnelImplementsLink == Spec => ImplementsLink
<1>1. Init => TheLink!Init
  <2> SUFFICES ASSUME Init PROVE TheLink!Init
    OBVIOUS
  <2>1. Way = <<>>
    <3>1. Carried = <<>> /\ Held = <<>> /\ queue = <<>> /\ out = <<>>
      BY DEF Init, Carried, Held
    <3>2. <<>> \in Seq(Packet)
      BY EmptySeq
    <3> QED
      BY <3>1, <3>2, NoneFirst DEF Way
  <2>2. Healthy = TRUE
    BY DEF Init, Healthy
  <2> QED
    BY <2>1, <2>2 DEF Init, TheLink!Init
<1>2. IInv /\ [Next]_vars => [TheLink!Next]_(TheLink!vars)
  BY StepOfLink
<1> QED
  BY <1>1, <1>2, Invariance, PTL DEF Spec, ImplementsLink, TheLink!Spec

-----------------------------------------------------------------------------
(* What the ends of runTunnel and of the writers rest on.  That they come is *)
(* CancelEnds and WritersEnd, of the scheduler's fairness; here is that they *)
(* are near, and that nobody on the way waits for what does not come.        *)

\* How many steps of its own runTunnel still takes, at most, once the context is
\* cancelled.
StepsLeft(l) ==
  CASE l = "dial" -> 7 [] l = "on" -> 6 [] l = "read" -> 5 [] l = "done" -> 4
    [] l = "close" -> 3 [] l = "backoff" -> 3 [] l = "head" -> 2 [] l = "return" -> 1
    [] l = "end" -> 0

\* Every step of a cancelled runTunnel brings it nearer to its end: of all that a
\* connection needs it can only complete a dial it is in.
CancelCountsDown ==
  [][ctx => ctx' /\ (main' # main => StepsLeft(main') < StepsLeft(main))]_vars

\* The labels at which runTunnel has no connection.
Between == {"head", "dial", "backoff", "return", "end"}

\* The read loop of a cancelled runTunnel, the only step that may wait, is ended by
\* the context's callback, if it has no reason of its own to end; and a writer left
\* behind by its connection finds that closed, and done to take.  (AfterFunc; the
\* order of close(done), stop and c.Close.)
NobodyIsLeft ==
  /\ ctx /\ main = "read" => conn \in armed \/ MustFail
  /\ \A c \in Conn : writer[c] \in {"select", "write"} /\ (c # conn \/ main \in Between)
       => c \in done /\ c \notin open

\* What a connection is tied to, while it is read and after it.
Attached ==
  /\ main = "read" /\ conn \in open => conn \in armed
  /\ \A c \in Conn : c < conn \/ (c = conn /\ main \in Between \cup {"close"}) => c \in done

LEMMA AttachedStep == IInv /\ Attached /\ [Next]_vars => Attached'
<1> SUFFICES ASSUME IInv, Attached, [Next]_vars PROVE Attached'
  OBVIOUS
<1>a. /\ conn \in Nat /\ conn' \in Nat
      /\ open \in SUBSET Conn /\ armed \in SUBSET Conn /\ done \in SUBSET Conn
      /\ \A c \in Conn : c \in Nat
  <2>1. TypeOK /\ TypeOK'
    BY StepInv DEF IInv
  <2>2. conn \in 0..Conns /\ conn' \in 0..Conns
    BY <2>1 DEF TypeOK
  <2>3. open \in SUBSET Conn /\ armed \in SUBSET Conn /\ done \in SUBSET Conn
    BY <2>1 DEF TypeOK
  <2>4. \A c \in Conn : c \in Nat
    BY TunnelAssumption DEF Conn
  <2> QED
    BY <2>2, <2>3, <2>4, TunnelAssumption
<1> USE <1>a DEF Attached, Between
<1>1. CASE StackSends \/ PumpRead \/ PumpSend \/ Cancel
  BY <1>1 DEF StackSends, PumpRead, PumpSend, PumpTo, Cancel, connVars
<1>2. CASE Head_ \/ Backoff \/ ReadFails \/ Return
  BY <1>2 DEF Head_, Backoff, ReadFails, Return, Step, connVars
<1>3. CASE OpenTunnel
  BY <1>3 DEF OpenTunnel, Step
<1>4. CASE Start
  BY <1>4 DEF Start, StartWith, Step
<1>5. CASE CloseDone \/ CloseConn
  BY <1>5 DEF CloseDone, CloseConn, Step, connVars
<1>6. ASSUME NEW c \in Conn, CloseOnCancel(c) PROVE Attached'
  BY <1>6 DEF CloseOnCancel
<1>7. ASSUME NEW c \in Conn, WriterSelect(c) \/ WriterWrite(c) \/ PeerFails(c)
      PROVE  Attached'
  BY <1>7 DEF WriterSelect, WriterWrite, Written, WriteFails, PeerFails, connVars
<1>8. CASE UNCHANGED vars
  BY <1>8 DEF vars, connVars
<1> QED
  BY <1>1, <1>2, <1>3, <1>4, <1>5, <1>6, <1>7, <1>8 DEF Next, Finished

LEMMA AttachedHolds == Spec => []Attached
<1>1. Init => Attached
  BY TunnelAssumption DEF Init, Attached, Conn, Between
<1> QED
  BY <1>1, AttachedStep, Invariance, PTL DEF Spec

\* Whatever the network does, nothing holds up a cancelled runTunnel or a writer
\* without a connection.
THEOREM NobodyIsLeftHolds == Spec => []NobodyIsLeft
<1>1. ASSUME IInv, Attached PROVE NobodyIsLeft
  <2>1. ctx /\ main = "read" => conn \in armed \/ MustFail
    BY <1>1 DEF Attached, MustFail
  <2>2. ASSUME NEW c \in Conn, writer[c] \in {"select", "write"},
               c # conn \/ main \in Between
        PROVE  c \in done /\ c \notin open
    <3>1. c \in Nat /\ conn \in Nat /\ c <= conn
      BY <1>1, <2>2, TunnelAssumption DEF IInv, TypeOK, Positions, Conn
    <3> QED
      BY <1>1, <2>2, <3>1 DEF IInv, NoConnLeftOpen, Attached, Between
  <2> QED
    BY <2>1, <2>2 DEF NobodyIsLeft
<1> QED
  BY <1>1, Invariance, AttachedHolds, PTL

\* A cancellation is final, and runTunnel is at most seven steps from its end.
THEOREM CancelCountsDownHolds == Spec => CancelCountsDown
<1>1. ASSUME [Next]_vars, ctx, main' # main
      PROVE  StepsLeft(main') < StepsLeft(main)
  <2>1. \/ main = "head" /\ main' = "return"
        \/ main = "dial" /\ main' \in {"on", "return", "backoff"}
        \/ main = "backoff" /\ main' = "head"
        \/ main = "on" /\ main' = "read"
        \/ main = "read" /\ main' = "done"
        \/ main = "done" /\ main' = "close"
        \/ main = "close" /\ main' = "head"
        \/ main = "return" /\ main' = "end"
    <3>1. CASE Head_ \/ OpenTunnel \/ Backoff \/ Start \/ ReadFails \/ CloseDone
               \/ CloseConn \/ Return
      BY <1>1, <3>1 DEF Head_, OpenTunnel, Backoff, Start, StartWith, ReadFails,
         CloseDone, CloseConn, Return, Step
    <3> QED
      BY <1>1, <3>1 DEF Next, vars, Finished, StackSends, PumpRead, PumpSend, PumpTo,
         CloseOnCancel, WriterSelect, WriterWrite, Written, WriteFails, Cancel, PeerFails
  <2> QED
    BY <2>1 DEF StepsLeft
<1>2. [Next]_vars /\ ctx => ctx'
  BY CtxStep
<1>3. [Next]_vars
        => [ctx => ctx' /\ (main' # main => StepsLeft(main') < StepsLeft(main))]_vars
  BY <1>1, <1>2
<1> QED
  BY <1>3, PTL DEF Spec, CancelCountsDown

-----------------------------------------------------------------------------
(* Tunnel implements RunTunnel.                                            *)

Phase ==
  CASE main \in {"dial", "backoff"} -> "open"
    [] main \in {"on", "read", "done", "close"} -> "up"
    [] main = "return" -> "back"
    [] main = "end" -> "out"
    [] OTHER -> main

Life == INSTANCE RunTunnel WITH at <- Phase, off <- ctx

\* The steps of runTunnel, and a cancellation; the other goroutines do not show.
LEMMA LifeStep == [Next]_vars => [Life!Next]_(Life!vars)
<1> SUFFICES ASSUME [Next]_vars PROVE [Life!Next]_(Life!vars)
  OBVIOUS
<1> USE DEF Phase, Life!Next, Life!vars, Life!Go
<1>1. CASE Head_
  BY <1>1 DEF Head_, Step, Life!Look
<1>2. CASE OpenTunnel \/ Backoff
  BY <1>2 DEF OpenTunnel, Backoff, Step, Life!Open
<1>3. CASE Start \/ ReadFails \/ CloseDone
  BY <1>3 DEF Start, StartWith, ReadFails, CloseDone, Step
<1>4. CASE CloseConn
  BY <1>4 DEF CloseConn, Step, Life!Down
<1>5. CASE Return
  BY <1>5 DEF Return, Step, Life!Back
<1>6. CASE Cancel
  BY <1>6 DEF Cancel, Life!Cancel
<1>7. CASE \/ StackSends \/ PumpRead \/ PumpSend \/ UNCHANGED vars
           \/ \E c \in Conn : \/ CloseOnCancel(c) \/ WriterSelect(c) \/ WriterWrite(c)
                              \/ PeerFails(c)
  <2>1. UNCHANGED <<main, ctx>>
    BY <1>7 DEF StackSends, PumpRead, PumpSend, PumpTo, CloseOnCancel, WriterSelect,
       WriterWrite, Written, WriteFails, PeerFails, vars
  <2> QED
    BY <2>1
<1> QED
  BY <1>1, <1>2, <1>3, <1>4, <1>5, <1>6, <1>7 DEF Next, Finished

\* runTunnel with all its connections and goroutines is the loop its callers see.
THEOREM TunnelImplementsRunTunnel == Spec => Life!Spec
<1>1. Init => Life!Init
  BY DEF Init, Phase, Life!Init
<1> QED
  BY <1>1, LifeStep, PTL DEF Spec, Life!Spec
=============================================================================
