-------------------------------- MODULE Link --------------------------------
(***************************************************************************)
(* What the tunnel promises the network stack, without queues, goroutines  *)
(* or connections: packets reach the gateway one at a time, in the order   *)
(* they were sent.  A packet is refused only on entry, when enough others  *)
(* are under way.  None is lost as long as nothing has gone wrong; after   *)
(* that only one of the two oldest can be, unless the user has             *)
(* disconnected: opening the tunnel again does not empty the queues.       *)
(* Tunnel implements it.                                                   *)
(***************************************************************************)
EXTENDS Naturals, Sequences

CONSTANT Room  \* the packets the link has room for, whatever happens

VARIABLES
  made,  \* packets sent (they are numbered)
  way,   \* the packets under way, the oldest first
  got,   \* the packets the gateway received
  good,  \* has nothing gone wrong so far?
  off    \* has the user disconnected?

vars == <<made, way, got, good, off>>

\* s without its element i.
Without(s, i) == [k \in 1..Len(s) - 1 |-> IF k < i THEN s[k] ELSE s[k + 1]]

Init ==
  /\ made = 0 /\ way = <<>> /\ got = <<>>
  /\ good = TRUE /\ off = FALSE

Send ==
  /\ made' = made + 1
  /\ way' = Append(way, made')
  /\ UNCHANGED <<got, good, off>>

Refuse ==
  /\ Len(way) >= Room
  /\ made' = made + 1
  /\ UNCHANGED <<way, got, good, off>>

Deliver ==
  /\ way # <<>>
  /\ got' = Append(got, Head(way))
  /\ way' = Tail(way)
  /\ UNCHANGED <<made, good, off>>

\* A packet is lost, which ends the good times if nothing else did.
Lose(i) ==
  /\ i <= 2 \/ off
  /\ way' = Without(way, i)
  /\ good' = FALSE
  /\ UNCHANGED <<made, got, off>>

\* A connection fails, or the next one is opened.
Fail ==
  /\ good' = FALSE
  /\ UNCHANGED <<made, way, got, off>>

Disconnect ==
  /\ off' = TRUE /\ good' = FALSE
  /\ UNCHANGED <<made, way, got>>

Next ==
  \/ Send \/ Refuse \/ Deliver
  \/ \E i \in 1..Len(way) : Lose(i)
  \/ Fail \/ Disconnect

Spec == Init /\ [][Next]_vars
=============================================================================
