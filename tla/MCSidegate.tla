----------------------------- MODULE MCSidegate -----------------------------
(* Instances of Sidegate with one gateway.  A channel of one place makes the *)
(* third command in a row block the GUI thread.                             *)
EXTENDS Sidegate

CONSTANTS h1, s1

MCHostOf == [s \in Session |-> h1]
=============================================================================
