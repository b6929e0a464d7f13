----------------------------- MODULE RunTunnel -----------------------------
(***************************************************************************)
(* What the callers of runTunnel (core/main.go) may rely on, without its   *)
(* connections and packets: the context is looked at before every dial and *)
(* nowhere else, it leads straight out, and serve's deferred calls follow. *)
(* Tunnel has all of runTunnel; Backend and SysProxy, which are about      *)
(* other things, have an outline of it.  All three implement this module,  *)
(* so that they speak of the same runTunnel.                               *)
(***************************************************************************)
VARIABLES
  at,  \* "out" of runTunnel, at the "head" of its loop, in openTunnel or the
       \* wait after it ("open"), with a tunnel ("up"), or on the way "back"
  off  \* has the context been cancelled?

vars == <<at, off>>

Go(from, to) == at = from /\ at' \in to /\ UNCHANGED off

Init == at \in {"out", "head"} /\ off = FALSE

Enter == Go("out", {"head"})

\* for ctx.Err() == nil.
Look == Go("head", IF off THEN {"back"} ELSE {"open"})

\* A tunnel, a rejected session, or the next try.
Open == Go("open", {"up", "back", "head"})

Down == Go("up", {"head"})

Back == Go("back", {"out"})

Cancel == off' = TRUE /\ UNCHANGED at

\* The next connection has a context of its own.
Renew == at = "out" /\ off' = FALSE /\ UNCHANGED at

\* The process ends.
Die == at' = "out" /\ UNCHANGED off

Next == Enter \/ Look \/ Open \/ Down \/ Back \/ Cancel \/ Renew \/ Die

Spec == Init /\ [][Next]_vars
=============================================================================
