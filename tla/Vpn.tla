-------------------------------- MODULE Vpn --------------------------------
(***************************************************************************)
(* What the VPN core promises the user of the machine, without goroutines, *)
(* locks or files: at most one connection attempt at a time; traffic is    *)
(* routed to Sidegate only inside an attempt; a session is saved only      *)
(* inside an attempt, and forgotten for good by a logout, which happens    *)
(* only between attempts.  Backend implements it.                          *)
(***************************************************************************)
CONSTANTS
  Attempt,   \* names of connection attempts
  Nobody,    \* no attempt
  Session,   \* login sessions
  NoSession  \* no session

VARIABLES
  owner,   \* the attempt under way, or Nobody
  routed,  \* does the system proxy point at Sidegate?
  saved,   \* the session the next attempt will try first
  gone     \* the sessions the user logged out of

vars == <<owner, routed, saved, gone>>

Init ==
  /\ owner = Nobody
  /\ routed = FALSE
  /\ saved \in Session \cup {NoSession}
  /\ gone = {}

Start(a) ==
  /\ owner = Nobody
  /\ owner' = a
  /\ UNCHANGED <<routed, saved, gone>>

Route ==
  /\ owner # Nobody /\ ~routed
  /\ routed' = TRUE
  /\ UNCHANGED <<owner, saved, gone>>

Unroute ==
  /\ owner # Nobody /\ routed
  /\ routed' = FALSE
  /\ UNCHANGED <<owner, saved, gone>>

\* An attempt ends, with the system proxy restored.
Stop ==
  /\ owner # Nobody /\ ~routed
  /\ owner' = Nobody
  /\ UNCHANGED <<routed, saved, gone>>

\* An attempt saves a session the user has not logged out of.
Save(s) ==
  /\ owner # Nobody
  /\ s \notin gone
  /\ saved' = s
  /\ UNCHANGED <<owner, routed, gone>>

\* Saving may destroy what was saved before.
Lose ==
  /\ owner # Nobody
  /\ saved' = NoSession
  /\ UNCHANGED <<owner, routed, gone>>

Logout ==
  /\ owner = Nobody
  /\ gone' = gone \cup ({saved} \ {NoSession})
  /\ saved' = NoSession
  /\ UNCHANGED <<owner, routed>>

Next ==
  \/ \E a \in Attempt : Start(a)
  \/ Route \/ Unroute \/ Stop
  \/ \E s \in Session : Save(s)
  \/ Lose \/ Logout

Spec == Init /\ [][Next]_vars
=============================================================================
