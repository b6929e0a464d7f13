------------------------------ MODULE SysProxy ------------------------------
(***************************************************************************)
(* The system's proxy setting over the lives of Sidegate: serve of         *)
(* core/main.go with its deferred calls, core/sysproxy.go, and how the GUI *)
(* ends the process (quit of gui/src/main.rs).                             *)
(*                                                                         *)
(* The setting is one registry value, AutoConfigURL.  It outlives the      *)
(* process; the two listeners do not.  Other programs and the user may     *)
(* change it at any time, and the process may be killed at any time.       *)
(***************************************************************************)
CONSTANTS
  UserUrl,  \* the values the user's own configuration may have
  Absent,   \* there is no such value
  Pac       \* pacURL, the address of our own script

ASSUME UrlAssumption == Absent \notin UserUrl /\ Pac \notin UserUrl \cup {Absent}

VARIABLES
  url,     \* AutoConfigURL
  at,      \* where the process is; "dead": there is none
  old,     \* serve: the value that restore writes back
  stop,    \* has the connection's context been cancelled?
  quitting, \* is the GUI waiting for the core to end?
  socks,   \* is the SOCKS listener open?
  http,    \* the HTTP listener: "free" when there is none
  wanted,  \* history: what the user last chose
  intact,  \* history: has nothing happened that may lose that choice?
  denied,  \* history: did the registry refuse the last removal of Pac?
  unread,  \* history: did serve fail to read that choice when it was last there?
  end      \* history: how the last process ended

ports   == <<socks, http>>
history == <<wanted, intact, denied, unread, end>>
vars == <<url, at, old, stop, quitting, ports, history>>

Value == UserUrl \cup {Absent}

\* Where a change made by somebody else gets lost: between a read of the
\* setting and the write that depends on it.
Exposed == {"clear", "set", "head", "dial", "up", "restore"}

Go(from, to) == at = from /\ at' = to

-----------------------------------------------------------------------------
(* The start of the process and clearStaleProxy.                           *)

\* A second instance ends at once, see main: there is one process at most.
Launch ==
  /\ Go("dead", "boot")
  /\ stop' = FALSE /\ quitting' = FALSE
  /\ UNCHANGED <<url, old, ports, history>>

\* clearStaleProxy: is the setting ours?  The registry may not let us look.
ReadStale ==
  /\ \/ Go("boot", IF url = Pac THEN "clear" ELSE "idle") /\ UNCHANGED denied
     \/ Go("boot", "idle") /\ denied' = (url = Pac)
  /\ UNCHANGED <<url, old, stop, quitting, ports, wanted, intact, unread, end>>

\* clearStaleProxy: then remove it; an error is ignored.
ClearStale ==
  /\ Go("clear", "idle")
  /\ \/ url' = Absent /\ UNCHANGED denied
     \/ UNCHANGED url /\ denied' = TRUE
  /\ UNCHANGED <<old, stop, quitting, ports, wanted, intact, unread, end>>

-----------------------------------------------------------------------------
(* serve, up to runTunnel.                                                 *)

\* connect, and everything before the listeners; a quitting process takes no
\* more commands.
Connect ==
  /\ ~quitting
  /\ Go("idle", "socks")
  /\ stop' = FALSE
  /\ UNCHANGED <<url, old, quitting, ports, history>>

\* The SOCKS listener; the port may be taken, by another program.
ListenSocks ==
  /\ \/ Go("socks", "http") /\ socks' = TRUE
     \/ Go("socks", "idle") /\ UNCHANGED socks
  /\ UNCHANGED <<url, old, stop, quitting, http, history>>

\* The HTTP listener, and go hs.Serve(hln); the port may be taken, also by a
\* listener of our own that is not closed yet.
ListenHttp ==
  /\ \/ Go("http", "read") /\ http = "free" /\ http' = "bound"
     \/ Go("http", "closesocks") /\ UNCHANGED http
  /\ UNCHANGED <<url, old, stop, quitting, socks, history>>

\* setSystemProxy cannot open the key; serve gives up.
OpenFails ==
  /\ Go("read", "closehttp")
  /\ UNCHANGED <<url, old, stop, quitting, ports, history>>

\* setSystemProxy: o is what restore shall write back.
Remember(o, failed) ==
  /\ Go("read", "set")
  /\ old' = o
  /\ unread' = IF url = wanted THEN failed ELSE unread
  /\ UNCHANGED <<url, stop, quitting, ports, wanted, intact, denied, end>>

\* Mutant: what a killed run left is remembered like any other value.
ReadOldBlind == OpenFails \/ Remember(url, FALSE) \/ Remember(Absent, TRUE)

\* setSystemProxy: remember the setting.  What a killed run left counts as none; so
\* does a value that cannot be read, since GetStringValue's error does not end
\* setSystemProxy but makes restore delete the value.
ReadOld ==
  \/ OpenFails
  \/ Remember(IF url = Pac THEN Absent ELSE url, FALSE)
  \/ Remember(Absent, TRUE)

\* setSystemProxy: overwrite it.
SetPac ==
  /\ \/ Go("set", "head") /\ url' = Pac
     \/ Go("set", "closehttp") /\ UNCHANGED url
  /\ UNCHANGED <<old, stop, quitting, ports, history>>

-----------------------------------------------------------------------------
(* runTunnel, of which only the way out matters here.                      *)

Tunnel(from, to) == Go(from, to) /\ UNCHANGED <<url, old, stop, quitting, ports, history>>

\* Mutants: no look at the context; no deferred restore.
TunnelHeadForever == Tunnel("head", "dial")
TunnelHeadNoRestore == Tunnel("head", IF stop THEN "closehttp" ELSE "dial")

TunnelHead == Tunnel("head", IF stop THEN "restore" ELSE "dial")

\* openTunnel: a tunnel, a rejected session, or another error (with the wait
\* after it).
Dial == Tunnel("dial", "up") \/ Tunnel("dial", "restore") \/ Tunnel("dial", "head")

TunnelDown == Tunnel("up", "head")

-----------------------------------------------------------------------------
(* serve's deferred calls, last one first.                                 *)

\* restore writes v; the registry may not let it.
RestoreTo(v) ==
  /\ Go("restore", "closehttp")
  /\ \/ url' = v /\ denied' = FALSE /\ UNCHANGED intact
     \/ UNCHANGED url /\ denied' = TRUE /\ intact' = FALSE
  /\ UNCHANGED <<old, stop, quitting, ports, wanted, unread, end>>

\* Mutant: restore deletes the value whatever it was.
RestoreDelete == RestoreTo(Absent)

Restore == RestoreTo(old)

\* Mutant: the server is left open.
CloseHttpNever == Tunnel("closehttp", "closesocks")

\* hs.Close closes the listener of a server that has started; otherwise Serve
\* does, once it runs.
CloseHttp ==
  /\ Go("closehttp", "closesocks")
  /\ http' = IF http = "bound" THEN "closing" ELSE "free"
  /\ UNCHANGED <<url, old, stop, quitting, socks, history>>

\* Mutant: the listener is left open.
CloseSocksNever == Tunnel("closesocks", "idle")

\* ln.Close.
CloseSocks ==
  /\ Go("closesocks", "idle")
  /\ socks' = FALSE
  /\ UNCHANGED <<url, old, stop, quitting, http, history>>

\* The goroutine of hs.Serve starts.
ServeHttp ==
  /\ \/ http = "bound" /\ http' = "serving"
     \/ http = "closing" /\ http' = "free"
  /\ UNCHANGED <<url, at, old, stop, quitting, socks, history>>

-----------------------------------------------------------------------------
(* The GUI, the user and the rest of the machine.                          *)

\* disconnect cancels the context.
Disconnect ==
  /\ at # "dead" /\ ~stop
  /\ stop' = TRUE
  /\ UNCHANGED <<url, at, old, quitting, ports, history>>

\* quit: the core disconnects, and the GUI waits.
Quit ==
  /\ at # "dead" /\ ~quitting
  /\ quitting' = TRUE /\ stop' = TRUE
  /\ UNCHANGED <<url, at, old, ports, history>>

\* The process ends, and its listeners with it; a setting that was ours is then
\* cleared, not restored.
Dies(how) ==
  /\ at # "dead"
  /\ at' = "dead"
  /\ end' = how
  /\ socks' = FALSE /\ http' = "free"
  /\ intact' = (intact /\ (url = Pac => wanted = Absent))
  /\ UNCHANGED <<url, old, stop, quitting, wanted, denied, unread>>

\* The core has said "exited".
Exit == quitting /\ at = "idle" /\ Dies("quit")

\* Five seconds are over.  Of all that serve does after a cancellation only
\* openTunnel takes that long: it waits 15 s for an answer, to connect for as long
\* as the system does, and in the TLS handshake for as long as the gateway likes.
ExitAtDeadline == quitting /\ at = "dial" /\ Dies("quit")

Kill == Dies("killed")

\* The window is closed (Alt+F4): run_native returns, and main, without quit.
CloseWindow == ~quitting /\ Dies("closed")

\* The user, or a program of theirs, changes the setting.
UserSets ==
  /\ \E v \in Value :
       /\ v # url
       /\ url' = v /\ wanted' = v
  /\ intact' = (at \notin Exposed)
  /\ denied' = FALSE /\ unread' = FALSE
  /\ UNCHANGED <<at, old, stop, quitting, ports, end>>

-----------------------------------------------------------------------------

Init ==
  /\ url \in Value
  /\ at = "dead"
  /\ old = Absent
  /\ stop = FALSE /\ quitting = FALSE
  /\ socks = FALSE /\ http = "free"
  /\ wanted = url /\ intact = TRUE /\ denied = FALSE /\ unread = FALSE
  /\ end = "none"

Serving ==
  \/ ReadStale \/ ClearStale
  \/ ListenSocks \/ ListenHttp \/ ReadOld \/ SetPac
  \/ TunnelHead \/ Dial \/ TunnelDown
  \/ Restore \/ CloseHttp \/ CloseSocks

Next ==
  \/ Launch \/ Serving \/ Connect \/ ServeHttp
  \/ Disconnect \/ Quit \/ Exit \/ ExitAtDeadline \/ Kill \/ CloseWindow
  \/ UserSets

Spec == Init /\ [][Next]_vars

\* A process that runs takes its steps.  A dial need not end, since openTunnel's
\* handshake has no deadline, and a healthy tunnel may stay up until the context is
\* cancelled.
Fairness ==
  /\ WF_vars(Serving /\ at # "dial" /\ (at = "up" => stop))
  /\ WF_vars(ServeHttp)

FairSpec == Spec /\ Fairness

-----------------------------------------------------------------------------
(* Properties.                                                             *)

\* Types; that our own script is never the value to restore is ReadOld's doing.
TypeOK ==
  /\ url \in Value \cup {Pac}
  /\ at \in Exposed \cup {"dead", "boot", "idle", "socks", "http", "read",
                          "closehttp", "closesocks"}
  /\ old \in Value
  /\ stop \in BOOLEAN /\ quitting \in BOOLEAN
  /\ socks \in BOOLEAN
  /\ http \in {"free", "bound", "serving", "closing"}
  /\ wanted \in Value
  /\ intact \in BOOLEAN /\ denied \in BOOLEAN /\ unread \in BOOLEAN
  /\ end \in {"none", "quit", "killed", "closed"}

\* While Sidegate runs, and the registry did not refuse, the system is only
\* pointed at our script while there is a listener to fetch it from: set after
\* listening, restored before closing, and what a killed run left is cleared
\* first.  (The order of serve and of its deferred calls; clearStaleProxy.)
PacIsServed ==
  url = Pac /\ at \notin {"dead", "boot", "clear"} /\ ~denied
    => http \in {"bound", "serving"}

\* A value that keeps the user's choice: the choice itself, or none at all once
\* serve has failed to read the choice and set it aside.
Kept(v) == v = wanted \/ (unread /\ v = Absent)

\* Between connections, and after the process has ended, the setting is the one
\* the user chose, unless it was changed under a connection, or the process died
\* with a user's own script set aside; if there was none, our own may stay until
\* the next start.  A choice that serve could not read is kept or deleted, never
\* replaced by another value.  (setSystemProxy's restore; clearStaleProxy.)
UserSettingKept ==
  at \notin Exposed /\ intact /\ ~denied
    => \/ Kept(url)
       \/ url = Pac /\ wanted = Absent /\ at \in {"dead", "boot"}

\* No connection leaves a listener behind: the next one may listen again.
NoListenerLeft ==
  at \in {"dead", "boot", "idle"} => ~socks /\ http \in {"free", "closing"}

\* A disconnect gives the system its proxy back, unless a dial never ends.
RoutingEnds == stop ~> url # Pac \/ denied \/ at = "dead" \/ [](at = "dial")

\* The HTTP port is free again some time after a connection has ended, even if
\* its server had not started.  (hs.Close and hs.Serve.)
PortIsFreed == at = "idle" ~> http = "free" \/ at # "idle"

\* Expected to fail: quitting restores the system proxy.  (main.rs: "Ask the
\* core to tear down (restores system proxy), wait for it, then exit.")
QuitRestores == at = "dead" /\ end = "quit" /\ ~denied => url # Pac

=============================================================================
