------------------------------ MODULE Backend ------------------------------
(***************************************************************************)
(* The VPN core of Sidegate: the command loop of core/main.go              *)
(* (serveCommands), the connection goroutines it starts (connect, run,     *)
(* serve, runTunnel), the event lines they emit and the session file they  *)
(* share, together with the two channels of core/lib.go.                   *)
(*                                                                         *)
(* One goroutine is the command loop.  connect starts another one for each *)
(* connection attempt; several can be alive at once, because a goroutine   *)
(* gives up b.cancel before it reports how it ended.  The gateway, the     *)
(* browser and the user are the environment: every call to them may        *)
(* succeed or fail.                                                        *)
(***************************************************************************)
EXTENDS Naturals, Sequences

CONSTANTS
  Host,      \* gateway addresses the user may enter
  NoHost,    \* the empty address
  Session,   \* login sessions the gateway can issue
  NoSession, \* "nil": no usable session
  HostOf,    \* the gateway that issued a session (Session.Host)
  Run,       \* slots for connection goroutines alive at the same time
  Loop,      \* the goroutine of serveCommands
  Nobody,    \* no goroutine: a free mutex, a nil b.cancel
  EventCap   \* capacity of the channel events (64 in lib.go)

ASSUME HostAssumption ==
  /\ NoHost \notin Host
  /\ NoSession \notin Session
  /\ HostOf \in [Session -> Host]

ASSUME ProcAssumption ==
  /\ Loop \notin Run
  /\ Nobody \notin Run \cup {Loop}

ASSUME CapAssumption == EventCap \in Nat \ {0}

VARIABLES
  mu,      \* who holds backend.mu
  ev,      \* backend.ev, the event that emit sends
  cancel,  \* the goroutine whose CancelFunc is in backend.cancel
  out,     \* per goroutine: the state of the emit it is in, "" for none
  events,  \* the channel events
  view,    \* the state in the last line that was received
  loop,    \* where the command loop is
  cmd,     \* the command it is working on
  target,  \* the goroutine disconnect is stopping (its local cancel, done)
  pc,      \* where each connection goroutine is; "idle": its done is closed
  host,    \* its argument host
  sess,    \* its local s
  ctx,     \* has its context been cancelled?
  proxy,   \* the goroutine that holds the listeners and the system proxy
  disk,    \* the session that session.bin decrypts to
  conf,    \* the content of endpoint.txt
  issued,  \* every session issued so far
  wiped    \* every session that a logout removed from the disk

loopVars  == <<loop, cmd, target>>
runVars   == <<pc, host, sess, ctx>>
storeVars == <<disk, conf, issued, wiped>>
vars == <<mu, ev, cancel, out, events, view, loopVars, runVars, proxy, storeVars>>

\* What no step of the command loop changes, and what few of them change.
loopFrame == <<mu, events, view, sess, proxy, issued>>
loopStill == <<loopFrame, ev, cancel, pc, host, ctx, disk, conf, wiped>>

\* What no step of a connection goroutine changes, and what few change.
runFrame == <<mu, events, view, loopVars, ctx, conf, wiped>>
runStill == <<runFrame, ev, cancel, host, disk>>

Proc == Run \cup {Loop}

IdlePage == {"setup", "off"}
Busy     == {"checking", "login", "connecting", "on"}
State    == IdlePage \cup Busy \cup {"exited"}

\* An event, without its message: what a message says is not modelled.  A user
\* and an ip are there or empty.
Event(states) == [state : states, endpoint : Host \cup {NoHost},
                  user : BOOLEAN, ip : BOOLEAN]

Command == [op : {"setup"}, host : Host \cup {NoHost}]
             \cup [op : {"connect", "disconnect", "logout", "quit"},
                   host : {NoHost}]

NoCommand == [op |-> "none", host |-> NoHost]

\* The labels of a goroutine that has not given up b.cancel yet.
Working == {"load", "config", "prelogin", "browser", "login", "config2",
            "save", "publish", "serve", "head", "dial", "backoff", "up",
            "unwind", "clear"}

-----------------------------------------------------------------------------
(* Helpers: the session file, the page for "not connected", and emit.      *)

\* loadSession ignores a session of another gateway.
LoadSession(h) ==
  IF disk # NoSession /\ HostOf[disk] = h THEN disk ELSE NoSession

IdleState(h) == IF LoadSession(h) = NoSession THEN "setup" ELSE "off"

\* Goroutine p calls emit with state s: it stays in that call, and takes no
\* other step, until EmitLock and EmitSend have run.
Emit(p, s) == out' = [out EXCEPT ![p] = s]

Quiet(p) == out[p] = ""

\* emit, first half: lock the mutex and update b.ev.
EmitLock(p) ==
  /\ ~Quiet(p)
  /\ mu = Nobody
  /\ mu' = p
  /\ ev' = [ev EXCEPT !.state = out[p], !.ip = @ /\ out[p] = "on"]
  /\ UNCHANGED <<cancel, out, events, view, loopVars, runVars, proxy, storeVars>>

\* emit, second half: send the line, waiting with the mutex held while the
\* channel is full, and unlock.
Unlock(p) ==
  /\ mu = p
  /\ mu' = Nobody
  /\ out' = [out EXCEPT ![p] = ""]
  /\ UNCHANGED <<ev, cancel, view, loopVars, runVars, proxy, storeVars>>

\* Two mutants: no limit; a select whose default drops the line.
EmitSendUnbounded(p) == events' = Append(events, ev) /\ Unlock(p)
EmitSendOrDrop(p) ==
  /\ events' = IF Len(events) < EventCap THEN Append(events, ev) ELSE events
  /\ Unlock(p)

EmitSend(p) ==
  /\ Len(events) < EventCap
  /\ events' = Append(events, ev)
  /\ Unlock(p)

\* The receiving thread of the GUI, in GpRecv; it returns after "exited".
GpRecv ==
  /\ events # <<>>
  /\ view # "exited"
  /\ view' = Head(events).state
  /\ events' = Tail(events)
  /\ UNCHANGED <<mu, ev, cancel, out, loopVars, runVars, proxy, storeVars>>

-----------------------------------------------------------------------------
(* The command loop.                                                       *)

\* serveCommands up to the loop: load what the disk holds, show a page.
Boot ==
  /\ loop = "boot"
  /\ ev' = [ev EXCEPT !.endpoint = conf,
                      !.user = LoadSession(conf) # NoSession]
  /\ Emit(Loop, IdleState(conf))
  /\ loop' = "recv"
  /\ UNCHANGED <<loopFrame, cancel, cmd, target, pc, host, ctx, disk, conf,
                 wiped>>

\* The loop takes command c and goes on at label l.
Take(c, l) ==
  /\ loop = "recv" /\ Quiet(Loop)
  /\ loop' = l
  /\ cmd' = c
  /\ UNCHANGED <<loopStill, out, target>>

\* A setup with an empty address only emits.
EmptySetup ==
  /\ loop = "recv" /\ Quiet(Loop)
  /\ Emit(Loop, "setup")
  /\ UNCHANGED <<loopStill, loopVars>>

\* Mutant: quit leaves the loop without a disconnect.
ReceiveQuitAtOnce(c) ==
  Take(c, CASE c.op = "setup" -> "setup" [] c.op = "connect" -> "connect"
            [] c.op = "quit"  -> "after" [] OTHER -> "disconnect")

\* The next command; the GUI may have sent any.
Receive(c) ==
  \/ c.op = "setup" /\ c.host = NoHost /\ EmptySetup
  \/ c.op = "setup" /\ c.host # NoHost /\ Take(c, "setup")
  \/ c.op = "connect" /\ Take(c, "connect")
  \/ c.op \in {"disconnect", "logout", "quit"} /\ Take(c, "disconnect")

\* The loop is ready for another command.
NextCommand == loop' = "recv" /\ cmd' = NoCommand

\* setup: an error of os.WriteFile is ignored; it may leave the file as it was
\* or empty.
Setup ==
  /\ loop = "setup"
  /\ mu = Nobody
  /\ conf' \in {cmd.host, conf, NoHost}
  /\ ev' = [ev EXCEPT !.endpoint = cmd.host]
  /\ loop' = "connect"
  /\ UNCHANGED <<loopFrame, cancel, out, cmd, target, pc, host, ctx, disk, wiped>>

\* connect: nothing when a connection is under way or there is no address.
ConnectIgnored ==
  /\ loop = "connect"
  /\ mu = Nobody
  /\ cancel # Nobody \/ ev.endpoint = NoHost
  /\ NextCommand
  /\ UNCHANGED <<loopStill, out, target>>

\* connect: otherwise a goroutine starts, with a context of its own.
Start(r) ==
  /\ loop = "connect"
  /\ mu = Nobody
  /\ pc[r] = "idle"
  /\ cancel' = r
  /\ pc' = [pc EXCEPT ![r] = "load"]
  /\ host' = [host EXCEPT ![r] = ev.endpoint]
  /\ ctx' = [ctx EXCEPT ![r] = FALSE]
  /\ NextCommand
  /\ UNCHANGED <<loopFrame, ev, out, target, disk, conf, wiped>>

\* Mutant: b.cancel is not tested.
ConnectAnyway(r) == ev.endpoint # NoHost /\ Start(r)

Connect(r) == cancel = Nobody /\ ev.endpoint # NoHost /\ Start(r)

\* disconnect, the locked part: whom to stop?
ReadCancel ==
  /\ loop = "disconnect"
  /\ mu = Nobody
  /\ target' = cancel
  /\ loop' = IF cancel = Nobody THEN "after" ELSE "cancel"
  /\ UNCHANGED <<loopStill, out, cmd>>

\* disconnect: cancel(), and then to label l.
CancelThen(l) ==
  /\ loop = "cancel"
  /\ ctx' = [ctx EXCEPT ![target] = TRUE]
  /\ loop' = l
  /\ UNCHANGED <<loopFrame, ev, cancel, out, cmd, target, pc, host, disk, conf,
                 wiped>>

\* Mutant: disconnect does not wait for done.
CancelOnly == CancelThen("after")

Cancel == CancelThen("wait")

\* disconnect: <-done.
AwaitDone ==
  /\ loop = "wait"
  /\ pc[target] = "idle"
  /\ target' = Nobody
  /\ loop' = "after"
  /\ UNCHANGED <<loopStill, out, cmd>>

\* serveCommands, "disconnect": show the idle page.
ShowIdle ==
  /\ Emit(Loop, IdleState(ev.endpoint))
  /\ NextCommand

\* logout: is there a session to end at the gateway?
LogoutSession ==
  /\ cmd.op = "logout"
  /\ loop' = IF LoadSession(ev.endpoint) # NoSession THEN "post" ELSE "wipe"
  /\ UNCHANGED <<out, cmd>>

\* Two mutants: quit breaks out of the switch, not out of the loop; disconnect
\* leaves the page to the goroutine it stopped.
DisconnectedBreak ==
  /\ loop = "after"
  /\ (cmd.op \in {"disconnect", "quit"} /\ ShowIdle) \/ LogoutSession
  /\ UNCHANGED <<loopStill, target>>
DisconnectedSilent ==
  /\ loop = "after"
  /\ \/ cmd.op = "disconnect" /\ NextCommand /\ UNCHANGED out
     \/ cmd.op = "quit" /\ Emit(Loop, "exited") /\ loop' = "exited"
                        /\ UNCHANGED cmd
     \/ LogoutSession
  /\ UNCHANGED <<loopStill, target>>

\* The commands that disconnect first, after that; quit leaves the loop, whose
\* deferred emit says "exited".
Disconnected ==
  /\ loop = "after"
  /\ \/ cmd.op = "disconnect" /\ ShowIdle
     \/ cmd.op = "quit" /\ Emit(Loop, "exited") /\ loop' = "exited"
                        /\ UNCHANGED cmd
     \/ LogoutSession
  /\ UNCHANGED <<loopStill, target>>

\* logout: tell the gateway, whatever it answers.
PostLogout ==
  /\ loop = "post"
  /\ loop' = "wipe"
  /\ UNCHANGED <<loopStill, out, cmd, target>>

\* logout: remove session.bin, of whichever gateway it is.  An error of os.Remove
\* is ignored: the file stays, and the logout goes on.
RemoveSession ==
  /\ loop = "wipe"
  /\ \/ disk' = NoSession /\ wiped' = wiped \cup ({disk} \ {NoSession})
     \/ UNCHANGED <<disk, wiped>>
  /\ loop' = "forget"
  /\ UNCHANGED <<loopFrame, ev, cancel, out, cmd, target, pc, host, ctx, conf>>

\* logout: forget the user and show the setup page.
ForgetUser ==
  /\ loop = "forget"
  /\ mu = Nobody
  /\ ev' = [ev EXCEPT !.user = FALSE]
  /\ Emit(Loop, "setup")
  /\ NextCommand
  /\ UNCHANGED <<loopFrame, cancel, target, pc, host, ctx, disk, conf, wiped>>

-----------------------------------------------------------------------------
(* A connection goroutine: run, serve, runTunnel, and the closure around   *)
(* them in connect.                                                        *)

At(r, l) == pc[r] = l /\ Quiet(r)

Goto(r, l) == pc' = [pc EXCEPT ![r] = l]

\* A step that only moves the goroutine, and one that also emits.
Move(r, l) == Goto(r, l) /\ UNCHANGED <<runStill, out, sess, proxy, issued>>

Tell(r, s, l) ==
  Goto(r, l) /\ Emit(r, s) /\ UNCHANGED <<runStill, proxy, issued>>

\* run: try the saved session first.
Load(r) ==
  /\ At(r, "load")
  /\ LET s == LoadSession(host[r])
     IN  /\ sess' = [sess EXCEPT ![r] = s]
         /\ IF s # NoSession THEN Tell(r, "connecting", "config")
                             ELSE Tell(r, "checking", "prelogin")

\* run: getConfig with the saved session; any error falls back to a login.
Config(r) ==
  /\ At(r, "config")
  /\ \/ Move(r, "publish")
     \/ /\ sess' = [sess EXCEPT ![r] = NoSession]
        /\ Tell(r, "checking", "prelogin")

\* run: prelogin.
Prelogin(r) ==
  /\ At(r, "prelogin")
  /\ (Tell(r, "login", "browser") /\ UNCHANGED sess) \/ Move(r, "clear")

\* browserLogin: the callback, or an error (no browser, no cookie in the
\* callback, ten minutes without one, a cancelled context).  When a callback
\* and a cancellation are both there, select takes either.
BrowserLogin(r) ==
  /\ At(r, "browser")
  /\ (Tell(r, "connecting", "login") /\ UNCHANGED sess) \/ Move(r, "clear")

\* gatewayLogin: the gateway issues a new session, or refuses.
Issue(r, s) ==
  /\ HostOf[s] = host[r]
  /\ sess' = [sess EXCEPT ![r] = s]
  /\ issued' = issued \cup {s}
  /\ Goto(r, "config2")
  /\ UNCHANGED <<runStill, out, proxy>>

GatewayLogin(r) ==
  /\ At(r, "login")
  /\ (\E s \in Session \ issued : Issue(r, s)) \/ Move(r, "clear")

\* run: getConfig with the new session.
Config2(r) ==
  /\ At(r, "config2")
  /\ Move(r, "save") \/ Move(r, "clear")

\* saveSession ignores errors: when DPAPI fails the file stays as it was,
\* when the write fails it is left truncated, which decrypts to nothing.
SaveSession(r) ==
  /\ At(r, "save")
  /\ disk' \in {sess[r], disk, NoSession}
  /\ Goto(r, "publish")
  /\ UNCHANGED <<runFrame, ev, cancel, out, host, sess, proxy, issued>>

\* run: put the user and the tunnel address in b.ev.
Publish(r) ==
  /\ At(r, "publish")
  /\ mu = Nobody
  /\ ev' = [ev EXCEPT !.user = TRUE, !.ip = TRUE]
  /\ Goto(r, "serve")
  /\ UNCHANGED <<runFrame, cancel, out, host, sess, proxy, disk, issued>>

\* serve: the stack, both listeners (their ports must be free) and the
\* system proxy, or an error that leaves none of them behind.
Serve(r) ==
  /\ At(r, "serve")
  /\ \/ /\ proxy = Nobody
        /\ proxy' = r
        /\ Goto(r, "head")
        /\ UNCHANGED <<runStill, out, sess, issued>>
     \/ Move(r, "clear")

\* Mutant: runTunnel loops without a look at the context.
TunnelHeadForever(r) == At(r, "head") /\ Move(r, "dial")

\* runTunnel, the condition of its loop.
TunnelHead(r) == At(r, "head") /\ Move(r, IF ctx[r] THEN "unwind" ELSE "dial")

\* runTunnel, openTunnel: a tunnel, a rejected session, or another error.
OpenTunnel(r) ==
  /\ At(r, "dial")
  /\ \/ Tell(r, "on", "up") /\ UNCHANGED sess
     \/ Move(r, "unwind")
     \/ Tell(r, "connecting", "backoff") /\ UNCHANGED sess

\* runTunnel: five seconds, or until the context is cancelled.
Backoff(r) == At(r, "backoff") /\ Move(r, "head")

\* runTunnel: the read loop ends, because the gateway or the network closed
\* the connection, or because the cancelled context did.
TunnelDown(r) == At(r, "up") /\ Move(r, "head")

\* Mutant: restore is not deferred.
UnwindNoRestore(r) == At(r, "unwind") /\ Move(r, "clear")

\* serve's deferred calls: restore the system proxy, close everything.
Unwind(r) ==
  /\ At(r, "unwind")
  /\ proxy' = Nobody
  /\ Goto(r, "clear")
  /\ UNCHANGED <<runStill, out, sess, issued>>

\* connect's closure: b.cancel = nil.
ClearCancel(r) ==
  /\ At(r, "clear")
  /\ mu = Nobody
  /\ cancel' = Nobody
  /\ Goto(r, "report")
  /\ UNCHANGED <<runFrame, ev, out, host, sess, proxy, disk, issued>>

\* Mutant: an end that nobody asked for is not reported.
ReportNothing(r) == At(r, "report") /\ Move(r, "exit")

\* connect's closure: report the end, unless somebody asked for it.
Report(r) ==
  /\ At(r, "report")
  /\ \/ ctx[r] /\ Move(r, "exit")
     \/ ~ctx[r] /\ Tell(r, IdleState(host[r]), "exit") /\ UNCHANGED sess

\* connect's closure: close(done).  The slot is free for another goroutine.
CloseDone(r) ==
  /\ At(r, "exit")
  /\ Goto(r, "idle")
  /\ host' = [host EXCEPT ![r] = NoHost]
  /\ sess' = [sess EXCEPT ![r] = NoSession]
  /\ UNCHANGED <<runFrame, ev, cancel, out, proxy, disk, issued>>

-----------------------------------------------------------------------------

Init ==
  /\ mu = Nobody
  /\ ev = [state |-> "", endpoint |-> NoHost, user |-> FALSE, ip |-> FALSE]
  /\ cancel = Nobody
  /\ out = [p \in Proc |-> ""]
  /\ events = <<>>
  /\ view = "starting"
  /\ loop = "boot"
  /\ cmd = NoCommand
  /\ target = Nobody
  /\ pc = [r \in Run |-> "idle"]
  /\ host = [r \in Run |-> NoHost]
  /\ sess = [r \in Run |-> NoSession]
  /\ ctx = [r \in Run |-> FALSE]
  /\ proxy = Nobody
  /\ disk \in Session \cup {NoSession}
  /\ conf \in Host \cup {NoHost}
  /\ issued = {disk} \ {NoSession}
  /\ wiped = {}

LoopStep ==
  \/ Boot
  \/ Setup \/ ConnectIgnored
  \/ \E r \in Run : Connect(r)
  \/ ReadCancel \/ Cancel \/ AwaitDone \/ Disconnected
  \/ PostLogout \/ RemoveSession \/ ForgetUser

RunStep(r) ==
  \/ Load(r) \/ Config(r) \/ Prelogin(r) \/ BrowserLogin(r)
  \/ GatewayLogin(r) \/ Config2(r) \/ SaveSession(r) \/ Publish(r)
  \/ Serve(r) \/ TunnelHead(r) \/ OpenTunnel(r) \/ Backoff(r)
  \/ TunnelDown(r) \/ Unwind(r) \/ ClearCancel(r) \/ Report(r)
  \/ CloseDone(r)

\* The GUI ends the process once it has read "exited": only this state is a
\* legitimate end.
Exited == view = "exited" /\ UNCHANGED vars

Next ==
  \/ GpRecv
  \/ \E p \in Proc : EmitLock(p) \/ EmitSend(p)
  \/ \E c \in Command : Receive(c)
  \/ LoopStep
  \/ \E r \in Run : RunStep(r)
  \/ Exited

Spec == Init /\ [][Next]_vars

\* The steps the scheduler owes: Go runs every goroutine that can run, its
\* mutex starves nobody, the receiving thread always receives, and the requests
\* and the browser's login end, by an answer or by a timeout (30 s, 10 min).
\* OpenTunnel is not owed: tls.Dial's handshake and the write after it have no
\* deadline and do not see the context, so a gateway that accepts the connection
\* and says nothing holds it for ever.  A healthy tunnel may stay up for ever,
\* too: it is the cancelled context that brings it down.  Nobody owes the loop a
\* command.
Owed(r) == RunStep(r) /\ pc[r] # "dial" /\ (pc[r] = "up" => ctx[r])

Fairness ==
  /\ WF_vars(GpRecv)
  /\ SF_vars(LoopStep)
  /\ \A p \in Proc : SF_vars(EmitLock(p)) /\ WF_vars(EmitSend(p))
  /\ \A r \in Run : SF_vars(Owed(r))

FairSpec == Spec /\ Fairness

-----------------------------------------------------------------------------
(* Properties.                                                             *)

\* Types: of the backend and its command loop, and of the connection goroutines
\* and the files.
LoopOK ==
  /\ mu \in Proc \cup {Nobody}
  /\ ev \in Event(State \cup {""})
  /\ cancel \in Run \cup {Nobody}
  /\ out \in [Proc -> State \cup {""}]
  /\ events \in Seq(Event(State)) /\ Len(events) <= EventCap
  /\ view \in State \cup {"starting"}
  /\ loop \in {"boot", "recv", "setup", "connect", "disconnect", "cancel",
              "wait", "after", "post", "wipe", "forget", "exited"}
  /\ cmd \in Command \cup {NoCommand}
  /\ target \in Run \cup {Nobody}

RunOK ==
  /\ pc \in [Run -> Working \cup {"idle", "report", "exit"}]
  /\ host \in [Run -> Host \cup {NoHost}]
  /\ sess \in [Run -> Session \cup {NoSession}]
  /\ ctx \in [Run -> BOOLEAN]
  /\ proxy \in Run \cup {Nobody}
  /\ disk \in Session \cup {NoSession}
  /\ conf \in Host \cup {NoHost}
  /\ issued \in SUBSET Session
  /\ wiped \in SUBSET Session

\* The type invariant; that the channel never exceeds its capacity is emit's
\* doing.
TypeOK == LoopOK /\ RunOK

\* At most one connection goroutine works at a time, and it is the one that
\* disconnect would stop; the listeners and the system proxy are only ever
\* held by that one.  (connect's test of b.cancel, the closure's reset of it,
\* serve's deferred calls.)
OneConnection ==
  /\ \A r \in Run : pc[r] \in Working <=> cancel = r
  /\ proxy # Nobody => proxy = cancel

\* A session that a logout has removed is gone: it is not written back to the
\* disk, and no connection goroutine that is still working uses it.  (logout
\* waits for the goroutine before it removes the file.)
LoggedOutStaysOut ==
  /\ disk \notin wiped
  /\ \A r \in Run : pc[r] \in Working => sess[r] \notin wiped

\* The labels at which page s tells the truth: from its emit to the next one, or
\* to the end of the attempt.
Stage(s) ==
  {"clear", "report"} \cup
  CASE s = "checking"   -> {"prelogin"}
    [] s = "login"      -> {"browser"}
    [] s = "connecting" -> {"config", "login", "config2", "save", "publish", "serve",
                            "head", "dial", "backoff", "unwind"}
    [] s = "on"         -> {"up", "head", "dial", "unwind"}

\* A busy page is true: unless a disconnect or an emit is under way, what the
\* page says is what a connection goroutine is doing, and the one it speaks of
\* is still to report its end.  So no busy page, "on" above all, stays behind
\* when its attempt is over.  (The closure reports unless its context was
\* cancelled, and then whoever cancelled it emits.)
BusyPageIsTrue ==
  /\ loop \in {"recv", "setup", "connect", "disconnect"}
  /\ \A p \in Proc : Quiet(p)
  /\ ev.state \in Busy
  => \E r \in Run : pc[r] \in Stage(ev.state)

\* The lines reach the GUI in the order in which b.ev changed: once no emit is
\* under way, the last line sent shows the state of b.ev.  (emit sends before
\* it unlocks.)
LastLineIsCurrent ==
  LET last == IF events = <<>> THEN view ELSE events[Len(events)].state
  IN  mu = Nobody /\ ev.state # "" => last = ev.state

\* When "exited" is on its way nothing of the connection is left: the proxy
\* settings are restored and the goroutine is past its work.  (quit
\* disconnects first.)
ExitIsClean ==
  loop = "exited" => proxy = Nobody /\ \A r \in Run : pc[r] \notin Working

\* The core keeps the promises of Vpn: one attempt at a time, traffic routed to
\* Sidegate only inside an attempt, a session saved only inside an attempt and
\* forgotten by a logout only between attempts.
Core == INSTANCE Vpn WITH
  Attempt <- Run,
  owner   <- cancel,
  routed  <- (proxy # Nobody),
  saved   <- disk,
  gone    <- wiped

ImplementsVpn == Core!Spec

\* The goroutine that disconnect waits for is inside openTunnel.
InDial == loop = "wait" /\ pc[target] = "dial"

\* The loop always comes back from disconnect, whatever the goroutine it waits
\* for is doing, unless that one never leaves openTunnel: neither the mutex nor a
\* full channel nor any other call can hold it.  (disconnect: <-done, without a
\* timeout.)
DisconnectReturns ==
  loop = "disconnect" ~> loop \in {"recv", "exited"} \/ []InDial

\* A quit that the loop has taken reaches the GUI as the line "exited", unless a
\* dial never ends.
QuitIsAnswered == cmd.op = "quit" ~> view = "exited" \/ []InDial

\* A disconnect that the loop has taken shows the user a page that is not
\* connected, whatever lines are still on their way, unless a dial never ends.
DisconnectIsShown == cmd.op = "disconnect" ~> view \in IdlePage \/ []InDial
=============================================================================
