--------------------------- MODULE BackendProofs ---------------------------
(***************************************************************************)
(* Proofs about Backend, for any sets of gateways, sessions and goroutine  *)
(* slots and any capacity of the channel.  IInv strengthens the invariants *)
(* of Backend to an inductive one.                                         *)
(***************************************************************************)
EXTENDS Backend, SequenceTheorems, TLAPS

\* The labels at which the command loop has stopped the connection, if any.
Disconnecting == {"after", "post", "wipe", "forget", "exited"}

\* The command loop emits only where it takes commands, and at the end.
LoopQuiet == loop \notin {"recv", "exited"} => Quiet(Loop)

\* Whoever holds the mutex over a send is the goroutine whose state b.ev shows.
HolderEmits == mu # Nobody => out[mu] # "" /\ ev.state = out[mu]

\* disconnect knows whom to stop, and nobody is left once it has.
StopsTheRightOne ==
  /\ loop \in {"cancel", "wait"} => target \in Run /\ cancel \in {target, Nobody}
  /\ loop \in Disconnecting => cancel = Nobody

\* The proxy is held between serve and its deferred calls.
Serving == {"head", "dial", "backoff", "up", "unwind"}

ProxyInServe == proxy # Nobody => pc[proxy] \in Serving

\* Sessions come from the gateway, and a slot that is free keeps none.
SessionsAreIssued ==
  /\ wiped \subseteq issued
  /\ disk \in issued \cup {NoSession}
  /\ \A r \in Run : /\ sess[r] \in issued \cup {NoSession}
                    /\ pc[r] = "idle" => sess[r] = NoSession

\* A context is cancelled only by a disconnect that waits for its goroutine.
CancelledIsAwaited ==
  \A r \in Run : ctx[r] /\ pc[r] # "idle" => loop = "wait" /\ target = r

\* Only a goroutine at work emits a busy state, and it is what it is doing.
BusyIsWorking ==
  /\ out[Loop] \notin Busy
  /\ \A r \in Run : out[r] \in Busy => pc[r] \in Stage(out[r]) \ {"report"}

\* Who is going to replace a busy page s that is or will be wrong: the goroutine
\* it speaks of, a command that has stopped one, or an emit under way.
Owes(r, s) == pc[r] \in Stage(s) /\ (pc[r] = "report" => ~ctx[r])

LoopOwes == loop \in {"cancel", "wait", "after", "post", "wipe", "forget", "exited"}

Replacing(p, s) == out[p] \notin {"", s} /\ mu # p

BusyIsOwed ==
  ev.state \in Busy =>
    \/ \E r \in Run : Owes(r, ev.state)
    \/ LoopOwes
    \/ \E p \in Proc : Replacing(p, ev.state)

IInv ==
  /\ TypeOK /\ LoopQuiet /\ HolderEmits
  /\ OneConnection /\ StopsTheRightOne /\ ProxyInServe
  /\ SessionsAreIssued /\ LoggedOutStaysOut
  /\ CancelledIsAwaited /\ BusyIsWorking /\ BusyIsOwed
  /\ LastLineIsCurrent

-----------------------------------------------------------------------------
(* Types.                                                                  *)

USE HostAssumption, ProcAssumption, CapAssumption
USE DEF loopVars, runVars, storeVars, loopFrame, loopStill, runFrame, runStill

\* The initial states are of the right types.
LEMMA InitType ==
  ASSUME Init PROVE TypeOK
  <1>1. events \in Seq(Event(State)) /\ Len(events) <= EventCap
    <2>1. events = <<>>
      BY DEF Init
    <2> QED BY <2>1
  <1>2. ev \in Event(State \cup {""})
    <2>1. ev = [state |-> "", endpoint |-> NoHost, user |-> FALSE, ip |-> FALSE]
      BY DEF Init
    <2> QED BY <2>1 DEF Event
  <1>3. out \in [Proc -> State \cup {""}]
    <2>1. out = [p \in Proc |-> ""]
      BY DEF Init
    <2> QED BY <2>1
  <1>4. /\ pc \in [Run -> Working \cup {"idle", "report", "exit"}]
        /\ host \in [Run -> Host \cup {NoHost}]
        /\ sess \in [Run -> Session \cup {NoSession}]
        /\ ctx \in [Run -> BOOLEAN]
    BY DEF Init
  <1>5. disk \in Session \cup {NoSession} /\ issued \in SUBSET Session
    BY DEF Init
  <1> QED BY <1>1, <1>2, <1>3, <1>4, <1>5 DEF Init, TypeOK, LoopOK, RunOK

\* What the goroutines read from the disk is a session or none.
LEMMA LoadSessionType ==
  ASSUME TypeOK, NEW h
  PROVE  /\ LoadSession(h) \in {disk, NoSession}
         /\ IdleState(h) \in IdlePage
  BY DEF LoadSession, IdleState, IdlePage

\* What is sent is a line: it has a state.
LEMMA SentIsLine ==
  ASSUME TypeOK, HolderEmits, NEW p \in Proc, EmitSend(p)
  PROVE  ev \in Event(State)
  BY DEF TypeOK, LoopOK, HolderEmits, EmitSend, Unlock, Event, Proc

\* The two halves of emit, and the receiving thread.
LEMMA ChannelType ==
  ASSUME TypeOK, HolderEmits,
         GpRecv \/ \E p \in Proc : EmitLock(p) \/ EmitSend(p)
  PROVE  TypeOK'
  <1>a. RunOK'
    BY DEF TypeOK, RunOK, GpRecv, EmitLock, EmitSend, Unlock
  <1> SUFFICES LoopOK'
    BY <1>a DEF TypeOK
  <1>1. CASE GpRecv
    <2>1. /\ events \in Seq(Event(State)) /\ Len(events) <= EventCap
          /\ events # <<>>
          /\ events' = Tail(events) /\ view' = Head(events).state
      BY <1>1 DEF TypeOK, LoopOK, GpRecv
    <2>2. Head(events) \in Event(State)
      BY <2>1
    <2>3. view' \in State
      BY <2>1, <2>2 DEF Event
    <2>4. events' \in Seq(Event(State)) /\ Len(events') <= EventCap
      BY <2>1
    <2> QED
      BY <1>1, <2>3, <2>4 DEF TypeOK, LoopOK, GpRecv
  <1>2. ASSUME NEW p \in Proc, EmitLock(p) PROVE LoopOK'
    <2>1. out[p] \in State
      BY <1>2 DEF TypeOK, LoopOK, EmitLock, Quiet
    <2>2. ev' \in Event(State \cup {""})
      BY <1>2, <2>1 DEF TypeOK, LoopOK, EmitLock, Event
    <2> QED
      BY <1>2, <2>2 DEF TypeOK, LoopOK, EmitLock
  <1>3. ASSUME NEW p \in Proc, EmitSend(p) PROVE LoopOK'
    <2>1. ev \in Event(State)
      BY <1>3, SentIsLine
    <2>2. events' \in Seq(Event(State)) /\ Len(events') <= EventCap
      <3>1. /\ events \in Seq(Event(State)) /\ Len(events) < EventCap
            /\ events' = Append(events, ev)
        BY <1>3 DEF TypeOK, LoopOK, EmitSend
      <3> QED BY <2>1, <3>1
    <2>3. out' \in [Proc -> State \cup {""}]
      BY <1>3 DEF TypeOK, LoopOK, EmitSend, Unlock
    <2>4. /\ mu' = Nobody
          /\ UNCHANGED <<ev, cancel, view, loopVars, runVars, proxy, storeVars>>
      BY <1>3 DEF EmitSend, Unlock
    <2> QED
      BY <2>2, <2>3, <2>4 DEF TypeOK, LoopOK
  <1> QED BY <1>1, <1>2, <1>3

\* The command loop.
LEMMA LoopType ==
  ASSUME TypeOK, LoopStep \/ \E c \in Command : Receive(c)
  PROVE  TypeOK'
  <1>1. CASE Boot
    <2>1. ev' \in Event(State \cup {""})
      BY <1>1 DEF Boot, TypeOK, LoopOK, RunOK, Event
    <2>2. out' \in [Proc -> State \cup {""}]
      BY <1>1, LoadSessionType DEF Boot, TypeOK, LoopOK, Emit, Proc, State
    <2>3. LoopOK'
      BY <1>1, <2>1, <2>2 DEF Boot, TypeOK, LoopOK
    <2>4. RunOK'
      BY <1>1 DEF Boot, TypeOK, RunOK
    <2> QED
      BY <2>3, <2>4 DEF TypeOK
  <1>2. CASE Setup
    <2>1. cmd.host \in Host \cup {NoHost}
      <3>1. cmd \in Command \cup {NoCommand}
        BY DEF TypeOK, LoopOK
      <3> QED BY <3>1 DEF Command, NoCommand
    <2>2. ev' \in Event(State \cup {""})
      BY <1>2, <2>1 DEF Setup, TypeOK, LoopOK, Event
    <2>3. LoopOK'
      BY <1>2, <2>2 DEF Setup, TypeOK, LoopOK
    <2>4. RunOK'
      BY <1>2, <2>1 DEF Setup, TypeOK, RunOK
    <2> QED
      BY <2>3, <2>4 DEF TypeOK
  <1>3. CASE ConnectIgnored
    BY <1>3 DEF ConnectIgnored, NextCommand, TypeOK, LoopOK, RunOK
  <1>4. ASSUME NEW r \in Run, Connect(r) PROVE TypeOK'
    <2>1. LoopOK'
      BY <1>4 DEF Connect, Start, NextCommand, TypeOK, LoopOK
    <2>2. ev.endpoint \in Host \cup {NoHost}
      BY DEF TypeOK, LoopOK, Event
    <2>3. RunOK'
      BY <1>4, <2>2 DEF Connect, Start, TypeOK, RunOK, Working
    <2> QED
      BY <2>1, <2>3 DEF TypeOK
  <1>5. CASE ReadCancel
    BY <1>5 DEF ReadCancel, TypeOK, LoopOK, RunOK
  <1>6. CASE Cancel
    BY <1>6 DEF Cancel, CancelThen, TypeOK, LoopOK, RunOK
  <1>7. CASE AwaitDone
    BY <1>7 DEF AwaitDone, TypeOK, LoopOK, RunOK
  <1>8. CASE Disconnected
    <2>a. UNCHANGED <<loopStill, target>>
      BY <1>8 DEF Disconnected
    <2>1. RunOK'
      BY <2>a DEF TypeOK, RunOK
    <2>b. out' = out \/ \E s \in State : out' = [out EXCEPT ![Loop] = s]
      BY <1>8, LoadSessionType
      DEF Disconnected, ShowIdle, LogoutSession, Emit, State, IdlePage
    <2>2. out' \in [Proc -> State \cup {""}]
      BY <2>b DEF TypeOK, LoopOK
    <2>3. LoopOK'
      BY <1>8, <2>2
      DEF Disconnected, ShowIdle, LogoutSession, NextCommand, TypeOK, LoopOK
    <2> QED
      BY <2>1, <2>3 DEF TypeOK
  <1>9. CASE PostLogout
    BY <1>9 DEF PostLogout, TypeOK, LoopOK, RunOK
  <1>10. CASE RemoveSession
    BY <1>10 DEF RemoveSession, TypeOK, LoopOK, RunOK
  <1>11. CASE ForgetUser
    <2>1. ev' \in Event(State \cup {""})
      BY <1>11 DEF ForgetUser, TypeOK, LoopOK, Event
    <2>2. out' \in [Proc -> State \cup {""}]
      BY <1>11 DEF ForgetUser, TypeOK, LoopOK, Emit, Proc, State, IdlePage
    <2> QED
      BY <1>11, <2>1, <2>2 DEF ForgetUser, NextCommand, TypeOK, LoopOK, RunOK
  <1>12. ASSUME NEW c \in Command, Receive(c) PROVE TypeOK'
    <2>1. RunOK'
      BY <1>12 DEF Receive, Take, EmptySetup, TypeOK, RunOK
    <2>2. out' \in [Proc -> State \cup {""}]
      BY <1>12
      DEF Receive, Take, EmptySetup, Emit, Proc, State, IdlePage, TypeOK, LoopOK
    <2>3. LoopOK'
      BY <1>12, <2>2 DEF Receive, Take, EmptySetup, TypeOK, LoopOK
    <2> QED
      BY <2>1, <2>3 DEF TypeOK
  <1> QED
    BY <1>1, <1>2, <1>3, <1>4, <1>5, <1>6, <1>7, <1>8, <1>9, <1>10, <1>11, <1>12
    DEF LoopStep

\* The two shapes that most steps of a connection goroutine have.
Label == Working \cup {"idle", "report", "exit"}

LEMMA MoveType ==
  ASSUME TypeOK, NEW r \in Run, NEW l \in Label, Move(r, l)
  PROVE  TypeOK'
  <1>1. LoopOK'
    BY DEF Move, TypeOK, LoopOK
  <1>2. RunOK'
    BY DEF Move, Goto, Label, TypeOK, RunOK
  <1> QED
    BY <1>1, <1>2 DEF TypeOK

LEMMA TellType ==
  ASSUME TypeOK, NEW r \in Run, NEW l \in Label, NEW s \in State, Tell(r, s, l),
         sess' \in [Run -> Session \cup {NoSession}]
  PROVE  TypeOK'
  <1>1. out' \in [Proc -> State \cup {""}]
    BY DEF Tell, Emit, Proc, TypeOK, LoopOK
  <1>2. LoopOK'
    BY <1>1 DEF Tell, TypeOK, LoopOK
  <1>3. RunOK'
    BY DEF Tell, Goto, Label, TypeOK, RunOK
  <1> QED
    BY <1>2, <1>3 DEF TypeOK

\* A connection goroutine.
LEMMA RunType ==
  ASSUME TypeOK, NEW r \in Run, RunStep(r)
  PROVE  TypeOK'
  <1>a. /\ sess \in [Run -> Session \cup {NoSession}]
        /\ {"connecting", "checking", "login", "on", "off", "setup"} \subseteq State
    BY DEF TypeOK, RunOK, State, IdlePage, Busy
  <1>b. Working \subseteq Label /\ {"report", "exit", "idle"} \subseteq Label
    BY DEF Label
  <1>c. {"config", "prelogin", "browser", "login", "publish", "save", "head", "dial",
         "backoff", "up", "unwind", "clear", "config2", "serve"} \subseteq Working
    BY DEF Working
  <1>1. CASE Load(r)
    <2>1. sess' \in [Run -> Session \cup {NoSession}]
      BY <1>1, LoadSessionType DEF Load, TypeOK, RunOK
    <2> QED
      BY <1>1, <1>a, <1>b, <1>c, <2>1, TellType DEF Load
  <1>2. CASE Config(r)
    <2>1. sess' \in [Run -> Session \cup {NoSession}]
      BY <1>2 DEF Config, Move, TypeOK, RunOK
    <2> QED
      BY <1>2, <1>a, <1>b, <1>c, <2>1, MoveType, TellType DEF Config
  <1>3. CASE Prelogin(r)
    BY <1>3, <1>a, <1>b, <1>c, MoveType, TellType DEF Prelogin
  <1>4. CASE BrowserLogin(r)
    BY <1>4, <1>a, <1>b, <1>c, MoveType, TellType DEF BrowserLogin
  <1>6. CASE Config2(r)
    BY <1>6, <1>a, <1>b, <1>c, MoveType, TellType DEF Config2
  <1>10. CASE TunnelHead(r)
    BY <1>10, <1>a, <1>b, <1>c, MoveType, TellType DEF TunnelHead
  <1>11. CASE OpenTunnel(r)
    BY <1>11, <1>a, <1>b, <1>c, MoveType, TellType DEF OpenTunnel
  <1>12. CASE Backoff(r)
    BY <1>12, <1>a, <1>b, <1>c, MoveType, TellType DEF Backoff
  <1>13. CASE TunnelDown(r)
    BY <1>13, <1>a, <1>b, <1>c, MoveType, TellType DEF TunnelDown
  <1>5. CASE GatewayLogin(r)
    <2>1. ASSUME NEW s \in Session \ issued, Issue(r, s) PROVE TypeOK'
      <3>1. LoopOK'
        BY <2>1 DEF Issue, TypeOK, LoopOK
      <3>2. RunOK'
        BY <2>1, <1>c DEF Issue, Goto, TypeOK, RunOK
      <3> QED
        BY <3>1, <3>2 DEF TypeOK
    <2>2. ASSUME Move(r, "clear") PROVE TypeOK'
      BY <2>2, <1>b, <1>c, MoveType
    <2> QED
      BY <1>5, <2>1, <2>2 DEF GatewayLogin
  <1>7. CASE SaveSession(r)
    <2>1. LoopOK'
      BY <1>7 DEF SaveSession, TypeOK, LoopOK
    <2>2. RunOK'
      BY <1>7, <1>c DEF SaveSession, Goto, TypeOK, RunOK
    <2> QED
      BY <2>1, <2>2 DEF TypeOK
  <1>8. CASE Publish(r)
    <2>1. ev' \in Event(State \cup {""})
      BY <1>8 DEF Publish, TypeOK, LoopOK, Event
    <2>2. LoopOK'
      BY <1>8, <2>1 DEF Publish, TypeOK, LoopOK
    <2>3. RunOK'
      BY <1>8, <1>c DEF Publish, Goto, TypeOK, RunOK
    <2> QED
      BY <2>2, <2>3 DEF TypeOK
  <1>9. CASE Serve(r)
    <2>1. ASSUME proxy' = r, Goto(r, "head"), UNCHANGED <<runStill, out, sess, issued>>
          PROVE  TypeOK'
      <3>1. LoopOK'
        BY <2>1 DEF TypeOK, LoopOK
      <3>2. RunOK'
        BY <2>1, <1>c DEF Goto, TypeOK, RunOK
      <3> QED
        BY <3>1, <3>2 DEF TypeOK
    <2>2. ASSUME Move(r, "clear") PROVE TypeOK'
      BY <1>b, <1>c, <2>2, MoveType
    <2> QED
      BY <1>9, <2>1, <2>2 DEF Serve
  <1>14. CASE Unwind(r)
    <2>1. LoopOK'
      BY <1>14 DEF Unwind, TypeOK, LoopOK
    <2>2. RunOK'
      BY <1>14, <1>c DEF Unwind, Goto, TypeOK, RunOK
    <2> QED
      BY <2>1, <2>2 DEF TypeOK
  <1>15. CASE ClearCancel(r)
    <2>1. LoopOK'
      BY <1>15 DEF ClearCancel, TypeOK, LoopOK
    <2>2. RunOK'
      BY <1>15 DEF ClearCancel, Goto, TypeOK, RunOK
    <2> QED
      BY <2>1, <2>2 DEF TypeOK
  <1>16. CASE Report(r)
    <2>1. IdleState(host[r]) \in State
      BY <1>a, LoadSessionType DEF IdlePage
    <2>2. ASSUME Tell(r, IdleState(host[r]), "exit"), sess' = sess PROVE TypeOK'
      BY <1>a, <1>b, <2>1, <2>2, TellType
    <2>3. ASSUME Move(r, "exit") PROVE TypeOK'
      BY <1>b, <2>3, MoveType
    <2> QED
      BY <1>16, <2>2, <2>3 DEF Report
  <1>17. CASE CloseDone(r)
    <2>1. LoopOK'
      BY <1>17 DEF CloseDone, TypeOK, LoopOK
    <2>2. RunOK'
      BY <1>17 DEF CloseDone, Goto, TypeOK, RunOK
    <2> QED
      BY <2>1, <2>2 DEF TypeOK
  <1> QED
    BY <1>1, <1>2, <1>3, <1>4, <1>5, <1>6, <1>7, <1>8, <1>9, <1>10, <1>11, <1>12,
       <1>13, <1>14, <1>15, <1>16, <1>17
    DEF RunStep

-----------------------------------------------------------------------------
(* What a step of one goroutine leaves alone.                              *)

LEMMA LoopEffect ==
  ASSUME TypeOK, LoopQuiet, LoopStep \/ \E c \in Command : Receive(c)
  PROVE  /\ UNCHANGED loopFrame
         /\ ev'.state = ev.state
         /\ \A r \in Run : out'[r] = out[r]
         /\ out' # out => Quiet(Loop) /\ out'[Loop] \in IdlePage \cup {"exited"}
         /\ loop' \notin {"recv", "exited"} => Quiet(Loop) /\ out' = out
  <1>a. DOMAIN out = Proc /\ Loop \in Proc /\ Loop \notin Run /\ Run \subseteq Proc
    BY DEF TypeOK, LoopOK, Proc
  <1>b. DOMAIN ev = {"state", "endpoint", "user", "ip"}
    BY DEF TypeOK, LoopOK, Event
  <1>1. UNCHANGED loopFrame
    BY DEF LoopStep, Receive, Take, EmptySetup, Boot, Setup, ConnectIgnored, Connect, Start, ReadCancel, Cancel,
      CancelThen, AwaitDone, Disconnected, ShowIdle, LogoutSession, NextCommand,
      PostLogout, RemoveSession, ForgetUser
  <1>2. ev'.state = ev.state
    BY <1>b DEF LoopStep, Receive, Take, EmptySetup, Boot, Setup, ConnectIgnored, Connect, Start, ReadCancel, Cancel,
      CancelThen, AwaitDone, Disconnected, ShowIdle, LogoutSession, NextCommand,
      PostLogout, RemoveSession, ForgetUser
  <1>3. \/ out' = out
        \/ /\ Quiet(Loop)
           /\ loop' \in {"recv", "exited"}
           /\ \E s \in IdlePage \cup {"exited"} : out' = [out EXCEPT ![Loop] = s]
    BY LoadSessionType
    DEF LoopStep, Receive, Take, EmptySetup, Emit, IdlePage, LoopQuiet, Boot, Setup, ConnectIgnored, Connect, Start, ReadCancel, Cancel,
      CancelThen, AwaitDone, Disconnected, ShowIdle, LogoutSession, NextCommand,
      PostLogout, RemoveSession, ForgetUser
  <1>4. loop' \notin {"recv", "exited"} => Quiet(Loop)
    BY DEF LoopStep, Receive, Take, EmptySetup, LoopQuiet, Boot, Setup, ConnectIgnored, Connect, Start, ReadCancel, Cancel,
      CancelThen, AwaitDone, Disconnected, ShowIdle, LogoutSession, NextCommand,
      PostLogout, RemoveSession, ForgetUser
  <1> QED
    BY <1>a, <1>1, <1>2, <1>3, <1>4

LEMMA RunEffect ==
  ASSUME TypeOK, NEW r \in Run, RunStep(r)
  PROVE  /\ UNCHANGED runFrame
         /\ ev'.state = ev.state
         /\ Quiet(r)
         /\ \A q \in Run \ {r} : pc'[q] = pc[q] /\ sess'[q] = sess[q]
         /\ \A p \in Proc \ {r} : out'[p] = out[p]
  <1>a. /\ DOMAIN out = Proc /\ r \in Proc
        /\ DOMAIN pc = Run /\ DOMAIN sess = Run
        /\ DOMAIN ev = {"state", "endpoint", "user", "ip"}
    BY DEF TypeOK, LoopOK, RunOK, Proc, Event
  <1>1. UNCHANGED runFrame
    BY DEF RunStep, Load, Config, Prelogin, BrowserLogin, GatewayLogin, Issue, Config2,
      SaveSession, Publish, Serve, TunnelHead, OpenTunnel, Backoff, TunnelDown,
      Unwind, ClearCancel, Report, CloseDone, Move, Tell, Goto, At
  <1>2. ev'.state = ev.state
    BY <1>a DEF RunStep, Load, Config, Prelogin, BrowserLogin, GatewayLogin, Issue, Config2,
      SaveSession, Publish, Serve, TunnelHead, OpenTunnel, Backoff, TunnelDown,
      Unwind, ClearCancel, Report, CloseDone, Move, Tell, Goto, At
  <1>3. Quiet(r)
    BY DEF RunStep, Load, Config, Prelogin, BrowserLogin, GatewayLogin, Issue, Config2,
      SaveSession, Publish, Serve, TunnelHead, OpenTunnel, Backoff, TunnelDown,
      Unwind, ClearCancel, Report, CloseDone, Move, Tell, Goto, At
  <1>4. \A q \in Run \ {r} : pc'[q] = pc[q] /\ sess'[q] = sess[q]
    BY <1>a DEF RunStep, Load, Config, Prelogin, BrowserLogin, GatewayLogin, Issue, Config2,
      SaveSession, Publish, Serve, TunnelHead, OpenTunnel, Backoff, TunnelDown,
      Unwind, ClearCancel, Report, CloseDone, Move, Tell, Goto, At
  <1>5. \A p \in Proc \ {r} : out'[p] = out[p]
    BY <1>a DEF RunStep, Emit, Load, Config, Prelogin, BrowserLogin, GatewayLogin, Issue, Config2,
      SaveSession, Publish, Serve, TunnelHead, OpenTunnel, Backoff, TunnelDown,
      Unwind, ClearCancel, Report, CloseDone, Move, Tell, Goto, At
  <1> QED
    BY <1>1, <1>2, <1>3, <1>4, <1>5

-----------------------------------------------------------------------------
(* emit: who holds the mutex, and what the last line says.                 *)

ChannelStep == GpRecv \/ \E p \in Proc : EmitLock(p) \/ EmitSend(p)

CommandStep == LoopStep \/ \E c \in Command : Receive(c)

\* The steps that have anything to preserve.
LEMMA NextSteps ==
  ASSUME Next
  PROVE  \/ ChannelStep
         \/ CommandStep
         \/ \E r \in Run : RunStep(r)
         \/ UNCHANGED vars
  BY DEF Next, ChannelStep, CommandStep, Exited

LEMMA LoopQuietPreserved ==
  ASSUME TypeOK, LoopQuiet, Next
  PROVE  LoopQuiet'
  <1>a. Loop \in Proc /\ Loop \notin Run /\ DOMAIN out = Proc
    BY DEF TypeOK, LoopOK, Proc
  <1>1. CASE ChannelStep
    BY <1>1, <1>a
    DEF ChannelStep, GpRecv, EmitLock, EmitSend, Unlock, LoopQuiet, Quiet
  <1>2. CASE CommandStep
    BY <1>2, LoopEffect DEF CommandStep, LoopQuiet, Quiet
  <1>3. ASSUME NEW r \in Run, RunStep(r) PROVE LoopQuiet'
    BY <1>3, <1>a, RunEffect DEF LoopQuiet, Quiet
  <1>4. CASE UNCHANGED vars
    BY <1>4 DEF vars, LoopQuiet, Quiet
  <1> QED
    BY <1>1, <1>2, <1>3, <1>4, NextSteps

LEMMA HolderEmitsPreserved ==
  ASSUME TypeOK, LoopQuiet, HolderEmits, Next
  PROVE  HolderEmits'
  <1>a. /\ Proc = Run \cup {Loop} /\ Nobody \notin Proc
        /\ mu \in Proc \cup {Nobody}
        /\ DOMAIN out = Proc
        /\ DOMAIN ev = {"state", "endpoint", "user", "ip"}
    BY DEF TypeOK, LoopOK, Proc, Event
  <1>1. CASE ChannelStep
    BY <1>1, <1>a
    DEF ChannelStep, GpRecv, EmitLock, EmitSend, Unlock, HolderEmits, Quiet
  <1>2. CASE CommandStep
    <2>1. mu' = mu /\ ev'.state = ev.state
      BY <1>2, LoopEffect DEF CommandStep
    <2>2. ASSUME mu # Nobody PROVE out'[mu] = out[mu]
      BY <1>2, <1>a, <2>2, LoopEffect DEF CommandStep, HolderEmits, Quiet
    <2> QED
      BY <1>a, <2>1, <2>2 DEF HolderEmits
  <1>3. ASSUME NEW r \in Run, RunStep(r) PROVE HolderEmits'
    <2>1. mu' = mu /\ ev'.state = ev.state
      BY <1>3, RunEffect
    <2>2. ASSUME mu # Nobody PROVE out'[mu] = out[mu]
      BY <1>3, <1>a, <2>2, RunEffect DEF HolderEmits, Quiet
    <2> QED
      BY <1>a, <2>1, <2>2 DEF HolderEmits
  <1>4. CASE UNCHANGED vars
    BY <1>4 DEF vars, HolderEmits
  <1> QED
    BY <1>1, <1>2, <1>3, <1>4, NextSteps

\* The last element of a channel after a receive and after a send.
LEMMA LastOfTail ==
  ASSUME NEW S, NEW s \in Seq(S), s # <<>>, Len(s) # 1
  PROVE  Tail(s) # <<>> /\ Tail(s)[Len(Tail(s))] = s[Len(s)]
  <1>1. Len(s) \in Nat \ {0}
    BY EmptySeq, Zenon
  <1>2. Len(Tail(s)) = Len(s) - 1
    BY HeadTailProperties, Zenon
  <1>3. \A i \in 1..Len(Tail(s)) : Tail(s)[i] = s[i + 1]
    BY HeadTailProperties, Zenon
  <1>4. Tail(s) # <<>>
    <2>1. Len(Tail(s)) # 0
      BY <1>1, <1>2
    <2>2. Len(<<>>) = 0
      OBVIOUS
    <2> QED
      BY <2>1, <2>2, Zenon
  <1>5. Len(Tail(s)) \in 1..Len(Tail(s)) /\ Len(Tail(s)) + 1 = Len(s)
    BY <1>1, <1>2
  <1> QED
    BY <1>3, <1>4, <1>5

LEMMA LastOfAppend ==
  ASSUME NEW S, NEW s \in Seq(S), NEW e \in S
  PROVE  Append(s, e) # <<>> /\ Append(s, e)[Len(Append(s, e))] = e
  <1>1. Len(s) \in Nat /\ Len(Append(s, e)) = Len(s) + 1
    OBVIOUS
  <1>2. Append(s, e)[Len(s) + 1] = e
    BY <1>1
  <1> QED
    BY <1>1, <1>2

LEMMA LastLinePreserved ==
  ASSUME TypeOK, LoopQuiet, HolderEmits, LastLineIsCurrent, Next
  PROVE  LastLineIsCurrent'
  <1>a. /\ events \in Seq(Event(State)) /\ Nobody \notin Proc
        /\ DOMAIN ev = {"state", "endpoint", "user", "ip"}
    BY DEF TypeOK, LoopOK, Proc, Event
  <1>1. CASE GpRecv
    <2>1. /\ events # <<>> /\ events' = Tail(events)
          /\ view' = Head(events).state
          /\ mu' = mu /\ ev' = ev
      BY <1>1 DEF GpRecv
    <2>2. Head(events) = events[1]
      BY <2>1, <1>a
    <2>3. CASE Len(events) = 1
      <3>1. events' = <<>>
        BY <2>1, <2>3, <1>a
      <3> QED
        BY <2>1, <2>2, <2>3, <3>1 DEF LastLineIsCurrent
    <2>4. CASE Len(events) # 1
      <3>1. events' # <<>> /\ events'[Len(events')] = events[Len(events)]
        BY <2>1, <2>4, <1>a, LastOfTail
      <3> QED
        BY <2>1, <3>1 DEF LastLineIsCurrent
    <2> QED
      BY <2>3, <2>4
  <1>2. ASSUME NEW p \in Proc, EmitLock(p) PROVE LastLineIsCurrent'
    BY <1>2, <1>a DEF EmitLock, LastLineIsCurrent
  <1>3. ASSUME NEW p \in Proc, EmitSend(p) PROVE LastLineIsCurrent'
    <2>1. events' = Append(events, ev) /\ ev' = ev
      BY <1>3 DEF EmitSend, Unlock
    <2>2. events' # <<>> /\ events'[Len(events')] = ev
      BY <1>3, <2>1, <1>a, LastOfAppend, SentIsLine
    <2> QED
      BY <2>1, <2>2 DEF LastLineIsCurrent
  <1>4. CASE CommandStep
    BY <1>4, LoopEffect DEF CommandStep, LastLineIsCurrent
  <1>5. ASSUME NEW r \in Run, RunStep(r) PROVE LastLineIsCurrent'
    BY <1>5, RunEffect DEF LastLineIsCurrent
  <1>6. CASE UNCHANGED vars
    BY <1>6 DEF vars, LastLineIsCurrent
  <1> QED
    BY <1>1, <1>2, <1>3, <1>4, <1>5, <1>6, NextSteps DEF ChannelStep

-----------------------------------------------------------------------------
(* Control: b.cancel, the proxy, and whom a disconnect stops.              *)

\* The five kinds of steps of a connection goroutine.
WorksOn(r) ==
  /\ pc[r] \in Working /\ pc'[r] \in Working
  /\ pc[r] \in Serving => pc'[r] \in Serving
  /\ UNCHANGED <<cancel, proxy>>

TakesProxy(r) ==
  /\ pc[r] \in Working /\ pc'[r] \in Serving
  /\ proxy' = r
  /\ UNCHANGED cancel

GivesProxyBack(r) ==
  /\ pc[r] \in Working /\ pc'[r] \in Working
  /\ proxy' = Nobody
  /\ UNCHANGED cancel

GivesCancelUp(r) ==
  /\ pc[r] \in Working \ Serving /\ pc'[r] = "report"
  /\ cancel' = Nobody
  /\ UNCHANGED proxy

Ends(r) ==
  /\ pc[r] \in {"report", "exit"} /\ pc'[r] \in {"exit", "idle"}
  /\ UNCHANGED <<cancel, proxy>>

LEMMA RunControl ==
  ASSUME TypeOK, NEW r \in Run, RunStep(r)
  PROVE  \/ WorksOn(r) \/ TakesProxy(r) \/ GivesProxyBack(r)
         \/ GivesCancelUp(r) \/ Ends(r)
  <1>a. DOMAIN pc = Run
    BY DEF TypeOK, RunOK
  <1> USE <1>a DEF Working, Serving, At, Goto, Move, Tell
  <1>1. CASE \/ Load(r) \/ Config(r) \/ Prelogin(r) \/ BrowserLogin(r)
             \/ GatewayLogin(r) \/ Config2(r) \/ SaveSession(r) \/ Publish(r)
    BY <1>1 DEF WorksOn, Load, Config, Prelogin, BrowserLogin, GatewayLogin, Issue,
                Config2, SaveSession, Publish
  <1>2. CASE TunnelHead(r) \/ OpenTunnel(r) \/ Backoff(r) \/ TunnelDown(r)
    BY <1>2 DEF WorksOn, TunnelHead, OpenTunnel, Backoff, TunnelDown
  <1>3. CASE Serve(r)
    BY <1>3 DEF WorksOn, TakesProxy, Serve
  <1>4. CASE Unwind(r)
    BY <1>4 DEF GivesProxyBack, Unwind
  <1>5. CASE ClearCancel(r)
    BY <1>5 DEF GivesCancelUp, ClearCancel
  <1>6. CASE Report(r) \/ CloseDone(r)
    BY <1>6 DEF Ends, Report, CloseDone
  <1> QED
    BY <1>1, <1>2, <1>3, <1>4, <1>5, <1>6 DEF RunStep

Control == OneConnection /\ StopsTheRightOne /\ ProxyInServe

LEMMA ControlPreserved ==
  ASSUME TypeOK, Control, Next
  PROVE  Control'
  <1>a. /\ Working \cap {"idle", "report", "exit"} = {} /\ Serving \subseteq Working
        /\ Nobody \notin Run
        /\ cancel \in Run \cup {Nobody} /\ proxy \in Run \cup {Nobody}
        /\ target \in Run \cup {Nobody} /\ DOMAIN pc = Run
    BY DEF TypeOK, LoopOK, RunOK, Working, Serving
  <1>1. CASE ChannelStep
    BY <1>1 DEF ChannelStep, GpRecv, EmitLock, EmitSend, Unlock, Control,
                OneConnection, StopsTheRightOne, ProxyInServe
  <1>2. ASSUME NEW r \in Run, Connect(r) PROVE Control'
    <2>1. /\ cancel = Nobody /\ cancel' = r
          /\ pc' = [pc EXCEPT ![r] = "load"]
          /\ loop' = "recv" /\ proxy' = proxy
      BY <1>2 DEF Connect, Start, NextCommand
    <2>2. proxy = Nobody /\ "load" \in Working
      BY <2>1 DEF Control, OneConnection, Working
    <2>3. \A q \in Run : pc'[q] \in Working <=> cancel' = q
      BY <1>a, <2>1, <2>2 DEF Control, OneConnection
    <2> QED
      BY <2>1, <2>2, <2>3
      DEF Control, OneConnection, StopsTheRightOne, ProxyInServe, Disconnecting
  <1>3. CASE CommandStep /\ ~\E r \in Run : Connect(r)
    <2>1. UNCHANGED <<pc, cancel, proxy>>
      BY <1>3
      DEF CommandStep, LoopStep, Receive, Take, EmptySetup, Boot, Setup,
          ConnectIgnored, ReadCancel, Cancel, CancelThen, AwaitDone,
          Disconnected, PostLogout, RemoveSession, ForgetUser
    <2>2. StopsTheRightOne'
      <3> USE <2>1 DEF Control, OneConnection, StopsTheRightOne, Disconnecting
      <3>1. CASE AwaitDone
        BY <1>a, <3>1 DEF AwaitDone
      <3>2. CASE ReadCancel \/ Cancel \/ Disconnected
        BY <1>a, <3>2
        DEF ReadCancel, Cancel, CancelThen, Disconnected, ShowIdle,
            LogoutSession, NextCommand
      <3>3. CASE \/ Boot \/ Setup \/ ConnectIgnored \/ PostLogout
                 \/ RemoveSession \/ ForgetUser
                 \/ \E c \in Command : Receive(c)
        BY <3>3
        DEF Boot, Setup, ConnectIgnored, PostLogout, RemoveSession, ForgetUser,
            Receive, Take, EmptySetup, NextCommand
      <3> QED
        BY <1>3, <3>1, <3>2, <3>3 DEF CommandStep, LoopStep
    <2> QED
      BY <2>1, <2>2 DEF Control, OneConnection, ProxyInServe
  <1>4. ASSUME NEW r \in Run, RunStep(r) PROVE Control'
    <2>1. /\ \A q \in Run \ {r} : pc'[q] = pc[q]
          /\ loop' = loop /\ target' = target
      BY <1>4, RunEffect
    <2>2. CASE WorksOn(r) \/ Ends(r)
      BY <1>a, <2>1, <2>2
      DEF WorksOn, Ends, Control, OneConnection, StopsTheRightOne, ProxyInServe
    <2>3. CASE TakesProxy(r) \/ GivesProxyBack(r)
      BY <1>a, <2>1, <2>3
      DEF TakesProxy, GivesProxyBack, Control, OneConnection, StopsTheRightOne,
          ProxyInServe
    <2>4. CASE GivesCancelUp(r)
      BY <1>a, <2>1, <2>4
      DEF GivesCancelUp, Control, OneConnection, StopsTheRightOne, ProxyInServe
    <2> QED
      BY <1>4, <2>2, <2>3, <2>4, RunControl
  <1>5. CASE UNCHANGED vars
    BY <1>5 DEF vars, Control, OneConnection, StopsTheRightOne, ProxyInServe
  <1> QED
    BY <1>1, <1>2, <1>3, <1>4, <1>5, NextSteps

-----------------------------------------------------------------------------
(* Sessions: where they come from, and what a logout makes of them.        *)

Sessions == SessionsAreIssued /\ LoggedOutStaysOut

\* What a connection goroutine does to the sessions: it takes the saved one,
\* forgets its own, gets one that was never issued, or saves its own.
LEMMA RunSessions ==
  ASSUME TypeOK, NEW r \in Run, RunStep(r)
  PROVE  \/ /\ sess'[r] \in {sess[r], disk, NoSession} /\ UNCHANGED <<disk, issued>>
            /\ pc[r] \in Working \/ (sess'[r] \in {sess[r], NoSession}
                                     /\ pc'[r] \notin Working)
            /\ pc'[r] = "idle" => sess'[r] = NoSession
         \/ /\ sess'[r] \in Session \ issued /\ issued' = issued \cup {sess'[r]}
            /\ pc[r] \in Working /\ pc'[r] # "idle" /\ disk' = disk
         \/ /\ disk' \in {sess[r], disk, NoSession} /\ UNCHANGED <<sess, issued>>
            /\ pc[r] \in Working /\ pc'[r] # "idle"
  <1>a. DOMAIN pc = Run /\ DOMAIN sess = Run /\ sess[r] \in Session \cup {NoSession}
    BY DEF TypeOK, RunOK
  <1> USE <1>a DEF Working, At, Goto, Move, Tell
  <1>1. CASE Load(r)
    <2>1. LoadSession(host[r]) \in {disk, NoSession}
      BY LoadSessionType
    <2> QED
      BY <1>1, <2>1 DEF Load
  <1>2. CASE Config(r) \/ Prelogin(r) \/ BrowserLogin(r) \/ Config2(r)
    BY <1>2 DEF Config, Prelogin, BrowserLogin, Config2
  <1>3. CASE GatewayLogin(r)
    BY <1>3 DEF GatewayLogin, Issue
  <1>4. CASE SaveSession(r)
    BY <1>4 DEF SaveSession
  <1>5. CASE Publish(r) \/ Serve(r) \/ TunnelHead(r) \/ OpenTunnel(r)
             \/ Backoff(r) \/ TunnelDown(r) \/ Unwind(r)
    BY <1>5 DEF Publish, Serve, TunnelHead, OpenTunnel, Backoff, TunnelDown, Unwind
  <1>6. CASE ClearCancel(r) \/ Report(r) \/ CloseDone(r)
    BY <1>6 DEF ClearCancel, Report, CloseDone
  <1> QED
    BY <1>1, <1>2, <1>3, <1>4, <1>5, <1>6 DEF RunStep

LEMMA SessionsPreserved ==
  ASSUME TypeOK, Control, Sessions, Next
  PROVE  Sessions'
  <1>a. /\ issued \in SUBSET Session /\ NoSession \notin Session
        /\ disk \in Session \cup {NoSession} /\ DOMAIN pc = Run
    BY DEF TypeOK, RunOK
  <1> USE DEF Sessions, SessionsAreIssued, LoggedOutStaysOut
  <1>1. CASE ChannelStep
    BY <1>1 DEF ChannelStep, GpRecv, EmitLock, EmitSend, Unlock
  <1>2. ASSUME NEW r \in Run, Connect(r) PROVE Sessions'
    <2>1. /\ pc[r] = "idle" /\ pc' = [pc EXCEPT ![r] = "load"]
          /\ UNCHANGED <<sess, disk, issued, wiped>>
      BY <1>2 DEF Connect, Start
    <2>2. sess[r] \notin wiped
      BY <1>a, <2>1
    <2> QED
      BY <1>a, <2>1, <2>2
  <1>3. CASE RemoveSession
    <2>1. UNCHANGED <<pc, sess, issued>> /\ loop = "wipe"
      BY <1>3 DEF RemoveSession
    <2>2. \A r \in Run : pc[r] \notin Working
      BY <2>1, <1>a
      DEF Control, StopsTheRightOne, Disconnecting, OneConnection, TypeOK, LoopOK
    <2>3. CASE disk' = NoSession /\ wiped' = wiped \cup ({disk} \ {NoSession})
      BY <1>a, <2>1, <2>2, <2>3
    <2>4. CASE UNCHANGED <<disk, wiped>>
      BY <2>1, <2>4
    <2> QED
      BY <1>3, <2>3, <2>4 DEF RemoveSession
  <1>4. CASE CommandStep /\ ~(\E r \in Run : Connect(r)) /\ ~RemoveSession
    <2>1. UNCHANGED <<pc, sess, disk, issued, wiped>>
      BY <1>4
      DEF CommandStep, LoopStep, Receive, Take, EmptySetup, Boot, Setup,
          ConnectIgnored, ReadCancel, Cancel, CancelThen, AwaitDone,
          Disconnected, PostLogout, ForgetUser
    <2> QED
      BY <2>1
  <1>5. ASSUME NEW r \in Run, RunStep(r) PROVE Sessions'
    <2>1. /\ \A q \in Run \ {r} : pc'[q] = pc[q] /\ sess'[q] = sess[q]
          /\ wiped' = wiped
      BY <1>5, RunEffect
    <2> QED
      BY <1>a, <1>5, <2>1, RunSessions
  <1>6. CASE UNCHANGED vars
    BY <1>6 DEF vars
  <1> QED
    BY <1>1, <1>2, <1>3, <1>4, <1>5, <1>6, NextSteps DEF CommandStep

-----------------------------------------------------------------------------
(* Who is cancelled, and who will report the end of a busy page.           *)

LEMMA CancelledPreserved ==
  ASSUME TypeOK, Control, CancelledIsAwaited, Next
  PROVE  CancelledIsAwaited'
  <1>a. DOMAIN pc = Run /\ DOMAIN ctx = Run /\ target \in Run \cup {Nobody}
    BY DEF TypeOK, LoopOK, RunOK
  <1>1. CASE ChannelStep
    BY <1>1 DEF ChannelStep, GpRecv, EmitLock, EmitSend, Unlock, CancelledIsAwaited
  <1>2. ASSUME NEW r \in Run, Connect(r) PROVE CancelledIsAwaited'
    BY <1>2, <1>a DEF Connect, Start, CancelledIsAwaited
  <1>3. CASE Cancel
    BY <1>3, <1>a DEF Cancel, CancelThen, CancelledIsAwaited
  <1>4. CASE AwaitDone
    BY <1>4, <1>a DEF AwaitDone, CancelledIsAwaited
  <1>5. CASE CommandStep /\ ~(\E r \in Run : Connect(r)) /\ ~Cancel /\ ~AwaitDone
    BY <1>5, <1>a
    DEF CommandStep, LoopStep, Receive, Take, EmptySetup, Boot, Setup,
        ConnectIgnored, ReadCancel, Disconnected, PostLogout, RemoveSession,
        ForgetUser, CancelledIsAwaited
  <1>6. ASSUME NEW r \in Run, RunStep(r) PROVE CancelledIsAwaited'
    <2>1. pc[r] # "idle"
      BY <1>6, RunControl
      DEF WorksOn, TakesProxy, GivesProxyBack, GivesCancelUp, Ends, Working
    <2> QED
      BY <1>6, <2>1, RunEffect DEF CancelledIsAwaited
  <1>7. CASE UNCHANGED vars
    BY <1>7 DEF vars, CancelledIsAwaited
  <1> QED
    BY <1>1, <1>2, <1>3, <1>4, <1>5, <1>6, <1>7, NextSteps DEF CommandStep

\* The labels of the busy pages.
LEMMA StageLabels ==
  /\ Stage("checking") = {"clear", "report", "prelogin"}
  /\ Stage("login") = {"clear", "report", "browser"}
  /\ Stage("connecting") = {"clear", "report", "config", "login", "config2", "save",
                            "publish", "serve", "head", "dial", "backoff", "unwind"}
  /\ Stage("on") = {"clear", "report", "up", "head", "dial", "unwind"}
BY DEF Stage

LEMMA StageBusy ==
  ASSUME NEW s \in Busy
  PROVE  Stage(s) \subseteq Working \cup {"report"}
BY StageLabels DEF Busy, Working

\* What a connection goroutine says, and when it leaves a stage.
LEMMA RunTells ==
  ASSUME TypeOK, NEW r \in Run, RunStep(r)
  PROVE  /\ out'[r] \in Busy => pc'[r] \in Stage(out'[r]) \ {"report"}
         /\ \A s \in Busy : Owes(r, s) => Owes(r, s)' \/ ctx[r] \/ out'[r] \notin {"", s}
  <1>a. DOMAIN pc = Run /\ DOMAIN out = Proc /\ r \in Proc
    BY DEF TypeOK, LoopOK, RunOK, Proc
  <1>b. UNCHANGED ctx /\ Quiet(r)
    BY RunEffect
  <1>c. "" \notin Busy /\ IdlePage \cap (Busy \cup {""}) = {}
    BY DEF Busy, IdlePage
  \* The goroutine moves from one label to another, silently or with an emit.
  <1>1. ASSUME NEW l, NEW m, pc[r] = l, pc' = [pc EXCEPT ![r] = m], out' = out,
               \A s \in Busy : l \in Stage(s) =>
                                 \/ m \in Stage(s) /\ (m = "report" => ~ctx[r])
                                 \/ ctx[r]
        PROVE  /\ out'[r] \in Busy => pc'[r] \in Stage(out'[r]) \ {"report"}
               /\ \A s \in Busy : Owes(r, s) => Owes(r, s)' \/ ctx[r] \/ out'[r] \notin {"", s}
    <2>1. out'[r] = "" /\ pc'[r] = m
      BY <1>1, <1>a, <1>b DEF Quiet
    <2> QED
      BY <1>1, <1>b, <1>c, <2>1 DEF Owes
  <1>2. ASSUME NEW m, NEW t, pc' = [pc EXCEPT ![r] = m],
               out' = [out EXCEPT ![r] = t], t # "",
               t \in Busy => m \in Stage(t) \ {"report"}
        PROVE  /\ out'[r] \in Busy => pc'[r] \in Stage(out'[r]) \ {"report"}
               /\ \A s \in Busy : Owes(r, s) => Owes(r, s)' \/ ctx[r] \/ out'[r] \notin {"", s}
    <2>1. out'[r] = t /\ pc'[r] = m
      BY <1>2, <1>a
    <2>2. \A s \in Busy : t = s => Owes(r, s)'
      BY <1>2, <2>1 DEF Owes
    <2> QED
      BY <1>2, <2>1, <2>2
  \* Where the moves lead, and where the emits are made.
  <1>d. \A s \in Busy :
          /\ "clear" \in Stage(s) /\ "report" \in Stage(s)
          /\ "config" \in Stage(s) => "publish" \in Stage(s)
          /\ "login" \in Stage(s) => "config2" \in Stage(s)
          /\ "config2" \in Stage(s) => "save" \in Stage(s)
          /\ "save" \in Stage(s) => "publish" \in Stage(s)
          /\ "publish" \in Stage(s) => "serve" \in Stage(s)
          /\ "serve" \in Stage(s) => "head" \in Stage(s)
          /\ "head" \in Stage(s) => "dial" \in Stage(s) /\ "unwind" \in Stage(s)
          /\ "dial" \in Stage(s) => "unwind" \in Stage(s)
          /\ "backoff" \in Stage(s) => "head" \in Stage(s)
          /\ "up" \in Stage(s) => "head" \in Stage(s)
    BY StageLabels DEF Busy
  <1>e. \A s \in Busy : "exit" \notin Stage(s)
    BY StageLabels DEF Busy
  <1>f. /\ {"config", "login", "backoff"} \subseteq Stage("connecting")
        /\ "prelogin" \in Stage("checking") /\ "browser" \in Stage("login")
        /\ "up" \in Stage("on")
    BY StageLabels
  <1> USE DEF At, Move, Tell, Goto, Emit, runStill
  <1>3. CASE Load(r)
    <2>1. \/ pc' = [pc EXCEPT ![r] = "config"] /\ out' = [out EXCEPT ![r] = "connecting"]
          \/ pc' = [pc EXCEPT ![r] = "prelogin"] /\ out' = [out EXCEPT ![r] = "checking"]
      BY <1>3 DEF Load
    <2> QED
      BY <1>2, <1>f, <2>1
  <1>4. CASE Config(r)
    <2>1. \/ pc[r] = "config" /\ pc' = [pc EXCEPT ![r] = "publish"] /\ out' = out
          \/ pc' = [pc EXCEPT ![r] = "prelogin"] /\ out' = [out EXCEPT ![r] = "checking"]
      BY <1>4 DEF Config
    <2> QED
      BY <1>1, <1>2, <1>d, <1>f, <2>1
  <1>5. CASE Prelogin(r)
    <2>1. \/ pc[r] = "prelogin" /\ pc' = [pc EXCEPT ![r] = "clear"] /\ out' = out
          \/ pc' = [pc EXCEPT ![r] = "browser"] /\ out' = [out EXCEPT ![r] = "login"]
      BY <1>5 DEF Prelogin
    <2> QED
      BY <1>1, <1>2, <1>d, <1>f, <2>1
  <1>6. CASE BrowserLogin(r)
    <2>1. \/ pc[r] = "browser" /\ pc' = [pc EXCEPT ![r] = "clear"] /\ out' = out
          \/ pc' = [pc EXCEPT ![r] = "login"] /\ out' = [out EXCEPT ![r] = "connecting"]
      BY <1>6 DEF BrowserLogin
    <2> QED
      BY <1>1, <1>2, <1>d, <1>f, <2>1
  <1>7. CASE GatewayLogin(r) \/ Config2(r) \/ SaveSession(r) \/ Publish(r) \/ Serve(r)
    <2>1. out' = out
          /\ \/ pc[r] = "login" /\ (pc' = [pc EXCEPT ![r] = "config2"] \/ pc' = [pc EXCEPT ![r] = "clear"])
             \/ pc[r] = "config2" /\ (pc' = [pc EXCEPT ![r] = "save"] \/ pc' = [pc EXCEPT ![r] = "clear"])
             \/ pc[r] = "save" /\ pc' = [pc EXCEPT ![r] = "publish"]
             \/ pc[r] = "publish" /\ pc' = [pc EXCEPT ![r] = "serve"]
             \/ pc[r] = "serve" /\ (pc' = [pc EXCEPT ![r] = "head"] \/ pc' = [pc EXCEPT ![r] = "clear"])
      BY <1>7 DEF GatewayLogin, Issue, Config2, SaveSession, Publish, Serve
    <2> QED
      BY <1>1, <1>d, <2>1
  <1>8. CASE TunnelHead(r) \/ Backoff(r) \/ TunnelDown(r) \/ Unwind(r)
    <2>1. out' = out
          /\ \/ pc[r] = "head" /\ (pc' = [pc EXCEPT ![r] = "unwind"] \/ pc' = [pc EXCEPT ![r] = "dial"])
             \/ pc[r] = "backoff" /\ pc' = [pc EXCEPT ![r] = "head"]
             \/ pc[r] = "up" /\ pc' = [pc EXCEPT ![r] = "head"]
             \/ pc[r] = "unwind" /\ pc' = [pc EXCEPT ![r] = "clear"]
      BY <1>8 DEF TunnelHead, Backoff, TunnelDown, Unwind
    <2> QED
      BY <1>1, <1>d, <2>1
  <1>9. CASE OpenTunnel(r)
    <2>1. \/ pc[r] = "dial" /\ pc' = [pc EXCEPT ![r] = "unwind"] /\ out' = out
          \/ pc' = [pc EXCEPT ![r] = "up"] /\ out' = [out EXCEPT ![r] = "on"]
          \/ pc' = [pc EXCEPT ![r] = "backoff"] /\ out' = [out EXCEPT ![r] = "connecting"]
      BY <1>9 DEF OpenTunnel
    <2> QED
      BY <1>1, <1>2, <1>d, <1>f, <2>1
  <1>10. CASE ClearCancel(r)
    <2>1. pc[r] = "clear" /\ pc' = [pc EXCEPT ![r] = "report"] /\ out' = out
      BY <1>10 DEF ClearCancel
    <2> QED
      BY <1>1, <1>d, <2>1
  <1>11. CASE Report(r)
    <2>1. CASE ctx[r] /\ Move(r, "exit")
      BY <1>1, <1>11, <2>1 DEF Report
    <2>2. CASE Tell(r, IdleState(host[r]), "exit")
      <3>1. PICK t \in IdlePage : t = IdleState(host[r])
        BY LoadSessionType
      <3> QED
        BY <1>2, <1>c, <2>2, <3>1
    <2> QED
      BY <1>11, <2>1, <2>2 DEF Report
  <1>12. CASE CloseDone(r)
    <2>1. pc[r] = "exit" /\ pc' = [pc EXCEPT ![r] = "idle"] /\ out' = out
      BY <1>12 DEF CloseDone
    <2> QED
      BY <1>1, <1>e, <2>1
  <1> QED
    BY <1>3, <1>4, <1>5, <1>6, <1>7, <1>8, <1>9, <1>10, <1>11, <1>12 DEF RunStep

LEMMA BusyIsWorkingPreserved ==
  ASSUME TypeOK, LoopQuiet, BusyIsWorking, Next
  PROVE  BusyIsWorking'
  <1>a. /\ Proc = Run \cup {Loop} /\ Loop \notin Run /\ DOMAIN out = Proc
        /\ "" \notin Busy /\ (IdlePage \cup {"exited"}) \cap Busy = {}
    BY DEF TypeOK, LoopOK, Proc, Busy, IdlePage
  <1>1. CASE ChannelStep
    BY <1>1, <1>a DEF ChannelStep, GpRecv, EmitLock, EmitSend, Unlock, BusyIsWorking
  <1>2. CASE CommandStep
    <2>1. \A r \in Run : pc[r] # "idle" => pc'[r] = pc[r]
      <3>1. DOMAIN pc = Run
        BY DEF TypeOK, RunOK
      <3> QED
        BY <1>2, <3>1
        DEF CommandStep, LoopStep, Receive, Take, EmptySetup, Boot, Setup,
            ConnectIgnored, Connect, Start, ReadCancel, Cancel, CancelThen,
            AwaitDone, Disconnected, PostLogout, RemoveSession, ForgetUser
    <2>2. out'[Loop] \notin Busy
      BY <1>2, <1>a, LoopEffect DEF CommandStep, BusyIsWorking
    <2>3. \A s \in Busy : "idle" \notin Stage(s)
      BY StageBusy DEF Working
    <2> QED
      BY <1>2, <2>1, <2>2, <2>3, LoopEffect DEF CommandStep, BusyIsWorking
  <1>3. ASSUME NEW r \in Run, RunStep(r) PROVE BusyIsWorking'
    <2>1. /\ \A p \in Proc \ {r} : out'[p] = out[p]
          /\ \A q \in Run \ {r} : pc'[q] = pc[q]
      BY <1>3, RunEffect
    <2>2. out'[r] \in Busy => pc'[r] \in Stage(out'[r]) \ {"report"}
      BY <1>3, RunTells
    <2> QED
      BY <1>a, <2>1, <2>2 DEF BusyIsWorking
  <1>4. CASE UNCHANGED vars
    BY <1>4 DEF vars, BusyIsWorking
  <1> QED
    BY <1>1, <1>2, <1>3, <1>4, NextSteps

\* The commands that stop a goroutine end with an emit.
LEMMA LoopTells ==
  ASSUME TypeOK, LoopQuiet, CommandStep
  PROVE  /\ LoopOwes => LoopOwes' \/ (Quiet(Loop) /\ out'[Loop] \in IdlePage)
         /\ \A s \in Busy, r \in Run : Owes(r, s) => LoopOwes' \/ Owes(r, s)'
  <1>a. DOMAIN out = Proc /\ Loop \in Proc /\ DOMAIN pc = Run /\ DOMAIN ctx = Run
    BY DEF TypeOK, LoopOK, RunOK, Proc
  <1>1. LoopOwes => LoopOwes' \/ (Quiet(Loop) /\ out'[Loop] \in IdlePage)
    BY <1>a, LoadSessionType
    DEF LoopOwes, LoopQuiet, CommandStep, LoopStep, Receive, Take, EmptySetup, Boot,
        Setup, ConnectIgnored, Connect, Start, ReadCancel, Cancel, CancelThen,
        AwaitDone, Disconnected, ShowIdle, LogoutSession, NextCommand, PostLogout,
        RemoveSession, ForgetUser, Emit, IdlePage
  <1>2. ASSUME NEW s \in Busy, NEW r \in Run, Owes(r, s) PROVE LoopOwes' \/ Owes(r, s)'
    <2>1. CASE Cancel
      BY <2>1 DEF Cancel, CancelThen, LoopOwes
    <2>2. ASSUME NEW q \in Run, Connect(q) PROVE Owes(r, s)'
      <3>1. pc[q] = "idle" /\ pc' = [pc EXCEPT ![q] = "load"] /\ ctx' = [ctx EXCEPT ![q] = FALSE]
        BY <2>2 DEF Connect, Start
      <3>2. r # q
        BY <1>2, <3>1, StageBusy DEF Owes, Working
      <3> QED
        BY <1>2, <1>a, <3>1, <3>2 DEF Owes
    <2>3. CASE ~Cancel /\ ~(\E q \in Run : Connect(q))
      <3>1. UNCHANGED <<pc, ctx>>
        BY <2>3
        DEF CommandStep, LoopStep, Receive, Take, EmptySetup, Boot, Setup,
            ConnectIgnored, ReadCancel, AwaitDone, Disconnected, PostLogout,
            RemoveSession, ForgetUser
      <3> QED
        BY <1>2, <3>1 DEF Owes
    <2> QED
      BY <2>1, <2>2, <2>3
  <1> QED
    BY <1>1, <1>2

LEMMA BusyIsOwedPreserved ==
  ASSUME TypeOK, LoopQuiet, HolderEmits, CancelledIsAwaited, BusyIsWorking,
         BusyIsOwed, Next
  PROVE  BusyIsOwed'
  <1>a. /\ Proc = Run \cup {Loop} /\ Loop \notin Run /\ Nobody \notin Proc
        /\ mu \in Proc \cup {Nobody} /\ DOMAIN out = Proc
        /\ DOMAIN ev = {"state", "endpoint", "user", "ip"}
        /\ IdlePage \cap (Busy \cup {""}) = {}
    BY DEF TypeOK, LoopOK, Proc, Event, IdlePage, Busy
  <1> SUFFICES ASSUME ev'.state \in Busy
               PROVE  \/ \E r \in Run : Owes(r, ev.state)'
                      \/ LoopOwes'
                      \/ \E p \in Proc : Replacing(p, ev.state)'
    BY DEF BusyIsOwed
  <1>1. CASE GpRecv
    BY <1>1 DEF GpRecv, BusyIsOwed, Owes, LoopOwes, Replacing
  <1>2. ASSUME NEW p \in Proc, EmitLock(p) PROVE \E r \in Run : Owes(r, ev.state)'
    <2>1. ev'.state = out[p] /\ UNCHANGED <<pc, ctx>>
      BY <1>2, <1>a DEF EmitLock
    <2>2. p \in Run /\ pc[p] \in Stage(out[p]) \ {"report"}
      BY <1>a, <2>1 DEF BusyIsWorking
    <2>3. Owes(p, ev.state)'
      BY <2>1, <2>2 DEF Owes
    <2> QED
      BY <2>2, <2>3
  <1>3. ASSUME NEW p \in Proc, EmitSend(p)
        PROVE  \/ \E r \in Run : Owes(r, ev.state)'
               \/ LoopOwes'
               \/ \E q \in Proc : Replacing(q, ev.state)'
    <2>1. /\ mu = p /\ mu' = Nobody /\ out' = [out EXCEPT ![p] = ""]
          /\ UNCHANGED <<ev, pc, ctx, loop>>
      BY <1>3 DEF EmitSend, Unlock
    <2>2. ASSUME NEW q \in Proc, Replacing(q, ev.state) PROVE Replacing(q, ev.state)'
      BY <1>a, <2>1, <2>2 DEF Replacing
    <2>3. ASSUME NEW r \in Run, Owes(r, ev.state) PROVE Owes(r, ev.state)'
      BY <2>1, <2>3 DEF Owes
    <2>4. LoopOwes => LoopOwes'
      BY <2>1 DEF LoopOwes
    <2> QED
      BY <2>1, <2>2, <2>3, <2>4 DEF BusyIsOwed
  <1>4. CASE CommandStep
    <2>1. mu' = mu /\ ev'.state = ev.state /\ \A r \in Run : out'[r] = out[r]
      BY <1>4, LoopEffect DEF CommandStep
    <2>2. ASSUME Quiet(Loop), out'[Loop] \in IdlePage
          PROVE  Replacing(Loop, ev.state)'
      BY <1>a, <2>1, <2>2 DEF Replacing, HolderEmits, Quiet
    <2>3. ASSUME NEW p \in Proc, Replacing(p, ev.state) PROVE Replacing(p, ev.state)'
      BY <1>4, <1>a, <2>1, <2>3, LoopEffect DEF CommandStep, Replacing, Quiet
    <2>4. ASSUME NEW r \in Run, Owes(r, ev.state) PROVE LoopOwes' \/ Owes(r, ev.state)'
      <3>1. \A s \in Busy : Owes(r, s) => LoopOwes' \/ Owes(r, s)'
        BY <1>4, LoopTells
      <3> QED
        BY <2>1, <2>4, <3>1 DEF Owes
    <2> QED
      BY <1>4, <1>a, <2>1, <2>2, <2>3, <2>4, LoopTells DEF BusyIsOwed
  <1>5. ASSUME NEW r \in Run, RunStep(r)
        PROVE  \/ \E q \in Run : Owes(q, ev.state)'
               \/ LoopOwes'
               \/ \E p \in Proc : Replacing(p, ev.state)'
    <2>1. /\ mu' = mu /\ ev'.state = ev.state /\ UNCHANGED <<loop, ctx>>
          /\ Quiet(r) /\ (\A p \in Proc \ {r} : out'[p] = out[p])
          /\ \A q \in Run \ {r} : pc'[q] = pc[q]
      BY <1>5, RunEffect
    <2>2. ASSUME NEW q \in Run \ {r}, Owes(q, ev.state) PROVE Owes(q, ev.state)'
      BY <2>1, <2>2 DEF Owes
    <2>3. ASSUME Owes(r, ev.state), ~Owes(r, ev.state)'
          PROVE  LoopOwes' \/ Replacing(r, ev.state)'
      <3>1. CASE ctx[r]
        <4>1. pc[r] # "idle"
          BY <2>1, <2>3, StageBusy DEF Owes, Working
        <4> QED
          BY <3>1, <4>1, <2>1 DEF CancelledIsAwaited, LoopOwes
      <3>2. CASE out'[r] \notin {"", ev.state}
        BY <3>2, <2>1, <1>a DEF Replacing, HolderEmits, Quiet
      <3>3. Owes(r, ev.state)' \/ ctx[r] \/ out'[r] \notin {"", ev.state}
        <4>1. \A s \in Busy : Owes(r, s) => Owes(r, s)' \/ ctx[r] \/ out'[r] \notin {"", s}
          BY <1>5, RunTells
        <4> QED
          BY <2>1, <2>3, <4>1 DEF Owes
      <3> QED
        BY <2>3, <3>1, <3>2, <3>3
    <2>4. LoopOwes => LoopOwes'
      BY <2>1 DEF LoopOwes
    <2>5. ASSUME NEW p \in Proc, Replacing(p, ev.state) PROVE Replacing(p, ev.state)'
      BY <2>1, <2>5 DEF Replacing, Quiet
    <2> QED
      BY <1>a, <2>1, <2>2, <2>3, <2>4, <2>5 DEF BusyIsOwed
  <1>6. CASE UNCHANGED vars
    BY <1>6 DEF vars, BusyIsOwed, Owes, LoopOwes, Replacing
  <1> QED
    BY <1>1, <1>2, <1>3, <1>4, <1>5, <1>6, NextSteps DEF ChannelStep

-----------------------------------------------------------------------------
(* The theorems.                                                           *)

LEMMA InitInv ==
  ASSUME Init PROVE IInv
  <1>1. TypeOK
    BY InitType
  <1>2. LoopQuiet /\ HolderEmits /\ BusyIsWorking /\ BusyIsOwed
    BY DEF Init, LoopQuiet, Quiet, Proc, HolderEmits, BusyIsWorking, BusyIsOwed, Busy
  <1>3. OneConnection /\ StopsTheRightOne /\ ProxyInServe
    BY DEF Init, OneConnection, StopsTheRightOne, ProxyInServe, Disconnecting, Working
  <1>4. SessionsAreIssued /\ LoggedOutStaysOut /\ CancelledIsAwaited
    BY DEF Init, SessionsAreIssued, LoggedOutStaysOut, CancelledIsAwaited
  <1>5. LastLineIsCurrent
    BY DEF Init, LastLineIsCurrent
  <1> QED
    BY <1>1, <1>2, <1>3, <1>4, <1>5 DEF IInv

\* A step that changes nothing keeps the types.
LEMMA StutterType ==
  ASSUME TypeOK, UNCHANGED vars PROVE TypeOK'
  <1>1. UNCHANGED <<mu, ev, cancel, out, events, view, loop, cmd, target>>
    BY DEF vars
  <1>2. UNCHANGED <<pc, host, sess, ctx, proxy, disk, conf, issued, wiped>>
    BY DEF vars
  <1>3. LoopOK'
    <2>1. LoopOK
      BY DEF TypeOK
    <2> QED
      BY <1>1, <2>1, Zenon DEF LoopOK
  <1>4. RunOK'
    <2>1. RunOK
      BY DEF TypeOK
    <2> QED
      BY <1>2, <2>1, Zenon DEF RunOK
  <1> QED
    BY <1>3, <1>4 DEF TypeOK

LEMMA NextInv ==
  ASSUME IInv, [Next]_vars PROVE IInv'
  <1>1. CASE Next
    <2>1. TypeOK'
      <3>1. CASE ChannelStep
        BY <3>1, ChannelType DEF IInv, ChannelStep
      <3>2. CASE CommandStep
        BY <3>2, LoopType DEF IInv, CommandStep
      <3>3. ASSUME NEW r \in Run, RunStep(r) PROVE TypeOK'
        BY <3>3, RunType DEF IInv
      <3>4. CASE UNCHANGED vars
        BY <3>4, StutterType DEF IInv
      <3> QED
        BY <1>1, <3>1, <3>2, <3>3, <3>4, NextSteps
    <2>2. LoopQuiet' /\ HolderEmits' /\ LastLineIsCurrent'
      BY <1>1, LoopQuietPreserved, HolderEmitsPreserved, LastLinePreserved DEF IInv
    <2>3. Control'
      BY <1>1, ControlPreserved DEF IInv, Control
    <2>4. Sessions'
      BY <1>1, SessionsPreserved DEF IInv, Control, Sessions
    <2>5. CancelledIsAwaited' /\ BusyIsWorking' /\ BusyIsOwed'
      BY <1>1, CancelledPreserved, BusyIsWorkingPreserved, BusyIsOwedPreserved
      DEF IInv, Control
    <2> QED
      BY <2>1, <2>2, <2>3, <2>4, <2>5 DEF IInv, Control, Sessions
  <1>2. CASE UNCHANGED vars
    <2>1. TypeOK'
      BY <1>2, StutterType DEF IInv
    <2>2. LoopQuiet' /\ HolderEmits' /\ LastLineIsCurrent'
      BY <1>2 DEF IInv, LoopQuiet, Quiet, HolderEmits, LastLineIsCurrent, vars
    <2>3. Control'
      BY <1>2
      DEF IInv, Control, OneConnection, StopsTheRightOne, ProxyInServe, vars
    <2>4. Sessions'
      BY <1>2 DEF IInv, Sessions, SessionsAreIssued, LoggedOutStaysOut, vars
    <2>5. CancelledIsAwaited' /\ BusyIsWorking' /\ BusyIsOwed'
      BY <1>2
      DEF IInv, CancelledIsAwaited, BusyIsWorking, BusyIsOwed, Owes, LoopOwes, Replacing, vars
    <2> QED
      BY <2>1, <2>2, <2>3, <2>4, <2>5 DEF IInv, Control, Sessions
  <1> QED
    BY <1>1, <1>2

\* IInv is an inductive invariant of the core.
THEOREM Invariance == Spec => []IInv
  <1>1. Init => IInv
    BY InitInv
  <1>2. IInv /\ [Next]_vars => IInv'
    BY NextInv
  <1> QED
    BY <1>1, <1>2, PTL DEF Spec

\* The variables keep their types; the channel keeps its capacity.
THEOREM TypeCorrect == Spec => []TypeOK
  <1>1. IInv => TypeOK
    BY DEF IInv
  <1> QED
    BY <1>1, Invariance, PTL

\* At most one connection goroutine works at a time, b.cancel is its cancel
\* function, and nobody else holds the listeners and the system proxy.
THEOREM OneConnectionHolds == Spec => []OneConnection
  <1>1. IInv => OneConnection
    BY DEF IInv
  <1> QED
    BY <1>1, Invariance, PTL

\* A session that was logged out is never saved or used again.
THEOREM LoggedOutStaysOutHolds == Spec => []LoggedOutStaysOut
  <1>1. IInv => LoggedOutStaysOut
    BY DEF IInv
  <1> QED
    BY <1>1, Invariance, PTL

\* The last line sent shows the state of b.ev.
THEOREM LastLineIsCurrentHolds == Spec => []LastLineIsCurrent
  <1>1. IInv => LastLineIsCurrent
    BY DEF IInv
  <1> QED
    BY <1>1, Invariance, PTL

\* A busy page says what a connection goroutine is doing; none stays behind when
\* the attempt it speaks of is over.
THEOREM BusyPageIsTrueHolds == Spec => []BusyPageIsTrue
  <1>1. ASSUME IInv PROVE BusyPageIsTrue
    <2>1. SUFFICES ASSUME loop \in {"recv", "setup", "connect", "disconnect"},
                          \A p \in Proc : Quiet(p), ev.state \in Busy
                   PROVE  \E r \in Run : pc[r] \in Stage(ev.state)
      BY DEF BusyPageIsTrue
    <2>2. ~LoopOwes
      BY <2>1 DEF LoopOwes
    <2>3. ~\E p \in Proc : Replacing(p, ev.state)
      BY <2>1 DEF Quiet, Replacing
    <2> QED
      BY <1>1, <2>1, <2>2, <2>3 DEF IInv, BusyIsOwed, Owes
  <1> QED
    BY <1>1, Invariance, PTL

\* "exited" is only on its way once the proxy is restored and no goroutine
\* works.
THEOREM ExitIsCleanHolds == Spec => []ExitIsClean
  <1>1. ASSUME IInv PROVE ExitIsClean
    <2>1. SUFFICES ASSUME loop = "exited"
                   PROVE  proxy = Nobody /\ \A r \in Run : pc[r] \notin Working
      BY DEF ExitIsClean
    <2>2. cancel = Nobody
      BY <1>1, <2>1 DEF IInv, StopsTheRightOne, Disconnecting
    <2> QED
      BY <1>1, <2>2 DEF IInv, OneConnection, TypeOK, RunOK
  <1> QED
    BY <1>1, Invariance, PTL

-----------------------------------------------------------------------------
(* What has been shown, and that no goroutine waits for another for ever.  *)

\* The line "exited" is on its way or has arrived.
ExitSaid ==
  view = "exited" \/ \E i \in 1..Len(events) : events[i].state = "exited"

\* A loop that has ended says so, and nothing is shown before the first emit.
EndIsSaid ==
  loop = "exited" => out[Loop] = "exited" \/ (Quiet(Loop) /\ ExitSaid)

NothingYet == ev.state = "" => view = "starting" /\ events = <<>>

LEMMA ExitStaysSaid ==
  ASSUME TypeOK, HolderEmits, ExitSaid, Next
  PROVE  ExitSaid'
  <1>a. events \in Seq(Event(State))
    BY DEF TypeOK, LoopOK
  <1>1. CASE GpRecv
    <2>1. /\ events # <<>> /\ events' = Tail(events) /\ view # "exited"
          /\ view' = Head(events).state
      BY <1>1 DEF GpRecv
    <2>2. PICK i \in 1..Len(events) : events[i].state = "exited"
      BY <2>1 DEF ExitSaid
    <2>3. CASE i = 1
      BY <1>a, <2>1, <2>2, <2>3 DEF ExitSaid
    <2>4. CASE i # 1
      <3>1. Len(events) \in Nat /\ Len(Tail(events)) = Len(events) - 1
            /\ \A k \in 1..Len(Tail(events)) : Tail(events)[k] = events[k + 1]
        BY <1>a, <2>1, HeadTailProperties, LenProperties
      <3>2. PICK k \in 1..Len(Tail(events)) : k + 1 = i
        <4>1. i - 1 \in 1..Len(Tail(events))
          BY <2>2, <2>4, <3>1
        <4> QED
          BY <2>2, <4>1
      <3>3. events'[k].state = "exited"
        BY <2>1, <2>2, <3>1, <3>2
      <3> QED
        BY <2>1, <3>2, <3>3 DEF ExitSaid
    <2> QED
      BY <2>3, <2>4
  <1>2. ASSUME NEW p \in Proc, EmitSend(p) PROVE ExitSaid'
    <2>1. events' = Append(events, ev) /\ view' = view /\ ev \in Event(State)
      BY <1>2, SentIsLine DEF EmitSend, Unlock
    <2>2. /\ Len(events) \in Nat /\ Len(Append(events, ev)) = Len(events) + 1
          /\ \A k \in 1..Len(events) : Append(events, ev)[k] = events[k]
      BY <1>a, <2>1
    <2>3. \A k \in 1..Len(events) : k \in 1..Len(events') /\ events'[k] = events[k]
      BY <2>1, <2>2
    <2> QED
      BY <2>1, <2>3 DEF ExitSaid
  <1>3. CASE \E p \in Proc : EmitLock(p)
    BY <1>3 DEF EmitLock, ExitSaid
  <1>4. CASE CommandStep
    BY <1>4, LoopEffect DEF CommandStep, ExitSaid, LoopStep, Receive, Take, EmptySetup,
       Boot, Setup, ConnectIgnored, Connect, Start, ReadCancel, Cancel, CancelThen,
       AwaitDone, Disconnected, PostLogout, RemoveSession, ForgetUser
  <1>5. ASSUME NEW r \in Run, RunStep(r) PROVE ExitSaid'
    BY <1>5, RunEffect DEF ExitSaid
  <1>6. CASE UNCHANGED vars
    BY <1>6 DEF vars, ExitSaid
  <1> QED
    BY <1>1, <1>2, <1>3, <1>4, <1>5, <1>6, NextSteps DEF ChannelStep

\* The line just sent counts.
LEMMA SentIsSaid ==
  ASSUME TypeOK, HolderEmits, EmitSend(Loop), out[Loop] = "exited"
  PROVE  ExitSaid'
  <1>1. /\ events \in Seq(Event(State)) /\ Loop \in Proc /\ mu = Loop
        /\ events' = Append(events, ev) /\ ev.state = "exited"
    BY DEF TypeOK, LoopOK, Proc, EmitSend, Unlock, HolderEmits
  <1>2. /\ Len(events) + 1 \in 1..Len(events') /\ events'[Len(events) + 1] = ev
    <2>1. ev \in Event(State)
      BY <1>1, SentIsLine
    <2>2. Len(events) \in Nat /\ Len(Append(events, ev)) = Len(events) + 1
          /\ Append(events, ev)[Len(events) + 1] = ev
      BY <1>1, <2>1
    <2> QED
      BY <1>1, <2>2
  <1> QED
    BY <1>1, <1>2 DEF ExitSaid

LEMMA EndIsSaidPreserved ==
  ASSUME TypeOK, LoopQuiet, HolderEmits, EndIsSaid, Next
  PROVE  EndIsSaid'
  <1>a. Loop \in Proc /\ Loop \notin Run /\ DOMAIN out = Proc
    BY DEF TypeOK, LoopOK, Proc
  <1>b. ExitSaid => ExitSaid'
    BY ExitStaysSaid
  <1>1. CASE GpRecv \/ \E p \in Proc : EmitLock(p)
    <2>1. UNCHANGED <<loop, out>>
      BY <1>1 DEF GpRecv, EmitLock
    <2> QED
      BY <1>b, <2>1 DEF EndIsSaid, Quiet
  <1>2. ASSUME NEW p \in Proc, EmitSend(p) PROVE EndIsSaid'
    <2>1. loop' = loop /\ out' = [out EXCEPT ![p] = ""]
      BY <1>2 DEF EmitSend, Unlock
    <2>2. CASE p = Loop
      BY <1>2, <1>a, <1>b, <2>1, <2>2, SentIsSaid DEF EndIsSaid, Quiet
    <2>3. CASE p # Loop
      BY <1>a, <1>b, <2>1, <2>3 DEF EndIsSaid, Quiet
    <2> QED
      BY <2>2, <2>3
  <1>3. CASE CommandStep
    <2> SUFFICES ASSUME loop' = "exited" PROVE out'[Loop] = "exited"
      BY DEF EndIsSaid
    <2> QED
      BY <1>3, <1>a
      DEF CommandStep, LoopStep, Receive, Take, EmptySetup, Boot, Setup, ConnectIgnored,
          Connect, Start, ReadCancel, Cancel, CancelThen, AwaitDone, Disconnected,
          ShowIdle, LogoutSession, NextCommand, PostLogout, RemoveSession, ForgetUser,
          Emit
  <1>4. ASSUME NEW r \in Run, RunStep(r) PROVE EndIsSaid'
    BY <1>4, <1>a, <1>b, RunEffect DEF EndIsSaid, Quiet
  <1>5. CASE UNCHANGED vars
    BY <1>5 DEF vars, EndIsSaid, Quiet, ExitSaid
  <1> QED
    BY <1>1, <1>2, <1>3, <1>4, <1>5, NextSteps DEF ChannelStep

LEMMA NothingYetPreserved ==
  ASSUME TypeOK, LoopQuiet, HolderEmits, NothingYet, Next
  PROVE  NothingYet'
  <1>a. DOMAIN ev = {"state", "endpoint", "user", "ip"}
    BY DEF TypeOK, LoopOK, Event
  <1>1. CASE GpRecv
    BY <1>1 DEF GpRecv, NothingYet
  <1>2. ASSUME NEW p \in Proc, EmitLock(p) PROVE NothingYet'
    BY <1>2, <1>a DEF EmitLock, Quiet, NothingYet
  <1>3. ASSUME NEW p \in Proc, EmitSend(p) PROVE NothingYet'
    BY <1>3 DEF EmitSend, Unlock, HolderEmits, NothingYet, Proc
  <1>4. CASE CommandStep
    BY <1>4, LoopEffect DEF CommandStep, NothingYet
  <1>5. ASSUME NEW r \in Run, RunStep(r) PROVE NothingYet'
    BY <1>5, RunEffect DEF NothingYet
  <1>6. CASE UNCHANGED vars
    BY <1>6 DEF vars, NothingYet
  <1> QED
    BY <1>1, <1>2, <1>3, <1>4, <1>5, <1>6, NextSteps DEF ChannelStep

LEMMA SaidInvariance == Spec => [](EndIsSaid /\ NothingYet)
  <1>1. Init => EndIsSaid /\ NothingYet
    BY DEF Init, EndIsSaid, NothingYet
  <1>2. IInv /\ EndIsSaid /\ NothingYet /\ [Next]_vars => (EndIsSaid /\ NothingYet)'
    <2> SUFFICES ASSUME IInv, EndIsSaid, NothingYet, [Next]_vars
                 PROVE  EndIsSaid' /\ NothingYet'
      OBVIOUS
    <2>1. CASE Next
      BY <2>1, EndIsSaidPreserved, NothingYetPreserved DEF IInv
    <2>2. CASE UNCHANGED vars
      BY <2>2 DEF vars, EndIsSaid, NothingYet, Quiet, ExitSaid
    <2> QED
      BY <2>1, <2>2
  <1> QED
    BY <1>1, <1>2, Invariance, PTL DEF Spec

\* What the user sees: once all lines have arrived and nobody is stopping the
\* connection, a busy page says what a connection goroutine is doing.
ShownPageIsTrue ==
  /\ loop \in {"recv", "setup", "connect", "disconnect"}
  /\ \A p \in Proc : Quiet(p)
  /\ events = <<>>
  /\ view \in Busy
  => \E r \in Run : pc[r] \in Stage(view)

\* A page on the screen is not only the last one that b.ev held; it is true.
THEOREM ShownPageIsTrueHolds == Spec => []ShownPageIsTrue
  <1>1. ASSUME IInv, NothingYet, BusyPageIsTrue PROVE ShownPageIsTrue
    <2> SUFFICES ASSUME loop \in {"recv", "setup", "connect", "disconnect"},
                        \A p \in Proc : Quiet(p), events = <<>>, view \in Busy
                 PROVE  \E r \in Run : pc[r] \in Stage(view)
      BY DEF ShownPageIsTrue
    <2>1. mu = Nobody
      BY <1>1 DEF IInv, HolderEmits, Quiet, TypeOK, LoopOK
    <2>2. ev.state # ""
      BY <1>1 DEF NothingYet, Busy
    <2>3. view = ev.state
      BY <1>1, <2>1, <2>2 DEF IInv, LastLineIsCurrent
    <2> QED
      BY <1>1, <2>3 DEF BusyPageIsTrue
  <1> QED
    BY <1>1, Invariance, SaidInvariance, BusyPageIsTrueHolds, PTL

\* The guard of one step each, of those that need neither a command nor the
\* user: the receiving thread's, the two halves of an emit, the loop's (most ask
\* for nothing, some for the mutex, one for the end of a goroutine), and those of
\* a connection goroutine, of which two ask for the mutex.
ChannelCanMove ==
  \/ events # <<>> /\ view # "exited"
  \/ \E p \in Proc : ~Quiet(p) /\ mu = Nobody
  \/ \E p \in Proc : mu = p /\ Len(events) < EventCap

LoopCanMove ==
  \/ loop \in {"boot", "cancel", "after", "post", "wipe"}
  \/ loop \in {"setup", "disconnect", "forget"} /\ mu = Nobody
  \/ /\ loop = "connect" /\ mu = Nobody
     /\ cancel # Nobody \/ ev.endpoint = NoHost \/ \E r \in Run : pc[r] = "idle"
  \/ loop = "wait" /\ pc[target] = "idle"

RunCanMove(r) ==
  pc[r] # "idle" /\ Quiet(r) /\ (pc[r] \in {"publish", "clear"} => mu = Nobody)

\* Nothing is left to do but to wait for a command, or the program has ended.
AtRest ==
  /\ loop = "recv" /\ events = <<>>
  /\ \A p \in Proc : Quiet(p)
  /\ \A r \in Run : pc[r] = "idle"

CanMove == ChannelCanMove \/ LoopCanMove \/ \E r \in Run : RunCanMove(r)

\* No circle of waits, for the mutex that emit holds while the channel is full,
\* for the room in the channel and for the end of the goroutine that disconnect
\* stops: until the core is at rest or the GUI has the line "exited" somebody can
\* move, without any command and whatever the slots and the capacity.
THEOREM NeverStuck ==
  ASSUME Run # {}
  PROVE  Spec => [](view = "exited" \/ AtRest \/ CanMove)
  <1>1. ASSUME IInv, EndIsSaid PROVE view = "exited" \/ AtRest \/ CanMove
    <2> SUFFICES ASSUME view # "exited", ~AtRest, ~ChannelCanMove, ~LoopCanMove
                 PROVE  \E r \in Run : RunCanMove(r)
      BY DEF CanMove
    <2>1. events = <<>>
      BY DEF ChannelCanMove
    <2>2. mu = Nobody
      <3>1. Len(events) < EventCap
        BY <2>1
      <3> QED
        BY <1>1, <3>1 DEF ChannelCanMove, IInv, TypeOK, LoopOK
    <2>3. \A p \in Proc : Quiet(p)
      BY <2>2 DEF ChannelCanMove
    <2>4. CASE \A r \in Run : pc[r] = "idle"
      <3>1. loop # "wait"
        BY <1>1, <2>4 DEF LoopCanMove, IInv, StopsTheRightOne
      <3>2. loop # "recv"
        BY <2>1, <2>3, <2>4 DEF AtRest
      <3>3. loop # "connect"
        BY <1>1, <2>2, <2>4 DEF LoopCanMove
      <3>4. loop = "exited"
        BY <1>1, <2>2, <3>1, <3>2, <3>3 DEF LoopCanMove, IInv, TypeOK, LoopOK
      <3>5. ~ExitSaid
        <4>1. Len(events) = 0
          BY <2>1
        <4> QED
          BY <4>1 DEF ExitSaid
      <3>6. Loop \in Proc
        BY DEF Proc
      <3> QED
        BY <1>1, <2>3, <3>4, <3>5, <3>6 DEF EndIsSaid, Quiet
    <2>5. CASE \E r \in Run : pc[r] # "idle"
      BY <2>2, <2>3, <2>5 DEF RunCanMove, Proc
    <2> QED
      BY <2>4, <2>5
  <1> QED
    BY <1>1, Invariance, SaidInvariance, PTL

-----------------------------------------------------------------------------
(* What the end of a disconnect rests on.  That it comes is                *)
(* DisconnectReturns, of fairness; here is that it is near.                *)

\* How many steps a goroutine still takes to the end of its connection at most, once
\* its context is cancelled; between two of them there is one emit at most.
StepsLeft(l) ==
  CASE l = "load" -> 17 [] l = "config" -> 16 [] l = "prelogin" -> 15
    [] l = "browser" -> 14 [] l = "login" -> 13 [] l = "config2" -> 12 [] l = "save" -> 11
    [] l = "publish" -> 10 [] l = "serve" -> 9 [] l = "dial" -> 8
    [] l \in {"up", "backoff"} -> 7 [] l = "head" -> 6 [] l = "unwind" -> 5
    [] l = "clear" -> 4 [] l = "report" -> 3 [] l = "exit" -> 2 [] l = "idle" -> 0

\* A goroutine whose context is cancelled stays cancelled to its end, and every step
\* it takes brings it nearer: it goes through what is left of the login, a dial at
\* most and serve's deferred calls, and never back to an earlier point.
CancelCountsDown ==
  [][\A r \in Run : ctx[r] /\ pc[r] # "idle" =>
       ctx'[r] /\ (pc'[r] # pc[r] => StepsLeft(pc'[r]) < StepsLeft(pc[r]))]_vars

\* And disconnect waits for none but such a goroutine.
AwaitedIsCancelled == loop = "wait" => target \in Run /\ ctx[target]

\* Where a step may take a cancelled goroutine.
LEMMA CancelledStep ==
  ASSUME TypeOK, NEW r \in Run, ctx[r], RunStep(r)
  PROVE  StepsLeft(pc'[r]) < StepsLeft(pc[r])
  <1>a. DOMAIN pc = Run
    BY DEF TypeOK, RunOK
  <1> USE <1>a DEF StepsLeft, At, Goto, Move, Tell
  <1>1. CASE Load(r) \/ Config(r) \/ Prelogin(r) \/ BrowserLogin(r)
    BY <1>1 DEF Load, Config, Prelogin, BrowserLogin
  <1>2. CASE GatewayLogin(r) \/ Config2(r) \/ SaveSession(r) \/ Publish(r)
    BY <1>2 DEF GatewayLogin, Issue, Config2, SaveSession, Publish
  <1>3. CASE Serve(r) \/ TunnelHead(r) \/ OpenTunnel(r)
    BY <1>3 DEF Serve, TunnelHead, OpenTunnel
  <1>4. CASE Backoff(r) \/ TunnelDown(r) \/ Unwind(r)
    BY <1>4 DEF Backoff, TunnelDown, Unwind
  <1>5. CASE ClearCancel(r) \/ Report(r) \/ CloseDone(r)
    BY <1>5 DEF ClearCancel, Report, CloseDone
  <1> QED
    BY <1>1, <1>2, <1>3, <1>4, <1>5 DEF RunStep

\* Only connect gives a slot another context, and only to a slot that is free.
LEMMA ContextKept ==
  ASSUME TypeOK, Next
  PROVE  /\ \A r \in Run : ctx[r] /\ pc[r] # "idle" => ctx'[r]
         /\ \A r \in Run : pc'[r] = pc[r] \/ pc[r] = "idle" \/ RunStep(r)
         /\ loop = "wait" => \A r \in Run : ctx[r] => ctx'[r]
  <1>a. DOMAIN pc = Run /\ DOMAIN ctx = Run
    BY DEF TypeOK, RunOK
  <1>1. CASE ChannelStep
    BY <1>1 DEF ChannelStep, GpRecv, EmitLock, EmitSend, Unlock
  <1>2. ASSUME NEW r \in Run, Connect(r)
        PROVE  /\ loop = "connect" /\ pc[r] = "idle"
               /\ \A q \in Run \ {r} : ctx'[q] = ctx[q] /\ pc'[q] = pc[q]
    BY <1>2, <1>a DEF Connect, Start
  <1>3. CASE CommandStep /\ ~\E r \in Run : Connect(r)
    <2>1. pc' = pc
      BY <1>3
      DEF CommandStep, LoopStep, Receive, Take, EmptySetup, Boot, Setup,
          ConnectIgnored, ReadCancel, Cancel, CancelThen, AwaitDone,
          Disconnected, PostLogout, RemoveSession, ForgetUser
    <2>2. \A r \in Run : ctx[r] => ctx'[r]
      BY <1>3, <1>a
      DEF CommandStep, LoopStep, Receive, Take, EmptySetup, Boot, Setup,
          ConnectIgnored, ReadCancel, Cancel, CancelThen, AwaitDone,
          Disconnected, PostLogout, RemoveSession, ForgetUser
    <2> QED
      BY <2>1, <2>2
  <1>4. ASSUME NEW r \in Run, RunStep(r)
        PROVE  ctx' = ctx /\ \A q \in Run \ {r} : pc'[q] = pc[q]
    BY <1>4, RunEffect
  <1>5. CASE UNCHANGED vars
    BY <1>5 DEF vars
  <1> QED
    BY <1>1, <1>2, <1>3, <1>4, <1>5, NextSteps DEF CommandStep

\* disconnect's wait begins with its cancel, and keeps its target.
LEMMA WaitStep ==
  ASSUME TypeOK, Next, loop' = "wait"
  PROVE  Cancel \/ (loop = "wait" /\ target' = target)
  <1>1. CASE ChannelStep
    BY <1>1 DEF ChannelStep, GpRecv, EmitLock, EmitSend, Unlock
  <1>2. CASE CommandStep
    BY <1>2
    DEF CommandStep, LoopStep, Receive, Take, EmptySetup, Boot, Setup, ConnectIgnored,
        Connect, Start, ReadCancel, Cancel, CancelThen, AwaitDone, Disconnected, ShowIdle,
        LogoutSession, NextCommand, PostLogout, RemoveSession, ForgetUser
  <1>3. ASSUME NEW r \in Run, RunStep(r) PROVE loop' = loop /\ target' = target
    BY <1>3, RunEffect
  <1>4. CASE UNCHANGED vars
    BY <1>4 DEF vars
  <1> QED
    BY <1>1, <1>2, <1>3, <1>4, NextSteps

\* A goroutine that disconnect waits for is cancelled, and at most seventeen steps
\* from its end, whatever it was doing.
THEOREM DisconnectIsNear == Spec => CancelCountsDown /\ []AwaitedIsCancelled
  <1>1. ASSUME TypeOK, [Next]_vars, NEW r \in Run, ctx[r], pc[r] # "idle"
        PROVE  ctx'[r] /\ (pc'[r] # pc[r] => StepsLeft(pc'[r]) < StepsLeft(pc[r]))
    <2>1. CASE Next
      BY <1>1, <2>1, ContextKept, CancelledStep
    <2>2. CASE UNCHANGED vars
      BY <1>1, <2>2 DEF vars
    <2> QED
      BY <1>1, <2>1, <2>2
  <1>2. IInv /\ [Next]_vars
          => [\A r \in Run : ctx[r] /\ pc[r] # "idle" =>
                ctx'[r] /\ (pc'[r] # pc[r] => StepsLeft(pc'[r]) < StepsLeft(pc[r]))]_vars
    BY <1>1 DEF IInv
  <1>3. ASSUME IInv, IInv', AwaitedIsCancelled, [Next]_vars PROVE AwaitedIsCancelled'
    <2> SUFFICES ASSUME loop' = "wait" PROVE ctx'[target']
      BY <1>3 DEF AwaitedIsCancelled, IInv, StopsTheRightOne
    <2>a. target' \in Run /\ DOMAIN ctx = Run
      BY <1>3 DEF IInv, StopsTheRightOne, TypeOK, RunOK
    <2>1. CASE UNCHANGED vars
      BY <1>3, <2>1 DEF vars, AwaitedIsCancelled
    <2>2. CASE Cancel
      BY <2>2, <2>a DEF Cancel, CancelThen
    <2>3. CASE Next /\ loop = "wait" /\ target' = target
      BY <1>3, <2>3, <2>a, ContextKept DEF AwaitedIsCancelled, IInv
    <2> QED
      BY <1>3, <2>1, <2>2, <2>3, WaitStep DEF IInv
  <1>4. Init => AwaitedIsCancelled
    BY DEF Init, AwaitedIsCancelled
  <1> QED
    BY <1>2, <1>3, <1>4, Invariance, PTL DEF Spec, CancelCountsDown

-----------------------------------------------------------------------------
(* Backend implements Vpn.                                                 *)

\* Every step of the core is a step of Vpn, or one that Vpn does not see.
LEMMA StepImplements ==
  ASSUME IInv, [Next]_vars PROVE [Core!Next]_(Core!vars)
  <1>a. /\ Nobody \notin Run /\ proxy \in Run \cup {Nobody}
        /\ disk \in Session \cup {NoSession} /\ NoSession \notin Session
        /\ cancel \in Run \cup {Nobody}
        /\ sess \in [Run -> Session \cup {NoSession}]
    BY DEF IInv, TypeOK, LoopOK, RunOK
  <1>b. OneConnection /\ StopsTheRightOne /\ ProxyInServe /\ LoggedOutStaysOut
    BY DEF IInv
  <1>1. CASE UNCHANGED vars \/ ChannelStep
    BY <1>1 DEF vars, ChannelStep, GpRecv, EmitLock, EmitSend, Unlock, Core!vars
  <1>2. ASSUME NEW r \in Run, Connect(r) PROVE Core!Next
    BY <1>2 DEF Connect, Start, Core!Next, Core!Start
  <1>3. CASE RemoveSession
    <2>1. cancel = Nobody
      BY <1>3, <1>b DEF RemoveSession, StopsTheRightOne, Disconnecting
    <2> QED
      BY <1>3, <2>1 DEF RemoveSession, Core!Next, Core!Logout, Core!vars
  <1>4. CASE CommandStep /\ ~(\E r \in Run : Connect(r)) /\ ~RemoveSession
    BY <1>4
    DEF CommandStep, LoopStep, Receive, Take, EmptySetup, Boot, Setup,
        ConnectIgnored, ReadCancel, Cancel, CancelThen, AwaitDone, Disconnected,
        PostLogout, ForgetUser, Core!vars
  <1>5. ASSUME NEW r \in Run, SaveSession(r) PROVE [Core!Next]_(Core!vars)
    <2>1. /\ cancel = r /\ sess[r] \notin wiped
          /\ disk' \in {sess[r], disk, NoSession}
          /\ UNCHANGED <<cancel, proxy, wiped>>
      BY <1>5, <1>b
      DEF SaveSession, At, OneConnection, LoggedOutStaysOut, Working
    <2>2. CASE disk' = disk
      BY <2>1, <2>2 DEF Core!vars
    <2>3. CASE disk' = NoSession
      BY <1>a, <2>1, <2>3 DEF Core!Next, Core!Lose
    <2>4. CASE disk' = sess[r] /\ sess[r] # NoSession
      <3>1. Core!Save(sess[r]) /\ sess[r] \in Session
        BY <1>a, <2>1, <2>4 DEF Core!Save
      <3> QED
        BY <3>1 DEF Core!Next
    <2> QED
      BY <2>1, <2>2, <2>3, <2>4
  <1>6. ASSUME NEW r \in Run, RunStep(r), ~SaveSession(r)
        PROVE  [Core!Next]_(Core!vars)
    <2>1. UNCHANGED <<disk, wiped>>
      BY <1>6
      DEF RunStep, Load, Config, Prelogin, BrowserLogin, GatewayLogin, Issue,
          Config2, Publish, Serve, TunnelHead, OpenTunnel, Backoff, TunnelDown,
          Unwind, ClearCancel, Report, CloseDone, Move, Tell
    <2>2. pc[r] \in Working => cancel = r
      BY <1>b DEF OneConnection
    <2>3. CASE WorksOn(r) \/ Ends(r)
      BY <2>1, <2>3 DEF WorksOn, Ends, Core!vars
    <2>4. CASE TakesProxy(r)
      BY <1>a, <2>1, <2>2, <2>4 DEF TakesProxy, Core!Next, Core!Route, Core!vars
    <2>5. CASE GivesProxyBack(r)
      BY <1>a, <2>1, <2>2, <2>5
      DEF GivesProxyBack, Core!Next, Core!Unroute, Core!vars
    <2>6. CASE GivesCancelUp(r)
      BY <1>a, <1>b, <2>1, <2>2, <2>6
      DEF GivesCancelUp, OneConnection, ProxyInServe, Core!Next, Core!Stop
    <2> QED
      BY <1>6, <2>3, <2>4, <2>5, <2>6, RunControl DEF IInv
  <1> QED
    BY <1>1, <1>2, <1>3, <1>4, <1>5, <1>6, NextSteps DEF CommandStep

\* The core keeps what Vpn promises.
THEOREM Implementation == Spec => ImplementsVpn
  <1>1. Init => Core!Init
    BY DEF Init, Core!Init
  <1>2. IInv /\ [Next]_vars => [Core!Next]_(Core!vars)
    BY StepImplements
  <1> QED
    BY <1>1, <1>2, Invariance, PTL DEF Spec, ImplementsVpn, Core!Spec

-----------------------------------------------------------------------------
(* Each goroutine of Backend implements RunTunnel.                         *)

Phase(r) ==
  CASE pc[r] \in {"head", "up"} -> pc[r]
    [] pc[r] \in {"dial", "backoff"} -> "open"
    [] pc[r] = "unwind" -> "back"
    [] OTHER -> "out"

Life(r) == INSTANCE RunTunnel WITH at <- Phase(r), off <- ctx[r]

\* A step of a goroutine's own.
LEMMA LifeRunStep ==
  ASSUME TypeOK, NEW r \in Run, RunStep(r)
  PROVE  [Life(r)!Next]_(Life(r)!vars)
  <1>a. DOMAIN pc = Run /\ ctx' = ctx
    BY RunEffect DEF TypeOK, RunOK
  <1> USE <1>a DEF At, Goto, Move, Tell, Phase, Life!Next, Life!vars, Life!Go
  <1>1. CASE \/ Load(r) \/ Config(r) \/ Prelogin(r) \/ BrowserLogin(r)
             \/ GatewayLogin(r) \/ Config2(r) \/ SaveSession(r) \/ Publish(r)
             \/ ClearCancel(r) \/ Report(r) \/ CloseDone(r)
    BY <1>1 DEF Load, Config, Prelogin, BrowserLogin, GatewayLogin, Issue, Config2,
       SaveSession, Publish, ClearCancel, Report, CloseDone
  <1>2. CASE Serve(r)
    BY <1>2 DEF Serve, Life!Enter
  <1>3. CASE TunnelHead(r)
    BY <1>3 DEF TunnelHead, Life!Look
  <1>4. CASE OpenTunnel(r) \/ Backoff(r)
    BY <1>4 DEF OpenTunnel, Backoff, Life!Open
  <1>5. CASE TunnelDown(r)
    BY <1>5 DEF TunnelDown, Life!Down
  <1>6. CASE Unwind(r)
    BY <1>6 DEF Unwind, Life!Back
  <1> QED
    BY <1>1, <1>2, <1>3, <1>4, <1>5, <1>6 DEF RunStep

\* The runTunnel that the command loop starts and waits for is that of Tunnel.
THEOREM BackendImplementsRunTunnel ==
  ASSUME NEW r \in Run
  PROVE  Spec => Life(r)!Spec
  <1>1. Init => Life(r)!Init
    BY DEF Init, Phase, Life!Init
  <1>2. ASSUME TypeOK, [Next]_vars PROVE [Life(r)!Next]_(Life(r)!vars)
    <2>a. DOMAIN pc = Run /\ DOMAIN ctx = Run /\ ctx \in [Run -> BOOLEAN]
      BY <1>2 DEF TypeOK, RunOK
    <2>1. CASE ChannelStep \/ UNCHANGED vars
      BY <2>1 DEF ChannelStep, GpRecv, EmitLock, EmitSend, Unlock, vars, Phase, Life!vars
    <2>2. ASSUME NEW q \in Run, Connect(q) PROVE [Life(r)!Next]_(Life(r)!vars)
      <3>1. CASE q = r
        BY <2>2, <3>1, <2>a
        DEF Connect, Start, Phase, Life!Next, Life!Renew
      <3>2. CASE q # r
        BY <2>2, <3>2, <2>a DEF Connect, Start, Phase, Life!vars
      <3> QED
        BY <3>1, <3>2
    <2>3. CASE Cancel
      <3>1. pc' = pc /\ (ctx'[r] = TRUE \/ ctx'[r] = ctx[r])
        BY <2>3, <2>a DEF Cancel, CancelThen
      <3> QED
        BY <3>1 DEF Phase, Life!vars, Life!Next, Life!Cancel
    <2>4. CASE CommandStep /\ ~(\E q \in Run : Connect(q)) /\ ~Cancel
      <3>1. pc' = pc /\ ctx' = ctx
        BY <2>4
        DEF CommandStep, LoopStep, Receive, Take, EmptySetup, Boot, Setup,
            ConnectIgnored, ReadCancel, AwaitDone, Disconnected, PostLogout,
            RemoveSession, ForgetUser
      <3> QED
        BY <3>1 DEF Phase, Life!vars
    <2>5. ASSUME NEW q \in Run, RunStep(q) PROVE [Life(r)!Next]_(Life(r)!vars)
      <3>1. CASE q = r
        BY <1>2, <2>5, <3>1, LifeRunStep
      <3>2. CASE q # r
        <4>1. pc'[r] = pc[r] /\ ctx' = ctx
          BY <1>2, <2>5, <3>2, RunEffect
        <4> QED
          BY <4>1 DEF Phase, Life!vars
      <3> QED
        BY <3>1, <3>2
    <2> QED
      BY <1>2, <2>1, <2>2, <2>3, <2>4, <2>5, NextSteps DEF CommandStep
  <1> QED
    BY <1>1, <1>2, TypeCorrect, PTL DEF Spec, Life!Spec
=============================================================================
