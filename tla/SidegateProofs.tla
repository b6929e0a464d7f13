--------------------------- MODULE SidegateProofs ---------------------------
(***************************************************************************)
(* Proofs about Sidegate, for any sets of gateways, sessions and goroutine *)
(* slots and any capacities of the two channels: the program does nothing  *)
(* the core of module Backend does not do, so what BackendProofs shows of  *)
(* the core holds in it; and what the user asked for last is what happens, *)
(* however many commands wait.                                             *)
(***************************************************************************)
EXTENDS Sidegate, BackendProofs

\* The commands the core has not taken yet, the oldest first.
Pending == IF todo = NoCommand THEN cmds ELSE Append(cmds, todo)

\* The commands that stop a connection, and those that may start one.
Stops(c)  == c.op \in {"disconnect", "logout", "quit"}
Starts(c) == c.op = "connect" \/ (c.op = "setup" /\ c.host # NoHost)

\* Of a sequence of commands: a stop comes after every start; there is a stop; no
\* start; no start after some logout; a quit is the last.
StopFollows(s) ==
  \A i \in 1..Len(s) : Starts(s[i]) => \E j \in 1..Len(s) : i < j /\ Stops(s[j])
HasStop(s) == \E i \in 1..Len(s) : Stops(s[i])
NoStart(s) == \A i \in 1..Len(s) : ~Starts(s[i])
LogoutLast(s) ==
  \E i \in 1..Len(s) : /\ s[i].op = "logout"
                       /\ \A j \in 1..Len(s) : i < j => ~Starts(s[j])
NoQuit(s) == \A i \in 1..Len(s) : s[i].op # "quit"
QuitLast(s) == \A i \in 1..Len(s) : s[i].op = "quit" => i = Len(s)

\* Nothing is connected, nor will the command that is being worked on connect.
Stopped == cancel = Nobody /\ loop \notin {"setup", "connect"}

Stopping == loop \in {"disconnect", "cancel", "wait"}

\* What the user asked for last is done, being done, or waits in line.
WillStop ==
  asked # "on" => StopFollows(Pending) /\ (HasStop(Pending) \/ Stopping \/ Stopped)

LoggingOut ==
  /\ cmd.op = "logout"
  /\ loop \in {"disconnect", "cancel", "wait", "after", "post", "wipe"}

\* No session is left on the disk, or the last logout could not remove it.
Forgotten == disk = NoSession \/ refused

WillLogOut ==
  asked = "out" =>
    \/ LogoutLast(Pending)
    \/ NoStart(Pending) /\ (LoggingOut \/ (Stopped /\ Forgotten))

\* A quit is the last command, and the GUI sends nothing after it.
QuitIsLast ==
  /\ QuitLast(Pending)
  /\ gui = "loop" /\ todo = NoCommand => NoQuit(Pending)
  /\ gui # "loop" => todo = NoCommand
  /\ cmd.op = "quit" => Pending = <<>> /\ gui # "loop"

\* Which command the loop works on.
CommandAtHand ==
  /\ loop = "exited" => cmd.op = "quit"
  /\ loop \in {"boot", "recv"} => cmd = NoCommand

\* "exited" is only said at the end.
ExitedIsLast ==
  loop # "exited" =>
    /\ view # "exited" /\ ev.state # "exited"
    /\ \A p \in Proc : out[p] # "exited"
    /\ \A i \in 1..Len(events) : events[i].state # "exited"

\* Once the process is over nothing moves.
EndIsEnd == end # "" => gui = "gone"

AppInv ==
  /\ IInv /\ AppTypeOK /\ WillStop /\ WillLogOut /\ QuitIsLast /\ CommandAtHand
  /\ ExitedIsLast /\ EndIsEnd /\ CleanExit

-----------------------------------------------------------------------------
(* Lines of commands.                                                      *)

LEMMA SentLast ==
  ASSUME NEW s \in Seq(Command), NEW c \in Command, NEW t, t = Append(s, c)
  PROVE  /\ Stops(c) => StopFollows(t) /\ HasStop(t)
         /\ ~Starts(c) => /\ StopFollows(s) => StopFollows(t)
                          /\ LogoutLast(s) => LogoutLast(t)
                          /\ NoStart(s) => NoStart(t)
         /\ HasStop(s) => HasStop(t)
         /\ c.op = "logout" => LogoutLast(t)
         /\ NoQuit(s) => QuitLast(t)
         /\ NoQuit(s) /\ c.op # "quit" => NoQuit(t)
<1>1. /\ Len(s) \in Nat /\ Len(t) = Len(s) + 1 /\ t[Len(s) + 1] = c
      /\ \A i \in 1..Len(s) : t[i] = s[i]
  BY AppendProperties, LenProperties
<1>2. ~(Starts(c) /\ Stops(c))
  BY DEF Starts, Stops
<1>3. \A i \in 1..Len(t) : i \in 1..Len(s) \/ (i = Len(s) + 1 /\ t[i] = c)
  BY <1>1
<1>4. Len(s) + 1 \in 1..Len(t) /\ \A i \in 1..Len(s) : i \in 1..Len(t) /\ i < Len(s) + 1
  BY <1>1
<1>5. Stops(c) => StopFollows(t) /\ HasStop(t)
  BY <1>1, <1>2, <1>3, <1>4 DEF StopFollows, HasStop
<1>6. ~Starts(c) /\ StopFollows(s) => StopFollows(t)
  BY <1>1, <1>3, <1>4 DEF StopFollows
<1>7. ~Starts(c) /\ LogoutLast(s) => LogoutLast(t)
  BY <1>1, <1>3, <1>4 DEF LogoutLast
<1>8. ~Starts(c) /\ NoStart(s) => NoStart(t)
  BY <1>1, <1>3 DEF NoStart
<1>9. HasStop(s) => HasStop(t)
  BY <1>1, <1>4 DEF HasStop
<1>10. c.op = "logout" => LogoutLast(t)
  <2> SUFFICES ASSUME c.op = "logout" PROVE LogoutLast(t)
    OBVIOUS
  <2>1. t[Len(s) + 1].op = "logout"
        /\ \A j \in 1..Len(t) : Len(s) + 1 < j => ~Starts(t[j])
    BY <1>1
  <2> QED
    BY <1>4, <2>1 DEF LogoutLast
<1>11. NoQuit(s) => QuitLast(t)
  BY <1>1, <1>3 DEF NoQuit, QuitLast
<1>12. NoQuit(s) /\ c.op # "quit" => NoQuit(t)
  BY <1>1, <1>3 DEF NoQuit
<1> QED
  BY <1>5, <1>6, <1>7, <1>8, <1>9, <1>10, <1>11, <1>12

LEMMA TakenFirst ==
  ASSUME NEW s \in Seq(Command), s # <<>>, NEW h, h = Head(s), NEW t, t = Tail(s)
  PROVE  /\ StopFollows(s) => StopFollows(t) /\ (Starts(h) => HasStop(t))
         /\ HasStop(s) => Stops(h) \/ HasStop(t)
         /\ NoStart(s) => NoStart(t) /\ ~Starts(h)
         /\ LogoutLast(s) => LogoutLast(t) \/ (h.op = "logout" /\ NoStart(t))
         /\ QuitLast(s) => QuitLast(t) /\ (h.op = "quit" => t = <<>>)
         /\ NoQuit(s) => NoQuit(t) /\ h.op # "quit"
<1>1. /\ Len(s) \in Nat \ {0} /\ t \in Seq(Command) /\ Len(t) = Len(s) - 1 /\ h = s[1]
      /\ \A i \in 1..Len(t) : t[i] = s[i + 1]
  BY HeadTailProperties, EmptySeq
<1>2. /\ 1 \in 1..Len(s)
      /\ \A i \in 1..Len(s) : i = 1 \/ (i - 1 \in 1..Len(t) /\ s[i] = t[i - 1])
      /\ \A i \in 1..Len(t) : i + 1 \in 1..Len(s)
  BY <1>1
<1>3. StopFollows(s) => StopFollows(t)
  <2> SUFFICES ASSUME StopFollows(s), NEW i \in 1..Len(t), Starts(t[i])
               PROVE  \E j \in 1..Len(t) : i < j /\ Stops(t[j])
    BY DEF StopFollows
  <2>1. PICK k \in 1..Len(s) : i + 1 < k /\ Stops(s[k])
    BY <1>1, <1>2 DEF StopFollows
  <2>2. k - 1 \in 1..Len(t) /\ i < k - 1 /\ s[k] = t[k - 1]
    BY <1>1, <1>2, <2>1
  <2> QED
    BY <2>1, <2>2
<1>4. StopFollows(s) /\ Starts(h) => HasStop(t)
  <2> SUFFICES ASSUME StopFollows(s), Starts(h) PROVE HasStop(t)
    OBVIOUS
  <2>1. PICK k \in 1..Len(s) : 1 < k /\ Stops(s[k])
    BY <1>1, <1>2 DEF StopFollows
  <2>2. k - 1 \in 1..Len(t) /\ s[k] = t[k - 1]
    BY <1>1, <1>2, <2>1
  <2> QED
    BY <2>1, <2>2 DEF HasStop
<1>5. HasStop(s) => Stops(h) \/ HasStop(t)
  BY <1>1, <1>2 DEF HasStop
<1>6. NoStart(s) => NoStart(t) /\ ~Starts(h)
  BY <1>1, <1>2 DEF NoStart
<1>7. LogoutLast(s) => LogoutLast(t) \/ (h.op = "logout" /\ NoStart(t))
  <2> SUFFICES ASSUME LogoutLast(s)
               PROVE  LogoutLast(t) \/ (h.op = "logout" /\ NoStart(t))
    OBVIOUS
  <2>1. PICK k \in 1..Len(s) : /\ s[k].op = "logout"
                               /\ \A j \in 1..Len(s) : k < j => ~Starts(s[j])
    BY DEF LogoutLast
  <2>2. \A j \in 1..Len(t) : k - 1 < j => ~Starts(t[j])
    BY <1>1, <1>2, <2>1
  <2>3. CASE k = 1
    BY <1>1, <2>1, <2>2, <2>3 DEF NoStart
  <2>4. CASE k # 1
    BY <1>2, <2>1, <2>2, <2>4 DEF LogoutLast
  <2> QED
    BY <2>3, <2>4
<1>8. QuitLast(s) => QuitLast(t) /\ (h.op = "quit" => t = <<>>)
  <2> SUFFICES ASSUME QuitLast(s)
               PROVE  QuitLast(t) /\ (h.op = "quit" => t = <<>>)
    OBVIOUS
  <2>1. \A i \in 1..Len(s) : s[i].op = "quit" => i = Len(s)
    BY DEF QuitLast
  <2>2. ASSUME NEW i \in 1..Len(t), t[i].op = "quit" PROVE i = Len(t)
    <3>1. s[i + 1].op = "quit" /\ i + 1 \in 1..Len(s)
      BY <1>1, <1>2, <2>2
    <3> DEFINE n == Len(s)
               m == Len(t)
    <3>2. i + 1 = n
      BY <2>1, <3>1
    <3>3. n \in Nat /\ m = n - 1 /\ i \in Nat
      BY <1>1
    <3> HIDE DEF n, m
    <3>4. i = m
      BY <3>2, <3>3
    <3> QED
      BY <3>4 DEF m
  <2>3. h.op = "quit" => Len(t) = 0
    <3>1. 1 \in 1..Len(s) /\ h = s[1]
      BY <1>1
    <3>2. h.op = "quit" => 1 = Len(s)
      BY <2>1, <3>1
    <3>3. Len(t) = Len(s) - 1
      BY <1>1
    <3> QED
      BY <3>2, <3>3
  <2> QED
    BY <1>1, <2>2, <2>3, EmptySeq DEF QuitLast
<1>9. NoQuit(s) => NoQuit(t) /\ h.op # "quit"
  BY <1>1, <1>2 DEF NoQuit
<1> QED
  BY <1>3, <1>4, <1>5, <1>6, <1>7, <1>8, <1>9

-----------------------------------------------------------------------------
(* Sidegate does what the core does, and nothing else.                     *)

USE HostAssumption, ProcAssumption, CapAssumption, CmdCapAssumption

LEMMA CommandTypes ==
  /\ NoCommand \notin Command
  /\ \A h \in Host \cup {NoHost} : [op |-> "setup", host |-> h] \in Command
  /\ \A o \in {"connect", "disconnect", "logout", "quit"} :
       [op |-> o, host |-> NoHost] \in Command
BY DEF Command, NoCommand

\* A click that sends a command, and what it makes of the user's wish.
Asks(c) ==
  \/ Starts(c) /\ asked' = "on"
  \/ c.op = "disconnect" /\ asked' = "off"
  \/ c.op = "logout" /\ asked' = "out"
  \/ c.op \in {"setup", "quit"} /\ ~Starts(c) /\ asked' = asked

Sends(c) ==
  /\ Idle /\ c \in Command /\ Put(c) /\ Asks(c)
  /\ menu' = FALSE /\ UNCHANGED <<vars, acct, refused, end>>

LEMMA Clicks ==
  ASSUME Click
  PROVE  OpenOrCloseMenu \/ \E c : Sends(c)
<1>1. ASSUME NEW h \in Host \cup {NoHost}, Continue(h)
      PROVE  Sends([op |-> "setup", host |-> h])
  BY <1>1, CommandTypes DEF Continue, Send, Sends, Asks, Starts
<1>2. CASE CancelLogin
  <2>1. Sends([op |-> "disconnect", host |-> NoHost])
    BY <1>2, CommandTypes DEF CancelLogin, Send, Sends, Asks
  <2> QED
    BY <2>1
<1>3. CASE Toggle
  <2>1. CASE view = "off"
    <3>1. Sends([op |-> "connect", host |-> NoHost])
      BY <1>3, <2>1, CommandTypes DEF Toggle, Send, Sends, Asks, Starts
    <3> QED
      BY <3>1
  <2>2. CASE view # "off"
    <3>1. Sends([op |-> "disconnect", host |-> NoHost])
      BY <1>3, <2>2, CommandTypes DEF Toggle, Send, Sends, Asks
    <3> QED
      BY <3>1
  <2> QED
    BY <2>1, <2>2
<1>4. CASE LogOut
  <2>1. Sends([op |-> "logout", host |-> NoHost])
    BY <1>4, CommandTypes DEF LogOut, Send, Sends, Asks
  <2> QED
    BY <2>1
<1>5. CASE Quit
  <2>1. Sends([op |-> "quit", host |-> NoHost])
    BY <1>5, CommandTypes DEF Quit, Send, Sends, Asks, Starts
  <2> QED
    BY <2>1
<1> QED
  BY <1>1, <1>2, <1>3, <1>4, <1>5 DEF Click

LEMMA PendingType ==
  ASSUME AppTypeOK
  PROVE  Pending \in Seq(Command)
BY AppendProperties DEF AppTypeOK, Pending

\* How the line of commands moves.
LEMMA SendMoves ==
  ASSUME AppTypeOK, NEW c, Sends(c)
  PROVE  /\ Pending' = Append(Pending, c) /\ Pending \in Seq(Command)
         /\ cmds' \in Seq(Command) /\ Len(cmds') <= CmdCap
         /\ gui = "loop" /\ todo = NoCommand
         /\ \/ gui' = "loop" /\ todo' = c
            \/ todo' = NoCommand /\ gui' = IF c.op = "quit" THEN "quit" ELSE "loop"
<1>1. cmds \in Seq(Command) /\ Len(cmds) <= CmdCap /\ c \in Command /\ c # NoCommand
      /\ gui = "loop" /\ todo = NoCommand
  BY CommandTypes DEF AppTypeOK, Sends, Idle
<1>2. CASE Len(cmds) < CmdCap /\ cmds' = Append(cmds, c) /\ Sent(c)
  <2>1. cmds' \in Seq(Command) /\ Len(cmds') <= CmdCap
    BY <1>1, <1>2, AppendProperties, LenProperties
  <2> QED
    BY <1>1, <1>2, <2>1 DEF Pending, Sent
<1>3. CASE Len(cmds) = CmdCap /\ todo' = c /\ UNCHANGED <<cmds, gui>>
  BY <1>1, <1>3 DEF Pending
<1> QED
  BY <1>2, <1>3 DEF Sends, Put

LEMMA UnblockMoves ==
  ASSUME AppTypeOK, Unblock
  PROVE  /\ Pending' = Pending /\ todo \in Command
         /\ cmds' \in Seq(Command) /\ Len(cmds') <= CmdCap
         /\ todo' = NoCommand /\ gui' = IF todo.op = "quit" THEN "quit" ELSE "loop"
<1>1. cmds \in Seq(Command) /\ todo \in Command /\ todo # NoCommand /\ Len(cmds) < CmdCap
      /\ cmds' = Append(cmds, todo) /\ Sent(todo)
  BY DEF AppTypeOK, Unblock
<1>2. cmds' \in Seq(Command) /\ Len(cmds') <= CmdCap
  BY <1>1, AppendProperties, LenProperties
<1> QED
  BY <1>1, <1>2 DEF Pending, Sent

LEMMA TakeMoves ==
  ASSUME AppTypeOK, TakeCommand
  PROVE  /\ Pending # <<>> /\ Pending \in Seq(Command)
         /\ Pending' = Tail(Pending) /\ Head(Pending) \in Command
         /\ Receive(Head(Pending))
         /\ UNCHANGED <<gui, todo, acct, menu, asked, refused, end>>
         /\ cmds' \in Seq(Command) /\ Len(cmds') <= CmdCap
<1>1. cmds \in Seq(Command) /\ cmds # <<>> /\ Len(cmds) <= CmdCap /\ cmds' = Tail(cmds)
      /\ Receive(Head(cmds)) /\ UNCHANGED <<gui, todo, acct, menu, asked, refused, end>>
      /\ todo \in Command \cup {NoCommand}
  BY DEF AppTypeOK, TakeCommand
<1>2. Head(cmds) \in Command /\ Tail(cmds) \in Seq(Command)
      /\ Len(Tail(cmds)) <= CmdCap
  BY <1>1, HeadTailProperties, LenProperties
<1>3. CASE todo = NoCommand
  BY <1>1, <1>2, <1>3 DEF Pending
<1>4. CASE todo # NoCommand
  <2>1. Head(Append(cmds, todo)) = Head(cmds) /\ Append(cmds, todo) # <<>>
        /\ Tail(Append(cmds, todo)) = Append(Tail(cmds), todo)
        /\ Append(cmds, todo) \in Seq(Command)
    BY <1>1, <1>4, HeadTailAppend, AppendProperties
  <2>2. Pending = Append(cmds, todo) /\ Pending' = Append(Tail(cmds), todo)
    BY <1>1, <1>4 DEF Pending
  <2> QED
    BY <1>1, <1>2, <2>1, <2>2
<1> QED
  BY <1>3, <1>4

\* The steps of the program.
LEMMA Steps ==
  ASSUME AppTypeOK, [AppNext]_appVars
  PROVE  \/ \E c : Sends(c)
         \/ (OpenOrCloseMenu \/ Unblock \/ ExitProcess) /\ UNCHANGED vars
         \/ TakeCommand
         \/ ReceiveLine /\ GpRecv /\ gui # "gone"
         \/ gui # "gone" /\ UNCHANGED guiVars /\ NoteRemoval
            /\ (LoopStep \/ (\E p \in Proc : EmitLock(p) \/ EmitSend(p))
                \/ \E r \in Run : RunStep(r))
         \/ UNCHANGED appVars
<1>1. CASE Click
  BY <1>1, Clicks DEF OpenOrCloseMenu
<1>2. CASE Unblock \/ TakeCommand \/ ReceiveLine \/ ExitProcess
  BY <1>2 DEF Unblock, ReceiveLine, ExitProcess, EndProcess
<1>3. CASE Alone(LoopStep) \/ (\E p \in Proc : Alone(EmitLock(p) \/ EmitSend(p)))
           \/ \E r \in Run : Alone(RunStep(r))
  BY <1>3 DEF Alone
<1>4. CASE Gone \/ UNCHANGED appVars
  BY <1>4 DEF Gone
<1> QED
  BY <1>1, <1>2, <1>3, <1>4 DEF AppNext

LEMMA CoreStep ==
  ASSUME AppTypeOK, [AppNext]_appVars
  PROVE  [Next]_vars
<1>1. CASE \E c : Sends(c)
  BY <1>1 DEF Sends
<1>2. CASE TakeCommand
  BY <1>2, TakeMoves DEF Next
<1>3. CASE UNCHANGED appVars
  BY <1>3 DEF appVars
<1> QED
  BY <1>1, <1>2, <1>3, Steps DEF Next

-----------------------------------------------------------------------------
(* What the core does to the state the user's wishes are about.            *)

LEMMA AppTypes ==
  ASSUME TypeOK, AppTypeOK, [AppNext]_appVars
  PROVE  AppTypeOK'
<1>1. ASSUME NEW c, Sends(c) PROVE AppTypeOK'
  <2>0. c \in Command
    BY <1>1 DEF Sends
  <2>1. cmds' \in Seq(Command) /\ Len(cmds') <= CmdCap
        /\ todo' \in Command \cup {NoCommand} /\ gui' \in {"loop", "quit"}
    BY <1>1, <2>0, SendMoves
  <2>2. acct' = acct /\ end' = end /\ menu' = FALSE /\ refused' = refused /\ Asks(c)
    BY <1>1 DEF Sends
  <2> QED
    BY <2>1, <2>2 DEF AppTypeOK, Asks
<1>2. CASE OpenOrCloseMenu
  BY <1>2 DEF OpenOrCloseMenu, AppTypeOK
<1>3. CASE Unblock
  <2>1. cmds' \in Seq(Command) /\ Len(cmds') <= CmdCap
        /\ todo' = NoCommand /\ gui' \in {"loop", "quit"}
        /\ UNCHANGED <<acct, menu, asked, refused, end>>
    BY <1>3, UnblockMoves DEF Unblock
  <2> QED
    BY <2>1 DEF AppTypeOK
<1>4. CASE ExitProcess
  BY <1>4 DEF ExitProcess, EndProcess, AppTypeOK
<1>5. CASE TakeCommand
  <2>1. cmds' \in Seq(Command) /\ Len(cmds') <= CmdCap
        /\ UNCHANGED <<gui, todo, acct, menu, asked, refused, end>>
    BY <1>5, TakeMoves
  <2> QED
    BY <2>1 DEF AppTypeOK
<1>6. CASE ReceiveLine
  <2>1. UNCHANGED <<cmds, gui, todo, menu, asked, refused, end>>
        /\ (acct' = acct \/ acct' = Head(events).user) /\ events # <<>>
    BY <1>6 DEF ReceiveLine, GpRecv
  <2>2. events \in Seq(Event(State))
    BY DEF TypeOK, LoopOK
  <2>3. Head(events) \in Event(State)
    BY <2>1, <2>2, HeadTailProperties
  <2>4. Head(events).user \in BOOLEAN
    BY <2>3 DEF Event
  <2> QED
    BY <2>1, <2>4 DEF AppTypeOK
<1>7. CASE UNCHANGED guiVars /\ (NoteRemoval \/ UNCHANGED refused)
  <2>1. refused' \in BOOLEAN
    BY <1>7, ZenonT(60) DEF NoteRemoval, AppTypeOK
  <2> QED
    BY <1>7, <2>1 DEF guiVars, AppTypeOK
<1> QED
  BY <1>1, <1>2, <1>3, <1>4, <1>5, <1>6, <1>7, Steps DEF appVars

\* A step of the core by itself: what is stopped stays so, what stops comes to an
\* end, and so does a logout.
CoreStep1 ==
  \/ LoopStep
  \/ \E p \in Proc : EmitLock(p) \/ EmitSend(p)
  \/ \E r \in Run : RunStep(r)
  \/ GpRecv

LEMMA CoreStops ==
  ASSUME IInv, IInv', CommandAtHand, CoreStep1, NoteRemoval
  PROVE  /\ Stopped => Stopped'
         /\ Stopping => Stopping' \/ Stopped'
         /\ LoggingOut => LoggingOut' \/ (Stopped' /\ Forgotten')
         /\ Stopped /\ Forgotten => Forgotten'
         /\ cmd'.op = "quit" => cmd.op = "quit"
         /\ CommandAtHand'
<1>1. CASE LoopStep
  <2>1. loop' \in Disconnecting => cancel' = Nobody
    <3>1. StopsTheRightOne'
      BY DEF IInv
    <3> QED
      BY <3>1 DEF StopsTheRightOne
  <2>f. RemoveSession => Forgotten'
    <3>1. RemoveSession => loop = "wipe" /\ loop' # "wipe"
      BY DEF RemoveSession
    <3> QED
      BY <3>1, ZenonT(60) DEF NoteRemoval, Forgotten
  <2>k. ASSUME Boot \/ Setup \/ ConnectIgnored \/ (\E r \in Run : Connect(r)) \/ ReadCancel
               \/ Cancel \/ AwaitDone \/ Disconnected \/ PostLogout \/ ForgetUser
        PROVE  Forgotten <=> Forgotten'
    <3>1. loop # "wipe" /\ disk' = disk
      BY <2>k DEF Boot, Setup, ConnectIgnored, Connect, Start, ReadCancel, Cancel, CancelThen,
        AwaitDone, Disconnected, PostLogout, ForgetUser, loopStill, loopFrame, storeVars
    <3>2. refused' = refused
      BY <3>1, ZenonT(60) DEF NoteRemoval
    <3> QED
      BY <3>1, <3>2 DEF Forgotten
  <2>2. CASE Boot \/ Setup \/ ConnectIgnored \/ \E r \in Run : Connect(r)
    <3>1. /\ ~Stopping /\ ~LoggingOut /\ (Stopped => Stopped') /\ CommandAtHand'
          /\ cmd'.op = "quit" => cmd.op = "quit"
      BY <2>2 DEF Boot, Setup, ConnectIgnored, Connect, Start, NextCommand, loopStill,
        loopFrame, Stopped, Stopping, LoggingOut, CommandAtHand, NoCommand
    <3> QED
      BY <3>1, <2>2, <2>k
  <2>3. CASE ReadCancel \/ Cancel \/ AwaitDone
    <3>1. /\ cancel' = cancel /\ cmd' = cmd /\ loop \in {"disconnect", "cancel", "wait"}
          /\ loop' \in {"cancel", "wait", "after"}
      BY <2>3 DEF ReadCancel, Cancel, CancelThen, AwaitDone, loopStill, loopFrame
    <3>2. loop' = "after" => cancel' = Nobody
      BY <2>1 DEF Disconnecting
    <3> QED
      BY <3>1, <3>2, <2>3, <2>k DEF Stopped, Stopping, LoggingOut, CommandAtHand
  <2>4. CASE Disconnected
    <3>1. /\ loop = "after" /\ cancel' = cancel /\ cancel = Nobody
          /\ \/ cmd.op = "quit" /\ loop' = "exited" /\ cmd' = cmd
             \/ cmd.op = "logout" /\ loop' \in {"post", "wipe"} /\ cmd' = cmd
             \/ cmd.op \notin {"logout", "quit"} /\ loop' = "recv" /\ cmd' = NoCommand
      BY <2>1, <2>4 DEF Disconnected, ShowIdle, LogoutSession, NextCommand, loopStill,
        loopFrame, Disconnecting, IInv, StopsTheRightOne
    <3> QED
      BY <3>1, <2>4, <2>k DEF Stopped, Stopping, LoggingOut, CommandAtHand, NoCommand
  <2>5. CASE PostLogout \/ RemoveSession \/ ForgetUser
    <3>1. /\ cancel' = cancel /\ cancel = Nobody
          /\ \/ PostLogout /\ loop = "post" /\ loop' = "wipe" /\ cmd' = cmd
             \/ RemoveSession /\ loop = "wipe" /\ loop' = "forget" /\ cmd' = cmd
             \/ ForgetUser /\ loop = "forget" /\ loop' = "recv" /\ cmd' = NoCommand
      BY <2>5 DEF PostLogout, RemoveSession, ForgetUser, NextCommand, loopStill, loopFrame,
        Disconnecting, IInv, StopsTheRightOne
    <3> QED
      BY <3>1, <2>f, <2>k DEF Stopped, Stopping, LoggingOut, CommandAtHand, NoCommand
  <2> QED
    BY <1>1, <2>2, <2>3, <2>4, <2>5 DEF LoopStep
<1>2. CASE GpRecv \/ \E p \in Proc : EmitLock(p) \/ EmitSend(p)
  <2>1. UNCHANGED <<loop, cmd, cancel, disk>>
    BY <1>2 DEF GpRecv, EmitLock, EmitSend, Unlock, loopVars, storeVars
  <2>2. refused' = refused
    BY <2>1, ZenonT(60) DEF NoteRemoval
  <2> QED
    BY <2>1, <2>2 DEF Stopped, Stopping, LoggingOut, CommandAtHand, Forgotten
<1>3. ASSUME NEW r \in Run, RunStep(r)
      PROVE  /\ UNCHANGED loopVars /\ cancel' \in {cancel, Nobody}
             /\ cancel = Nobody => disk' = disk
  <2>1. UNCHANGED loopVars /\ cancel' \in {cancel, Nobody}
    BY <1>3 DEF RunStep, Load, Config, Prelogin, BrowserLogin, GatewayLogin, Issue,
      Config2, SaveSession, Publish, Serve, TunnelHead, OpenTunnel, Backoff, TunnelDown,
      Unwind, ClearCancel, Report, CloseDone, Move, Tell, runStill, runFrame
  <2>2. SaveSession(r) => cancel # Nobody
    BY DEF SaveSession, At, IInv, OneConnection, Working
  <2>3. ~SaveSession(r) => disk' = disk
    BY <1>3 DEF RunStep, Load, Config, Prelogin, BrowserLogin, GatewayLogin, Issue,
      Config2, Publish, Serve, TunnelHead, OpenTunnel, Backoff, TunnelDown,
      Unwind, ClearCancel, Report, CloseDone, Move, Tell, runStill, runFrame
  <2> QED
    BY <2>1, <2>2, <2>3
<1>4. CASE \E r \in Run : RunStep(r)
  <2>1. /\ UNCHANGED <<loop, cmd>> /\ cancel' \in {cancel, Nobody}
        /\ cancel = Nobody => disk' = disk
    BY <1>3, <1>4 DEF loopVars
  <2>2. refused' = refused
    BY <2>1, ZenonT(60) DEF NoteRemoval
  <2> QED
    BY <2>1, <2>2 DEF Stopped, Stopping, LoggingOut, CommandAtHand, Forgotten
<1> QED
  BY <1>1, <1>2, <1>4 DEF CoreStep1

\* The command loop takes a command.
LEMMA ReceiveStops ==
  ASSUME CommandAtHand, NEW c \in Command, Receive(c)
  PROVE  /\ loop = "recv" /\ cmd = NoCommand
         /\ UNCHANGED <<cancel, disk, view>>
         /\ Stops(c) => Stopping' /\ cmd' = c
         /\ ~Stops(c) => cmd'.op \notin {"logout", "quit"}
         /\ ~Stops(c) /\ ~Starts(c) => loop' = "recv"
         /\ loop' # "exited" /\ CommandAtHand'
BY DEF CommandAtHand, Command, Receive, Take, EmptySetup, Emit, Stops, Starts, Stopping,
  NoCommand, loopStill, loopFrame, loopVars

\* Who says "exited": the loop, at its end.
LEMMA SaysExited ==
  ASSUME TypeOK, LoopQuiet, ExitedIsLast, CommandAtHand,
         CoreStep1 \/ \E c \in Command : Receive(c)
  PROVE  ExitedIsLast'
<1>a. /\ DOMAIN out = Proc /\ Loop \in Proc /\ Run \subseteq Proc /\ Loop \notin Run
      /\ Proc = Run \cup {Loop}
      /\ events \in Seq(Event(State)) /\ DOMAIN ev = {"state", "endpoint", "user", "ip"}
  BY DEF TypeOK, LoopOK, Proc, Event
<1>1. CASE LoopStep \/ \E c \in Command : Receive(c)
  <2>1. UNCHANGED loopFrame /\ ev'.state = ev.state /\ \A r \in Run : out'[r] = out[r]
    BY <1>1, LoopEffect
  <2>2. loop' # "exited" => out'[Loop] = out[Loop] \/ out'[Loop] \in IdlePage
    BY <1>1, <1>a, LoadSessionType
    DEF LoopStep, Receive, Take, EmptySetup, Boot, Setup, ConnectIgnored, Connect, Start,
      ReadCancel, Cancel, CancelThen, AwaitDone, Disconnected, ShowIdle, LogoutSession,
      NextCommand, PostLogout, RemoveSession, ForgetUser, Emit, IdlePage, loopStill
  <2>3. loop # "exited"
    BY <1>1 DEF LoopStep, Receive, Take, EmptySetup, Boot, Setup, ConnectIgnored, Connect,
      Start, ReadCancel, Cancel, CancelThen, AwaitDone, Disconnected, PostLogout,
      RemoveSession, ForgetUser
  <2> QED
    BY <1>a, <2>1, <2>2, <2>3 DEF ExitedIsLast, loopFrame, IdlePage
<1>2. CASE GpRecv
  <2>1. events # <<>> /\ view' = Head(events).state /\ events' = Tail(events)
        /\ UNCHANGED <<loop, ev, out>>
    BY <1>2 DEF GpRecv, loopVars
  <2>2. /\ Head(events) = events[1] /\ 1 \in 1..Len(events)
        /\ \A i \in 1..Len(Tail(events)) : /\ Tail(events)[i] = events[i + 1]
                                           /\ i + 1 \in 1..Len(events)
    <3>1. Len(Tail(events)) = Len(events) - 1 /\ Len(events) \in Nat \ {0}
          /\ \A i \in 1..Len(Tail(events)) : Tail(events)[i] = events[i + 1]
      BY <1>a, <2>1, HeadTailProperties, EmptySeq
    <3> QED
      BY <1>a, <3>1
  <2> QED
    BY <2>1, <2>2 DEF ExitedIsLast
<1>3. ASSUME NEW p \in Proc, EmitLock(p) PROVE ExitedIsLast'
  BY <1>a, <1>3 DEF EmitLock, loopVars, ExitedIsLast
<1>4. ASSUME NEW p \in Proc, EmitSend(p) PROVE ExitedIsLast'
  <2>1. events' = Append(events, ev) /\ out' = [out EXCEPT ![p] = ""]
        /\ UNCHANGED <<loop, ev, view>>
    BY <1>4 DEF EmitSend, Unlock, loopVars
  <2>2. \A i \in 1..Len(Append(events, ev)) :
          Append(events, ev)[i] = ev \/ \E j \in 1..Len(events) :
                                          Append(events, ev)[i] = events[j]
    BY <1>a
  <2>3. loop # "exited" => \A i \in 1..Len(events') : events'[i].state # "exited"
    BY <2>1, <2>2 DEF ExitedIsLast
  <2>4. loop # "exited" => \A q \in Proc : out'[q] # "exited"
    BY <1>a, <2>1 DEF ExitedIsLast
  <2> QED
    BY <2>1, <2>3, <2>4 DEF ExitedIsLast
<1>5. ASSUME NEW r \in Run, RunStep(r) PROVE ExitedIsLast'
  <2>1. UNCHANGED runFrame /\ ev'.state = ev.state
        /\ \A p \in Proc \ {r} : out'[p] = out[p]
    BY <1>5, RunEffect
  <2>2. out'[r] = out[r] \/ out'[r] \in IdlePage \cup Busy
    BY <1>5, <1>a, LoadSessionType
    DEF RunStep, Load, Config, Prelogin, BrowserLogin, GatewayLogin, Issue, Config2,
      SaveSession, Publish, Serve, TunnelHead, OpenTunnel, Backoff, TunnelDown,
      Unwind, ClearCancel, Report, CloseDone, Move, Tell, Emit, Busy
  <2>3. \A p \in Proc : out'[p] = out[p] \/ out'[p] # "exited"
    BY <2>1, <2>2 DEF Busy, IdlePage
  <2> QED
    BY <2>1, <2>3 DEF ExitedIsLast, runFrame, loopVars
<1> QED
  BY <1>1, <1>2, <1>3, <1>4, <1>5 DEF CoreStep1

-----------------------------------------------------------------------------
(* The invariant of the program.                                           *)

LEMMA AppInitInv == AppInit => AppInv
<1> SUFFICES ASSUME AppInit PROVE AppInv
  OBVIOUS
<1>1. Init /\ cmds = <<>> /\ gui = "loop" /\ todo = NoCommand /\ acct = FALSE
      /\ menu = FALSE /\ asked = "off" /\ refused = FALSE /\ end = ""
  BY DEF AppInit
<1>2. IInv
  BY <1>1, InitInv
<1>3. AppTypeOK
  <2>1. cmds \in Seq(Command) /\ Len(cmds) = 0
    BY <1>1, EmptySeq
  <2>2. Len(cmds) <= CmdCap
    BY <2>1, CmdCapAssumption
  <2> QED
    BY <1>1, <2>1, <2>2 DEF AppTypeOK
<1>4. /\ loop = "boot" /\ cancel = Nobody /\ cmd = NoCommand /\ view = "starting"
      /\ events = <<>> /\ ev.state = "" /\ \A p \in Proc : out[p] = ""
  BY <1>1 DEF Init
<1>5. Pending = <<>> /\ NoCommand.op = "none"
  BY <1>1 DEF Pending, NoCommand
<1>6. StopFollows(<<>>) /\ QuitLast(<<>>) /\ NoQuit(<<>>)
  <2>1. 1..Len(<<>>) = {}
    BY EmptySeq
  <2> QED
    BY <2>1 DEF StopFollows, QuitLast, NoQuit
<1>7. WillStop /\ WillLogOut
  BY <1>1, <1>4, <1>5, <1>6 DEF WillStop, Stopped, WillLogOut
<1>8. QuitIsLast /\ CommandAtHand
  BY <1>1, <1>4, <1>5, <1>6 DEF QuitIsLast, CommandAtHand
<1>9. ExitedIsLast /\ EndIsEnd /\ CleanExit
  <2>1. 1..Len(<<>>) = {}
    BY EmptySeq
  <2>2. 1..Len(events) = {}
    BY <1>4, <2>1
  <2> QED
    BY <1>1, <1>4, <2>2 DEF ExitedIsLast, EndIsEnd, CleanExit
<1> QED
  BY <1>2, <1>3, <1>7, <1>8, <1>9 DEF AppInv

\* What is left to show of a step besides the core's invariant and the types.
Wishes ==
  /\ WillStop /\ WillLogOut /\ QuitIsLast /\ CommandAtHand
  /\ ExitedIsLast /\ EndIsEnd /\ CleanExit

\* A step that leaves the core alone.
LEMMA CoreStill ==
  ASSUME Wishes, UNCHANGED vars, UNCHANGED refused
  PROVE  CommandAtHand' /\ ExitedIsLast' /\ (Stopped <=> Stopped')
         /\ (Stopping <=> Stopping') /\ (LoggingOut <=> LoggingOut')
         /\ (Forgotten <=> Forgotten')
         /\ UNCHANGED <<loop, cmd, cancel, proxy, disk, view>>
BY DEF Wishes, vars, loopVars, runVars, storeVars, CommandAtHand, ExitedIsLast, Stopped,
  Stopping, LoggingOut, Forgotten

\* A click.
LEMMA SendInv ==
  ASSUME AppTypeOK, Wishes, NEW c, Sends(c)
  PROVE  Wishes'
<1>0. c \in Command /\ Asks(c) /\ UNCHANGED vars /\ UNCHANGED <<refused, end>>
  BY DEF Sends
<1>1. /\ Pending' = Append(Pending, c) /\ Pending \in Seq(Command)
      /\ gui = "loop" /\ todo = NoCommand
      /\ \/ gui' = "loop" /\ todo' = c
         \/ todo' = NoCommand /\ gui' = IF c.op = "quit" THEN "quit" ELSE "loop"
  BY SendMoves
<1>2. /\ Stops(c) => StopFollows(Pending') /\ HasStop(Pending')
      /\ ~Starts(c) => /\ StopFollows(Pending) => StopFollows(Pending')
                       /\ LogoutLast(Pending) => LogoutLast(Pending')
                       /\ NoStart(Pending) => NoStart(Pending')
      /\ HasStop(Pending) => HasStop(Pending')
      /\ c.op = "logout" => LogoutLast(Pending')
      /\ NoQuit(Pending) => QuitLast(Pending')
      /\ NoQuit(Pending) /\ c.op # "quit" => NoQuit(Pending')
  BY <1>0, <1>1, SentLast
<1>3. CommandAtHand' /\ ExitedIsLast' /\ (Stopped <=> Stopped')
      /\ (Stopping <=> Stopping') /\ (LoggingOut <=> LoggingOut')
      /\ (Forgotten <=> Forgotten')
      /\ UNCHANGED <<loop, cmd, cancel, proxy, disk, view>>
  BY <1>0, CoreStill
<1>4. c # NoCommand
  BY <1>0, CommandTypes
<1>5. WillStop'
  <2> SUFFICES ASSUME asked' # "on"
               PROVE  StopFollows(Pending') /\ (HasStop(Pending') \/ Stopping' \/ Stopped')
    BY DEF WillStop
  <2>1. CASE Stops(c)
    BY <1>2, <2>1
  <2>2. CASE ~Stops(c)
    <3>1. ~Starts(c) /\ asked = asked'
      BY <1>0, <2>2 DEF Asks, Stops
    <3> QED
      BY <1>2, <1>3, <3>1 DEF Wishes, WillStop
  <2> QED
    BY <2>1, <2>2
<1>6. WillLogOut'
  <2> SUFFICES ASSUME asked' = "out", c.op # "logout" PROVE WillLogOut'
    BY <1>2 DEF WillLogOut
  <2>1. ~Starts(c) /\ asked = "out"
    BY <1>0 DEF Asks
  <2> QED
    BY <1>2, <1>3, <2>1 DEF Wishes, WillLogOut
<1>7. QuitIsLast'
  <2>1. NoQuit(Pending) /\ cmd.op # "quit"
    BY <1>1 DEF Wishes, QuitIsLast
  <2> QED
    BY <1>1, <1>2, <1>3, <1>4, <2>1 DEF QuitIsLast
<1>8. EndIsEnd' /\ CleanExit'
  BY <1>0, <1>1 DEF Wishes, EndIsEnd, CleanExit
<1> QED
  BY <1>3, <1>5, <1>6, <1>7, <1>8 DEF Wishes

\* A blocked GpSend comes back.
LEMMA UnblockInv ==
  ASSUME AppTypeOK, Wishes, Unblock
  PROVE  Wishes'
<1>0. UNCHANGED vars /\ UNCHANGED <<asked, refused, end>> /\ todo # NoCommand
  BY DEF Unblock
<1>1. /\ Pending' = Pending /\ todo \in Command
      /\ todo' = NoCommand /\ gui' = IF todo.op = "quit" THEN "quit" ELSE "loop"
  BY UnblockMoves
<1>3. CommandAtHand' /\ ExitedIsLast' /\ (Stopped <=> Stopped')
      /\ (Stopping <=> Stopping') /\ (LoggingOut <=> LoggingOut')
      /\ (Forgotten <=> Forgotten')
      /\ UNCHANGED <<loop, cmd, cancel, proxy, disk, view>>
  BY <1>0, CoreStill
<1>4. WillStop' /\ WillLogOut'
  BY <1>0, <1>1, <1>3 DEF Wishes, WillStop, WillLogOut
<1>5. gui = "loop" /\ cmd.op # "quit" /\ QuitLast(Pending)
  BY <1>0 DEF Wishes, QuitIsLast
<1>6. todo.op # "quit" => NoQuit(Pending)
  <2>1. cmds \in Seq(Command) /\ Pending = Append(cmds, todo)
    BY <1>0 DEF AppTypeOK, Pending
  <2>2. Len(Pending) = Len(cmds) + 1 /\ Pending[Len(cmds) + 1] = todo
    BY <1>1, <2>1, AppendProperties
  <2>3. \A i \in 1..Len(Pending) : Pending[i].op = "quit" => Pending[i] = todo
    BY <1>5, <2>2 DEF QuitLast
  <2> QED
    BY <2>3 DEF NoQuit
<1>7. QuitIsLast'
  BY <1>1, <1>3, <1>5, <1>6 DEF QuitIsLast
<1>8. EndIsEnd' /\ CleanExit'
  BY <1>0, <1>5 DEF Wishes, EndIsEnd, CleanExit
<1> QED
  BY <1>3, <1>4, <1>7, <1>8 DEF Wishes

\* The end of the process: after "exited" everything is done.
LEMMA ExitInv ==
  ASSUME IInv, Wishes, ExitProcess, UNCHANGED vars
  PROVE  Wishes'
<1>0. gui = "quit" /\ gui' = "gone" /\ UNCHANGED <<cmds, todo, asked, refused>>
      /\ (end' = "exited" => view = "exited")
  BY DEF ExitProcess, EndProcess
<1>1. Pending' = Pending
  BY <1>0 DEF Pending
<1>3. CommandAtHand' /\ ExitedIsLast' /\ (Stopped <=> Stopped')
      /\ (Stopping <=> Stopping') /\ (LoggingOut <=> LoggingOut')
      /\ (Forgotten <=> Forgotten')
      /\ UNCHANGED <<loop, cmd, cancel, proxy, disk, view>>
  BY <1>0, CoreStill
<1>4. WillStop' /\ WillLogOut' /\ QuitIsLast' /\ EndIsEnd'
  BY <1>0, <1>1, <1>3 DEF Wishes, WillStop, WillLogOut, QuitIsLast, EndIsEnd
<1>5. view = "exited" => proxy = Nobody /\ cancel = Nobody
                         /\ (asked = "out" => Forgotten)
  <2> SUFFICES ASSUME view = "exited"
               PROVE  proxy = Nobody /\ cancel = Nobody
                      /\ (asked = "out" => Forgotten)
    OBVIOUS
  <2>1. loop = "exited" /\ cmd.op = "quit" /\ Pending = <<>>
    BY DEF Wishes, ExitedIsLast, CommandAtHand, QuitIsLast
  <2>2. cancel = Nobody /\ proxy = Nobody
    BY <2>1 DEF IInv, StopsTheRightOne, OneConnection, Disconnecting
  <2>3. ~LogoutLast(Pending) /\ ~LoggingOut
    BY <2>1 DEF LogoutLast, LoggingOut
  <2> QED
    BY <2>2, <2>3 DEF Wishes, WillLogOut
<1>6. CleanExit'
  BY <1>0, <1>3, <1>5 DEF CleanExit, Forgotten
<1> QED
  BY <1>3, <1>4, <1>6 DEF Wishes

\* The loop takes a command.
LEMMA TakeInv ==
  ASSUME IInv, AppTypeOK, Wishes, TakeCommand
  PROVE  Wishes'
<1>1. /\ Pending # <<>> /\ Pending \in Seq(Command)
      /\ Pending' = Tail(Pending) /\ Head(Pending) \in Command
      /\ Receive(Head(Pending))
      /\ UNCHANGED <<gui, todo, acct, menu, asked, refused, end>>
  BY TakeMoves
<1>h. PICK h : h = Head(Pending)
  OBVIOUS
<1>2. /\ StopFollows(Pending) => StopFollows(Pending') /\ (Starts(h) => HasStop(Pending'))
      /\ HasStop(Pending) => Stops(h) \/ HasStop(Pending')
      /\ NoStart(Pending) => NoStart(Pending') /\ ~Starts(h)
      /\ LogoutLast(Pending) => LogoutLast(Pending') \/ (h.op = "logout" /\ NoStart(Pending'))
      /\ QuitLast(Pending) => QuitLast(Pending') /\ (h.op = "quit" => Pending' = <<>>)
      /\ NoQuit(Pending) => NoQuit(Pending') /\ h.op # "quit"
  BY <1>1, <1>h, TakenFirst
<1>3. /\ loop = "recv" /\ cmd = NoCommand
      /\ UNCHANGED <<cancel, disk, view>>
      /\ Stops(h) => Stopping' /\ cmd' = h
      /\ ~Stops(h) => cmd'.op \notin {"logout", "quit"}
      /\ ~Stops(h) /\ ~Starts(h) => loop' = "recv"
      /\ loop' # "exited" /\ CommandAtHand'
  BY <1>1, <1>h, ReceiveStops DEF Wishes
<1>4. ExitedIsLast'
  BY <1>1, SaysExited DEF IInv, Wishes
<1>5. gui # "gone"
  BY DEF TakeCommand
<1>6. WillStop'
  BY <1>1, <1>2, <1>3 DEF Wishes, WillStop, Stopping, Stopped
<1>7. WillLogOut'
  <2> SUFFICES ASSUME asked = "out" PROVE WillLogOut'
    BY <1>1 DEF WillLogOut
  <2>1. CASE LogoutLast(Pending) /\ h.op # "logout"
    BY <1>2, <2>1 DEF WillLogOut
  <2>2. CASE LogoutLast(Pending) /\ h.op = "logout"
    <3>1. LoggingOut'
      BY <1>3, <2>2 DEF Stops, Stopping, LoggingOut
    <3> QED
      BY <1>2, <2>2, <3>1 DEF WillLogOut
  <2>3. CASE ~LogoutLast(Pending)
    <3>1. NoStart(Pending) /\ Stopped /\ Forgotten /\ ~Starts(h)
      BY <1>2, <1>3, <2>3 DEF Wishes, WillLogOut, LoggingOut
    <3>2. Stopped' /\ Forgotten'
      BY <1>1, <1>3, <3>1 DEF Stopped, Stopping, Forgotten
    <3> QED
      BY <1>2, <3>1, <3>2 DEF WillLogOut
  <2> QED
    BY <2>1, <2>2, <2>3
<1>8. QuitIsLast'
  <2>1. h.op = "quit" => Pending' = <<>> /\ gui # "loop"
    <3>1. h.op = "quit" => Pending' = <<>> /\ ~NoQuit(Pending)
      BY <1>2 DEF Wishes, QuitIsLast
    <3>2. h.op = "quit" /\ todo # NoCommand => FALSE
      <4>1. todo # NoCommand => Pending' # <<>>
        <5>1. todo # NoCommand => Pending' = Append(cmds', todo)
          BY <1>1 DEF Pending
        <5>2. cmds' \in Seq(Command)
          BY TakeMoves
        <5>3. todo # NoCommand => todo \in Command
          BY DEF AppTypeOK
        <5>4. todo # NoCommand => Append(cmds', todo) # <<>>
          BY <5>2, <5>3, AppendProperties
        <5> QED
          BY <5>1, <5>4
      <4> QED
        BY <3>1, <4>1
    <3> QED
      BY <3>1, <3>2 DEF Wishes, QuitIsLast
  <2>2. cmd'.op = "quit" => h.op = "quit"
    BY <1>3 DEF Stops
  <2> QED
    BY <1>1, <1>2, <2>1, <2>2 DEF Wishes, QuitIsLast
<1>9. EndIsEnd' /\ CleanExit'
  BY <1>1, <1>5 DEF Wishes, EndIsEnd, CleanExit
<1> QED
  BY <1>3, <1>4, <1>6, <1>7, <1>8, <1>9 DEF Wishes

\* The core moves by itself.
LEMMA CoreInv ==
  ASSUME IInv, IInv', Wishes, CoreStep1, NoteRemoval, gui # "gone",
         UNCHANGED <<cmds, gui, todo, asked, end>>
  PROVE  Wishes'
<1>1. Pending' = Pending
  BY DEF Pending
<1>2. /\ Stopped => Stopped'
      /\ Stopping => Stopping' \/ Stopped'
      /\ LoggingOut => LoggingOut' \/ (Stopped' /\ Forgotten')
      /\ Stopped /\ Forgotten => Forgotten'
      /\ cmd'.op = "quit" => cmd.op = "quit"
      /\ CommandAtHand'
  BY CoreStops DEF Wishes
<1>3. ExitedIsLast'
  BY SaysExited DEF IInv, Wishes
<1>4. WillStop' /\ WillLogOut' /\ QuitIsLast'
  BY <1>1, <1>2 DEF Wishes, WillStop, WillLogOut, QuitIsLast
<1>5. EndIsEnd' /\ CleanExit'
  BY DEF Wishes, EndIsEnd, CleanExit
<1> QED
  BY <1>2, <1>3, <1>4, <1>5 DEF Wishes

LEMMA AppStepInv == AppInv /\ [AppNext]_appVars => AppInv'
<1> SUFFICES ASSUME AppInv, [AppNext]_appVars PROVE AppInv'
  OBVIOUS
<1>0. IInv /\ AppTypeOK /\ Wishes /\ TypeOK
  BY DEF AppInv, Wishes, IInv
<1>1. IInv'
  BY <1>0, CoreStep, NextInv
<1>2. AppTypeOK'
  BY <1>0, AppTypes
<1>3. CASE \E c : Sends(c)
  BY <1>0, <1>1, <1>2, <1>3, SendInv DEF AppInv, Wishes
<1>4. CASE Unblock
  BY <1>0, <1>1, <1>2, <1>4, UnblockInv DEF AppInv, Wishes
<1>5. CASE ExitProcess /\ UNCHANGED vars
  BY <1>0, <1>1, <1>2, <1>5, ExitInv DEF AppInv, Wishes
<1>6. CASE TakeCommand
  BY <1>0, <1>1, <1>2, <1>6, TakeInv DEF AppInv, Wishes
<1>7. CASE CoreStep1 /\ NoteRemoval /\ gui # "gone"
          /\ UNCHANGED <<cmds, gui, todo, asked, end>>
  BY <1>0, <1>1, <1>2, <1>7, CoreInv DEF AppInv, Wishes
<1>8. CASE UNCHANGED vars /\ UNCHANGED <<cmds, gui, todo, asked, refused, end>>
  <2>1. CommandAtHand' /\ ExitedIsLast' /\ (Stopped <=> Stopped')
        /\ (Stopping <=> Stopping') /\ (LoggingOut <=> LoggingOut')
        /\ (Forgotten <=> Forgotten')
        /\ UNCHANGED <<loop, cmd, cancel, proxy, disk, view>>
    BY <1>0, <1>8, CoreStill
  <2>2. Pending' = Pending
    BY <1>8 DEF Pending
  <2> QED
    BY <1>0, <1>1, <1>2, <1>8, <2>1, <2>2
    DEF AppInv, Wishes, WillStop, WillLogOut, QuitIsLast, EndIsEnd, CleanExit
<1>9. \/ \E c : Sends(c)
      \/ Unblock \/ (ExitProcess /\ UNCHANGED vars) \/ TakeCommand
      \/ CoreStep1 /\ NoteRemoval /\ gui # "gone"
         /\ UNCHANGED <<cmds, gui, todo, asked, end>>
      \/ UNCHANGED vars /\ UNCHANGED <<cmds, gui, todo, asked, refused, end>>
  <2>1. ReceiveLine => NoteRemoval
    BY DEF ReceiveLine, GpRecv, loopVars, NoteRemoval
  <2> QED
    BY <1>0, <2>1, Steps DEF CoreStep1, OpenOrCloseMenu, ReceiveLine, guiVars, appVars
<1> QED
  BY <1>3, <1>4, <1>5, <1>6, <1>7, <1>8, <1>9

-----------------------------------------------------------------------------
(* The theorems.                                                           *)

LEMMA AppInvariance == AppSpec => []AppInv
BY AppInitInv, AppStepInv, PTL DEF AppSpec

\* Types, and the capacity of the channel cmds: GpSend waits for room.
THEOREM AppTypesHold == AppSpec => []AppTypeOK
<1>1. AppInv => AppTypeOK
  BY DEF AppInv
<1> QED
  BY <1>1, AppInvariance, PTL

\* Whatever the pages offer and whenever the process ends, the core does what
\* Backend says of it (with any commands): so all that BackendProofs shows of the
\* core holds in the program.
THEOREM CoreIsBackend == AppSpec => Spec
<1>1. AppInit => Init
  BY DEF AppInit
<1>2. AppInv /\ [AppNext]_appVars => [Next]_vars
  BY CoreStep DEF AppInv
<1> QED
  BY <1>1, <1>2, AppInvariance, PTL DEF AppSpec, Spec

\* What BackendProofs shows, for the program: one attempt at a time, sessions that
\* stay logged out, busy pages that are true, and the abstract core of Vpn.
COROLLARY ProgramImplementsVpn ==
  AppSpec => [](OneConnection /\ LoggedOutStaysOut /\ BusyPageIsTrue) /\ ImplementsVpn
BY CoreIsBackend, OneConnectionHolds, LoggedOutStaysOutHolds, BusyPageIsTrueHolds,
  Implementation, PTL

\* The pages of the program are true as the core's are.
COROLLARY PagesAreTrue == AppSpec => []ShownPageIsTrue
BY CoreIsBackend, ShownPageIsTrueHolds, PTL

\* The GUI thread that GpSend blocks is let go: there is room, or the loop is
\* ready for the oldest command, or a step of the core that asks for nothing from
\* the GUI thread is possible.  Only the end of the loop could leave it waiting,
\* and no click is possible after the one on quit.
BlockEnds ==
  todo # NoCommand =>
    \/ Len(cmds) < CmdCap
    \/ cmds # <<>> /\ loop = "recv" /\ Quiet(Loop)
    \/ CanMove

THEOREM BlockedSendEnds ==
  ASSUME Run # {}
  PROVE  AppSpec => []BlockEnds
<1>1. ASSUME AppInv, view = "exited" \/ AtRest \/ CanMove
      PROVE  BlockEnds
  <2> SUFFICES ASSUME todo # NoCommand, ~(Len(cmds) < CmdCap), ~CanMove
               PROVE  cmds # <<>> /\ loop = "recv" /\ Quiet(Loop)
    BY DEF BlockEnds
  <2>1. view # "exited"
    <3> SUFFICES ASSUME view = "exited" PROVE FALSE
      OBVIOUS
    <3>1. loop = "exited"
      BY <1>1 DEF AppInv, ExitedIsLast
    <3>2. gui # "loop"
      BY <1>1, <3>1 DEF AppInv, CommandAtHand, QuitIsLast
    <3> QED
      BY <1>1, <3>2 DEF AppInv, QuitIsLast
  <2>2. loop = "recv" /\ Quiet(Loop)
    BY <1>1, <2>1 DEF AtRest, Proc
  <2>3. cmds # <<>>
    <3>1. Len(<<>>) = 0
      OBVIOUS
    <3> QED
      BY <3>1, CmdCapAssumption
  <2> QED
    BY <2>2, <2>3
<1> QED
  BY <1>1, AppInvariance, CoreIsBackend, NeverStuck, PTL

\* A core that has nothing left to do is what the user asked for last.
THEOREM LastWishIsDone == AppSpec => []LastWishHolds
<1>1. AppInv => LastWishHolds
  <2> SUFFICES ASSUME AppInv, loop = "recv", cmds = <<>>, todo = NoCommand
               PROVE  /\ asked \in {"off", "out"} => cancel = Nobody
                      /\ asked = "out" => Forgotten
    BY DEF LastWishHolds, Forgotten
  <2>1. Pending = <<>> /\ ~HasStop(Pending) /\ ~LogoutLast(Pending)
    BY DEF Pending, HasStop, LogoutLast
  <2> QED
    BY <2>1 DEF AppInv, WillStop, WillLogOut, Stopping, Stopped, LoggingOut
<1> QED
  BY <1>1, AppInvariance, PTL

\* A process that ended after "exited" has restored the proxy setting and has done
\* the logout that was asked for before, but for a removal that was refused.
THEOREM ExitIsCleanInProgram == AppSpec => []CleanExit
<1>1. AppInv => CleanExit
  BY DEF AppInv
<1> QED
  BY <1>1, AppInvariance, PTL
=============================================================================
