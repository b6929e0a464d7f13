------------------------------ MODULE Sidegate ------------------------------
(***************************************************************************)
(* The whole program: the VPN core of module Backend driven by the pages   *)
(* of gui/src/main.rs through the channel cmds of core/lib.go.             *)
(*                                                                         *)
(* The GUI thread draws the page for the last line received and sends what *)
(* the user clicks there.  GpSend puts it into the channel and blocks that *)
(* thread while the channel is full; the command loop takes the commands   *)
(* one at a time.  When the GUI ends the process, every thread and every   *)
(* goroutine stops where it is.                                            *)
(***************************************************************************)
EXTENDS Backend

CONSTANT CmdCap   \* capacity of the channel cmds (16 in lib.go)

ASSUME CmdCapAssumption == CmdCap \in Nat \ {0}

VARIABLES
  cmds,   \* the channel cmds
  gui,    \* the GUI thread: "loop", "quit" (waiting in quit), "gone"
  todo,   \* the command it is handing to GpSend
  acct,   \* does App.st have a user?
  menu,   \* App.menu_open
  asked,  \* history: what the user wants: "on", "off", "out" (log out)
  refused, \* history: did the last logout fail to remove session.bin?
  end     \* history: how the process ended, "" while it runs

guiVars == <<cmds, gui, todo, acct, menu, asked, end>>
appVars == <<vars, guiVars, refused>>

-----------------------------------------------------------------------------
(* The pages, and what can be clicked on them.                             *)

\* ui: which page is drawn.
Page ==
  CASE view = "starting" -> "spinner"
    [] view = "setup" -> "setup"
    [] view = "checking" /\ ~acct -> "validating"
    [] view = "login" \/ (view = "connecting" /\ ~acct) -> "auth"
    [] OTHER -> "main"

\* The GUI thread has handed over c; quit goes on to wait.
Sent(c) ==
  /\ gui' = IF c.op = "quit" THEN "quit" ELSE "loop"
  /\ todo' = NoCommand

\* Two mutants: a select whose default drops the command; a quit that passes the
\* commands that wait.
PutOrDrop(c) ==
  /\ cmds' = IF Len(cmds) < CmdCap THEN Append(cmds, c) ELSE cmds
  /\ Sent(c)
PutQuitFirst(c) ==
  \/ c.op = "quit" /\ cmds' = <<c>> /\ Sent(c)
  \/ Len(cmds) < CmdCap /\ cmds' = Append(cmds, c) /\ Sent(c)
  \/ Len(cmds) = CmdCap /\ c.op # "quit" /\ todo' = c /\ UNCHANGED <<cmds, gui>>

\* GpSend: put c into the channel, or wait for room with the GUI thread blocked.
Put(c) ==
  \/ Len(cmds) < CmdCap /\ cmds' = Append(cmds, c) /\ Sent(c)
  \/ Len(cmds) = CmdCap /\ todo' = c /\ UNCHANGED <<cmds, gui>>

\* The GUI thread handles messages and draws frames.
Idle == gui = "loop" /\ todo = NoCommand

\* send, for a click: the press that began it was outside the menu or on an entry
\* that closes it.
Send(op, h) ==
  /\ Idle
  /\ Put([op |-> op, host |-> h])
  /\ menu' = FALSE
  /\ UNCHANGED <<vars, acct, refused, end>>

\* setup_page: the address in the field may be blank; not while validating.
Continue(h) ==
  /\ Page = "setup"
  /\ asked' = IF h = NoHost THEN asked ELSE "on"
  /\ Send("setup", h)

\* auth_page: the button "cancel".
CancelLogin ==
  /\ Page = "auth"
  /\ asked' = "off"
  /\ Send("disconnect", NoHost)

\* main_page: the switch; every state but "off" can be switched off.
Toggle ==
  /\ Page = "main"
  /\ IF view = "off" THEN asked' = "on"  /\ Send("connect", NoHost)
                     ELSE asked' = "off" /\ Send("disconnect", NoHost)

\* header, on every page: the menu is opened, or closed by its button or by a click
\* elsewhere; logic closes it too, when the focus is lost.
OpenOrCloseMenu ==
  /\ Idle
  /\ menu' = ~menu
  /\ UNCHANGED <<vars, cmds, gui, todo, acct, asked, refused, end>>

\* header: the entry "log out", if there is a user.
LogOut ==
  /\ menu /\ acct
  /\ asked' = "out"
  /\ Send("logout", NoHost)

\* quit, from the menu, or at the end of the Windows session.
Quit == Send("quit", NoHost) /\ UNCHANGED asked

-----------------------------------------------------------------------------
(* The channel, the receiving thread and the end of the process.           *)

\* There is room again for a blocked GpSend.
Unblock ==
  /\ todo # NoCommand
  /\ Len(cmds) < CmdCap
  /\ cmds' = Append(cmds, todo)
  /\ Sent(todo)
  /\ UNCHANGED <<vars, acct, menu, asked, refused, end>>

\* The command loop takes the oldest command.
TakeCommand ==
  /\ gui # "gone"
  /\ cmds # <<>>
  /\ Receive(Head(cmds))
  /\ cmds' = Tail(cmds)
  /\ UNCHANGED <<gui, todo, acct, menu, asked, refused, end>>

\* The receiving thread stores the line in App.st, but for the last one.
ReceiveLine ==
  /\ gui # "gone"
  /\ GpRecv
  /\ acct' = IF view' = "exited" THEN acct ELSE Head(events).user
  /\ UNCHANGED <<cmds, gui, todo, menu, asked, refused, end>>

\* The process ends, and with it every goroutine.
EndProcess(how) ==
  /\ gui' = "gone"
  /\ end' = how
  /\ UNCHANGED <<vars, cmds, todo, acct, menu, asked, refused>>

\* quit: the receiving thread has set Shared.exited, or 5 seconds have passed.
ExitProcess == gui = "quit" /\ EndProcess(IF view = "exited" THEN "exited" ELSE "deadline")

-----------------------------------------------------------------------------

AppInit ==
  /\ Init
  /\ cmds = <<>> /\ gui = "loop" /\ todo = NoCommand
  /\ acct = FALSE /\ menu = FALSE /\ asked = "off" /\ refused = FALSE /\ end = ""

Click ==
  \/ \E h \in Host \cup {NoHost} : Continue(h)
  \/ CancelLogin \/ Toggle \/ OpenOrCloseMenu \/ LogOut \/ Quit

\* History: has the logout that has just been past its os.Remove left a session?
NoteRemoval ==
  refused' = IF loop = "wipe" /\ loop' # "wipe" THEN disk' # NoSession ELSE refused

\* A step of the core by itself.
Alone(A) == gui # "gone" /\ A /\ NoteRemoval /\ UNCHANGED guiVars

\* The process is over.
Gone == gui = "gone" /\ UNCHANGED appVars

AppNext ==
  \/ Click \/ Unblock \/ TakeCommand \/ ReceiveLine
  \/ ExitProcess
  \/ Alone(LoopStep)
  \/ \E p \in Proc : Alone(EmitLock(p) \/ EmitSend(p))
  \/ \E r \in Run : Alone(RunStep(r))
  \/ Gone

AppSpec == AppInit /\ [][AppNext]_appVars

-----------------------------------------------------------------------------
(* Properties.                                                             *)

\* Types, of what this module adds to Backend's.
AppTypeOK ==
  /\ cmds \in Seq(Command) /\ Len(cmds) <= CmdCap
  /\ gui \in {"loop", "quit", "gone"}
  /\ todo \in Command \cup {NoCommand}
  /\ acct \in BOOLEAN /\ menu \in BOOLEAN
  /\ asked \in {"on", "off", "out"} /\ refused \in BOOLEAN
  /\ end \in {"", "exited", "deadline"}

\* No command is lost or overtaken: whenever the core has nothing more to read
\* and is done with what it read, what the user asked for last is what it is:
\* after a "disconnect" or a logout nothing is connected, and after a logout no
\* session is on the disk unless the system refused to remove it just then,
\* whichever page the click was made on and however many commands waited before it.
\* (GpSend; disconnect.)
LastWishHolds ==
  loop = "recv" /\ cmds = <<>> /\ todo = NoCommand
    => /\ asked \in {"off", "out"} => cancel = Nobody
       /\ asked = "out" => disk = NoSession \/ refused

\* A quit that is answered in time leaves nothing behind: the proxy setting is
\* restored, and the logout clicked before it has been carried out, although the
\* user did not wait for it; only a refused removal leaves a session behind.
\* (quit; serveCommands, "quit".)
CleanExit ==
  end = "exited" => /\ proxy = Nobody /\ cancel = Nobody
                    /\ asked = "out" => disk = NoSession \/ refused

\* Expected to fail: "idleState is the page to show when not connected"
\* (main.go), and a grey icon means not connected (tray_icon in main.rs).  When the
\* first of two clicks on the switch starts a connection that fails at once, its
\* goroutine may report that after the second one has connected: the page shows
\* "off", and its switch sends a connect that is ignored.
OffMeansOff ==
  /\ loop = "recv" /\ cmds = <<>> /\ events = <<>>
  /\ \A p \in Proc : Quiet(p)
  /\ view = "off"
  => \A r \in Run : pc[r] # "up"
=============================================================================
