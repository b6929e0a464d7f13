------------------------------- MODULE Popup -------------------------------
(***************************************************************************)
(* The popup window of Sidegate and its tray icon: the window plumbing of  *)
(* gui/src/main.rs (show, hide, fade, on_msg, tray), App::logic, which     *)
(* runs in every frame, and the processes that summon the running one.     *)
(*                                                                         *)
(* The GUI thread handles one message or draws one frame at a time.  Every *)
(* fade is a thread of its own that sets the opacity of the window and may *)
(* hide it; a thread receives the lines of the core.  The user, Explorer   *)
(* and the other processes act at any time.                                *)
(***************************************************************************)
CONSTANTS
  Fader,    \* slots for fade threads alive at the same time
  NoFader   \* no fade has been started

ASSUME FaderAssumption == NoFader \notin Fader

VARIABLES
  main,    \* where the GUI thread is
  fader,   \* per fade thread: where it is, and whether it fades in
  latest,  \* FADE: the thread of the latest fade
  visible, \* is the window shown?
  solid,   \* is it fully opaque?
  focus,   \* does it have the keyboard focus?
  was,     \* App.was_focused
  recent,  \* have less than 400 ms passed since last_hide?
  button,  \* the mouse button on the tray icon, see below
  line,    \* is the state in App.st "on"?
  on,      \* Shared.on
  icon,    \* the icon in the notification area
  shell,   \* is Explorer there, with every TaskbarCreated of its handled?
  due,     \* has a frame been asked for (request_repaint)?
  asked,   \* history: what the latest show or hide wanted
  raced    \* history: did a fade begin, or a fade out end under show, with an older
           \* thread past its check of FADE?

window  == <<visible, solid, focus>>
fades   == <<fader, latest, raced>>
tray    == <<line, on, icon, shell>>
vars == <<main, fades, window, was, recent, button, tray, due, asked>>

\* A fade thread that does not exist.
Ended == [at |-> "none", in |-> FALSE]

Running == main \in {"loop", "show", "hide"}

-----------------------------------------------------------------------------
(* The fade threads.                                                       *)

Step(t, l) == fader' = [fader EXCEPT ![t].at = l]

FadeFrame == <<main, latest, was, recent, button, tray, asked>>

\* A thread ends.
End(t) == fader' = [fader EXCEPT ![t] = Ended]

\* The head of the loop: has a newer fade begun?
Check(t) ==
  /\ fader[t].at = "check"
  /\ IF latest = t THEN Step(t, "paint") ELSE End(t)
  /\ UNCHANGED <<FadeFrame, raced, window, due>>

\* SetLayeredWindowAttributes, on the way.
Paint(t) ==
  /\ fader[t].at = "paint"
  /\ solid' = FALSE
  /\ Step(t, "check")
  /\ UNCHANGED <<FadeFrame, raced, visible, focus, due>>

\* The same at p >= 1, the end of the loop.
PaintLast(t) ==
  /\ fader[t].at = "paint"
  /\ solid' = fader[t].in
  /\ IF fader[t].in THEN End(t) ELSE Step(t, "last")
  /\ UNCHANGED <<FadeFrame, raced, visible, focus, due>>

\* Mutant: the end of a fade out is not checked.
CheckLastNot(t) ==
  /\ fader[t].at = "last"
  /\ Step(t, "hide")
  /\ UNCHANGED <<FadeFrame, raced, window, due>>

\* After a fade out: is it still the latest one?
CheckLast(t) ==
  /\ fader[t].at = "last"
  /\ IF latest = t THEN Step(t, "hide") ELSE End(t)
  /\ UNCHANGED <<FadeFrame, raced, window, due>>

\* ShowWindow(SW_HIDE); a hidden window has no focus.
HideWindow(t) ==
  /\ fader[t].at = "hide"
  /\ visible' = FALSE /\ focus' = FALSE
  /\ due' = (due \/ focus)
  /\ raced' = (raced \/ main = "show")
  /\ End(t)
  /\ UNCHANGED <<FadeFrame, solid>>

\* fade: make this one the latest, ask for a frame and start the thread.
Fade(in) ==
  \E t \in Fader :
    /\ fader[t].at = "none"
    /\ fader' = [fader EXCEPT ![t] = [at |-> "check", in |-> in]]
    /\ latest' = t
    /\ raced' = (raced \/ \E u \in Fader : fader[u].at \in {"paint", "hide"})
    /\ due' = TRUE

-----------------------------------------------------------------------------
(* show and hide, up to their calls of fade, and those calls.              *)

\* set_alpha: layered again, and opaque or transparent.
SetAlpha(opaque) == solid' = opaque

\* show: transparent, in its place, shown; Windows may refuse the focus.
StartShow ==
  /\ SetAlpha(FALSE) /\ visible' = TRUE
  /\ focus' \in {focus, TRUE}
  /\ asked' = "show"
  /\ main' = "show"

\* hide: opaque, to begin the fade with.
StartHide ==
  /\ SetAlpha(TRUE)
  /\ asked' = "hide"
  /\ main' = "hide"
  /\ UNCHANGED <<visible, focus>>

FadeIn ==
  /\ main = "show"
  /\ Fade(TRUE)
  /\ main' = "loop"
  /\ UNCHANGED <<window, was, recent, button, tray, asked>>

FadeOut ==
  /\ main = "hide"
  /\ Fade(FALSE)
  /\ main' = "loop"
  /\ UNCHANGED <<window, was, recent, button, tray, asked>>

-----------------------------------------------------------------------------
(* The tray icon, and the thread that receives the lines of the core.      *)

Shows(b) == IF b THEN "on" ELSE "off"

\* on_msg, TaskbarCreated: a new Explorer knows no icon of ours.
TaskbarCreated ==
  /\ main = "loop" /\ ~shell
  /\ shell' = TRUE
  /\ icon' = Shows(on)
  /\ UNCHANGED <<main, fades, window, was, recent, button, line, on, due, asked>>

\* A line arrives, and the thread asks for a frame if r says so.
ReceiveAnd(r) ==
  /\ Running
  /\ line' = ~line
  /\ due' = (due \/ r)
  /\ UNCHANGED <<main, fades, window, was, recent, button, on, icon, shell, asked>>

\* Mutant: it does not.
ReceiveSilently == ReceiveAnd(FALSE)

Receive == ReceiveAnd(TRUE)

-----------------------------------------------------------------------------
(* Messages and frames of the GUI thread.                                  *)

\* summon, in another process: a second launch, or the browser's callback, has found
\* the window and posted WM_SHOW_REQ to it.  A thread that is in quit gets none.
Summoned == main = "loop"

\* on_msg, WM_SHOW_REQ.
ShowRequest ==
  /\ Summoned
  /\ StartShow
  /\ due' = TRUE
  /\ UNCHANGED <<fades, was, recent, button, tray>>

\* on_msg, a click on the tray icon ends: it hides the window, or shows it if r.
TrayUpIf(r) ==
  /\ main = "loop" /\ button # "up"
  /\ button' = "up"
  /\ \/ visible /\ StartHide /\ UNCHANGED due
     \/ ~visible /\ r /\ StartShow /\ due' = TRUE
     \/ ~visible /\ ~r /\ UNCHANGED <<main, window, asked, due>>
  /\ UNCHANGED <<fades, was, recent, tray>>

\* Mutant: last_hide is not asked.
TrayUpAtOnce == TrayUpIf(TRUE)

\* The click began by taking the focus away, which may have hidden the window;
\* then it must not come right back.
TrayUp == TrayUpIf(~recent)

\* Mutant: was_focused is set before it is compared.
LostNever == focus /\ ~focus

\* logic: the popup had the focus in the last frame and has lost it.
Lost == was /\ ~focus

\* logic: bring the icon up to date.  There may be none to modify.
SyncIcon ==
  /\ on' = line
  /\ icon' = IF on # line /\ icon # "none" THEN Shows(line) ELSE icon
  /\ UNCHANGED <<line, shell>>

\* A frame.  What logic does after its call of hide concerns no other thread, so
\* it is done here, before the fade begins.
Frame ==
  /\ main = "loop" /\ due
  /\ due' = FALSE
  /\ was' = focus
  /\ SyncIcon
  /\ \/ Lost /\ StartHide /\ recent' = TRUE
     \/ ~Lost /\ UNCHANGED <<main, window, asked, recent>>
  /\ UNCHANGED <<fades, button>>

\* App::new: the icon, if Explorer is there, the receiving thread, show.
New ==
  /\ main = "boot"
  /\ icon' = IF shell THEN Shows(on) ELSE icon
  /\ StartShow
  /\ UNCHANGED <<fades, was, recent, button, line, on, shell, due>>

\* quit, from the menu or at the end of the Windows session: the icon goes, and
\* the thread handles no message any more.
Quit ==
  /\ main = "loop"
  /\ main' = "quit"
  /\ icon' = "none"
  /\ UNCHANGED <<fades, window, was, recent, button, line, on, shell, due, asked>>

-----------------------------------------------------------------------------
(* The user, Explorer and the clock.                                       *)

\* The user clicks on another window, or on this one.
FocusChange ==
  /\ Running /\ visible
  /\ focus' = ~focus
  /\ due' = TRUE
  /\ UNCHANGED <<main, fades, visible, solid, was, recent, button, tray, asked>>

\* The mouse button goes down on the tray icon, and takes the focus away.
\* "open": the popup was there then, and 400 ms have not passed since.
TrayDown ==
  /\ Running /\ button = "up" /\ icon # "none"
  /\ button' = IF visible /\ asked = "show" THEN "open" ELSE "down"
  /\ focus' = FALSE
  /\ due' = (due \/ focus)
  /\ UNCHANGED <<main, fades, visible, solid, was, recent, tray, asked>>

\* 400 ms pass.
Elapse ==
  /\ recent \/ button = "open"
  /\ recent' = FALSE
  /\ button' = IF button = "open" THEN "down" ELSE button
  /\ UNCHANGED <<main, fades, window, was, tray, due, asked>>

\* Explorer ends; the next one will send TaskbarCreated.
ShellRestart ==
  /\ shell
  /\ shell' = FALSE /\ icon' = "none"
  /\ UNCHANGED <<main, fades, window, was, recent, button, line, on, due, asked>>

-----------------------------------------------------------------------------

Init ==
  /\ main = "boot"
  /\ fader = [t \in Fader |-> Ended] /\ latest = NoFader /\ raced = FALSE
  /\ visible = FALSE /\ solid = TRUE /\ focus = FALSE
  /\ was = FALSE /\ recent = FALSE /\ button = "up"
  /\ line = FALSE /\ on = FALSE /\ icon = "none" /\ shell = TRUE
  /\ due = FALSE /\ asked = "hide"

FaderStep(t) ==
  Check(t) \/ Paint(t) \/ PaintLast(t) \/ CheckLast(t) \/ HideWindow(t)

World == Receive \/ FocusChange \/ TrayDown \/ Elapse \/ ShellRestart

Next ==
  \/ \E t \in Fader : FaderStep(t)
  \/ New \/ FadeIn \/ FadeOut \/ Frame
  \/ ShowRequest \/ TrayUp \/ TaskbarCreated \/ Quit
  \/ World

Spec == Init /\ [][Next]_vars

\* Threads run, a fade's clock included, and a frame that was asked for is drawn
\* however many messages there are.  The user and the core owe nothing.
Fairness ==
  /\ \A t \in Fader : WF_vars(FaderStep(t)) /\ SF_vars(PaintLast(t))
  /\ WF_vars(New \/ FadeIn \/ FadeOut)
  /\ SF_vars(Frame)

FairSpec == Spec /\ Fairness

-----------------------------------------------------------------------------
(* Properties.                                                             *)

\* Types.
TypeOK ==
  /\ main \in {"boot", "loop", "show", "hide", "quit"}
  /\ fader \in [Fader -> [at : {"none", "check", "paint", "last", "hide"}, in : BOOLEAN]]
  /\ latest \in Fader \cup {NoFader}
  /\ visible \in BOOLEAN /\ solid \in BOOLEAN /\ focus \in BOOLEAN
  /\ was \in BOOLEAN /\ recent \in BOOLEAN
  /\ button \in {"up", "down", "open"}
  /\ line \in BOOLEAN /\ on \in BOOLEAN /\ shell \in BOOLEAN
  /\ icon \in {"none", "off", "on"}
  /\ due \in BOOLEAN /\ raced \in BOOLEAN
  /\ asked \in {"show", "hide"}

\* Unless a frame is on its way, the icon shows the state of the connection,
\* whatever lines have arrived and however often Explorer was restarted, also
\* while the window is hidden.  (logic's swap; on_msg's TaskbarCreated.)
TrayInSync == Running /\ shell /\ ~due => icon = Shows(line)

\* When the fades are over the window is as the latest show or hide wanted it:
\* hidden, or shown and opaque; whichever fades were still running then.  (fade:
\* a thread goes on only while FADE is its own.)  raced excludes every behaviour in
\* which a fade began while an older thread was between this test and its call,
\* whatever that call then did, and those in which a thread hid the window that show
\* had just shown and was about to fade in.
Settled ==
  main = "loop" /\ ~raced /\ (\A t \in Fader : fader[t].at = "none")
    => IF asked = "show" THEN visible /\ solid ELSE ~visible

\* A short click on the tray icon while the popup is there closes it, and does
\* not bring it back, whether the loss of the focus has already hidden it or
\* not.  (on_msg with last_hide.)
TrayClickCloses ==
  [][button = "open" /\ button' = "up" /\ ~raced => asked' = "hide"]_vars

\* A popup that had the focus in a frame and has lost it goes away, unless it gets
\* the focus back or is shown anew before; a user who clicks on the tray icon
\* without end can keep it, as each click starts the fade again.  (logic; fade.)
LeftAlone ==
  <>[](button = "up")
    => (was /\ ~focus ~> ~visible \/ focus \/ main = "show" \/ ~Running)
=============================================================================
