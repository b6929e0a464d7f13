---------------------------- MODULE PopupProofs ----------------------------
(***************************************************************************)
(* Proofs about Popup, for any number of fade threads at the same time.    *)
(***************************************************************************)
EXTENDS Popup, TLAPS

-----------------------------------------------------------------------------
(* The inductive invariant.                                                *)

\* The icon shows Shared.on, and a frame is due when that is out of date.
IconInv ==
  /\ Running /\ shell => icon = Shows(on)
  /\ on # line => due

\* Only a thread that fades out gets to the call that hides.
OnlyOutHides == \A t \in Fader : fader[t].at \in {"last", "hide"} => ~fader[t].in

\* A fade that is not the latest touches the window no more.
OldFadesAreDone ==
  ~raced => \A t \in Fader \ {latest} : fader[t].at \notin {"paint", "hide"}

\* Between the begin of show or hide and its call of fade.
Begun ==
  /\ main = "show" => asked = "show" /\ (visible \/ raced)
  /\ main = "hide" => asked = "hide"

\* After that: what the latest fade has done, or will have done when it is over.
LatestWins ==
  main = "loop" /\ ~raced =>
    /\ latest \in Fader
    /\ asked = "show" => /\ visible
                         /\ IF fader[latest].at = "none" THEN solid ELSE fader[latest].in
    /\ asked = "hide" =>
         IF fader[latest].at = "none" THEN ~visible ELSE ~fader[latest].in

\* A click that found the popup there finds it there at its end, or is told that it
\* was hidden since.
OpenOrRecent == button = "open" => asked = "show" \/ recent

FadeInv == OnlyOutHides /\ OldFadesAreDone /\ Begun /\ LatestWins /\ OpenOrRecent

PopupInv == TypeOK /\ IconInv /\ FadeInv

-----------------------------------------------------------------------------

\* The two parts of TypeOK.
FaderOK ==
  fader \in [Fader -> [at : {"none", "check", "paint", "last", "hide"}, in : BOOLEAN]]

FlagsOK ==
  /\ main \in {"boot", "loop", "show", "hide", "quit"}
  /\ latest \in Fader \cup {NoFader}
  /\ visible \in BOOLEAN /\ solid \in BOOLEAN /\ focus \in BOOLEAN
  /\ was \in BOOLEAN /\ recent \in BOOLEAN
  /\ button \in {"up", "down", "open"}
  /\ line \in BOOLEAN /\ on \in BOOLEAN /\ shell \in BOOLEAN
  /\ icon \in {"none", "off", "on"}
  /\ due \in BOOLEAN /\ raced \in BOOLEAN
  /\ asked \in {"show", "hide"}

LEMMA TypeParts == TypeOK <=> FaderOK /\ FlagsOK
BY DEF TypeOK, FaderOK, FlagsOK

LEMMA InitPopup == Init => PopupInv
<1> SUFFICES ASSUME Init PROVE PopupInv
  OBVIOUS
<1>1. FaderOK
  BY DEF Init, FaderOK, Ended
<1>2. FlagsOK /\ IconInv
  BY DEF Init, FlagsOK, IconInv, Running
<1>3. \A t \in Fader : fader[t].at = "none"
  BY DEF Init, Ended
<1>4. FadeInv
  BY <1>3 DEF Init, FadeInv, OnlyOutHides, OldFadesAreDone, Begun, LatestWins,
    OpenOrRecent
<1> QED
  BY <1>1, <1>2, <1>4, TypeParts DEF PopupInv

\* The steps, one by one.
LEMMA PopupSteps ==
  ASSUME [Next]_vars
  PROVE  \/ \E t \in Fader : \/ Check(t) \/ Paint(t) \/ PaintLast(t)
                             \/ CheckLast(t) \/ HideWindow(t)
         \/ New \/ FadeIn \/ FadeOut \/ Frame
         \/ ShowRequest \/ TrayUp \/ TaskbarCreated \/ Quit
         \/ Receive \/ FocusChange \/ TrayDown \/ Elapse \/ ShellRestart
         \/ UNCHANGED vars
BY DEF Next, FaderStep, World

\* What the beginnings of show and of hide do.
BeginsShow ==
  /\ main' = "show" /\ asked' = "show" /\ visible' = TRUE /\ solid' = FALSE
  /\ due' = TRUE /\ (focus' = focus \/ focus' = TRUE)
BeginsHide ==
  /\ main' = "hide" /\ asked' = "hide" /\ solid' = TRUE
  /\ UNCHANGED <<visible, focus, due>>

\* What a step does to the fade threads.
FaderMoves ==
  \/ fader' = fader
  \/ \E t \in Fader :
       \/ \E l \in {"check", "paint", "last", "hide"} :
            fader' = [fader EXCEPT ![t].at = l]
       \/ \E b \in BOOLEAN, l \in {"none", "check"} :
            fader' = [fader EXCEPT ![t] = [at |-> l, in |-> b]]

LEMMA FaderTypes == ASSUME FaderOK, FaderMoves PROVE FaderOK'
<1>1. ASSUME NEW t \in Fader, NEW l \in {"check", "paint", "last", "hide"},
             fader' = [fader EXCEPT ![t].at = l]
      PROVE  FaderOK'
  BY <1>1 DEF FaderOK
<1>2. ASSUME NEW t \in Fader, NEW b \in BOOLEAN, NEW l \in {"none", "check"},
             fader' = [fader EXCEPT ![t] = [at |-> l, in |-> b]]
      PROVE  FaderOK'
  BY <1>2 DEF FaderOK
<1> QED
  BY <1>1, <1>2 DEF FaderMoves, FaderOK

\* Types are preserved.
LEMMA PopupTypesStep == TypeOK /\ [Next]_vars => TypeOK'
<1> SUFFICES ASSUME TypeOK, [Next]_vars PROVE FaderMoves /\ FlagsOK'
  BY FaderTypes, TypeParts DEF FaderOK, FlagsOK, TypeOK
<1>0. FlagsOK
  BY TypeParts
<1>1. ASSUME NEW t \in Fader,
             Check(t) \/ Paint(t) \/ PaintLast(t) \/ CheckLast(t) \/ HideWindow(t)
      PROVE  FaderMoves /\ FlagsOK'
  <2> USE DEF Check, Paint, PaintLast, CheckLast, HideWindow
  <2>1. FaderMoves
    BY <1>1 DEF Step, End, Ended, FaderMoves
  <2>2. /\ UNCHANGED <<main, latest, was, recent, button, line, on, icon, shell, asked>>
        /\ visible' = visible \/ visible' = FALSE
        /\ focus' = focus \/ focus' = FALSE
    BY <1>1 DEF FadeFrame, tray, window
  <2>3. solid' \in BOOLEAN
    <3>1. solid' \in {solid, FALSE} \/ solid' = fader[t].in
      BY <1>1 DEF window
    <3>2. solid \in BOOLEAN /\ fader[t].in \in BOOLEAN
      BY DEF TypeOK
    <3> QED
      BY <3>1, <3>2
  <2>4. due' \in BOOLEAN /\ raced' \in BOOLEAN
    BY <1>0, <1>1 DEF FlagsOK
  <2>5. visible' \in BOOLEAN /\ focus' \in BOOLEAN
    BY <1>0, <2>2 DEF FlagsOK
  <2>6. UNCHANGED <<main, latest, was, recent, button, line, on, icon, shell, asked>>
    BY <2>2
  <2> QED
    BY <1>0, <2>1, <2>3, <2>4, <2>5, <2>6 DEF FlagsOK
<1>2. CASE New
  <2>1. /\ UNCHANGED <<fader, latest, raced, was, recent, button, line, on, shell, due>>
        /\ icon' \in {icon, "on", "off"} /\ main' = "show" /\ asked' = "show"
        /\ visible' = TRUE /\ solid' = FALSE /\ focus' \in {focus, TRUE}
    BY <1>2 DEF New, StartShow, SetAlpha, Shows, fades
  <2>2. focus' \in BOOLEAN
    BY <1>0, <2>1 DEF FlagsOK
  <2>3. icon' \in {"none", "on", "off"}
    BY <1>0, <2>1 DEF FlagsOK
  <2> QED
    BY <1>0, <2>1, <2>2, <2>3, ZenonT(60) DEF FaderMoves, FlagsOK
<1>3. CASE FadeIn \/ FadeOut
  <2>1. UNCHANGED <<visible, solid, focus, was, recent, button, line, on, icon, shell, asked>>
        /\ main' = "loop"
    BY <1>3 DEF FadeIn, FadeOut, window, tray
  <2>2. latest' \in Fader /\ FaderMoves
    BY <1>3 DEF FadeIn, FadeOut, Fade, FaderMoves
  <2>3. due' \in BOOLEAN /\ raced' \in BOOLEAN
    BY <1>0, <1>3 DEF FadeIn, FadeOut, Fade, FlagsOK
  <2> QED
    BY <1>0, <2>1, <2>2, <2>3 DEF FlagsOK
<1>4. CASE Frame
  <2>1. /\ UNCHANGED <<fader, latest, raced, visible, button, line, shell>>
        /\ due' = FALSE /\ was' = focus
        /\ main' \in {"loop", "hide"} /\ focus' = focus
    BY <1>4 DEF Frame, SyncIcon, StartHide, fades, window
  <2>2. on' = line /\ icon' \in {icon, "on", "off"}
    BY <1>4 DEF Frame, SyncIcon, Shows
  <2>3. icon' \in {"none", "on", "off"}
    BY <1>0, <2>2 DEF FlagsOK
  <2>4. recent' \in BOOLEAN /\ solid' \in BOOLEAN
    <3>1. recent' \in {recent, TRUE} /\ solid' \in {solid, TRUE}
      BY <1>4 DEF Frame, StartHide, SetAlpha, window
    <3> QED
      BY <1>0, <3>1 DEF FlagsOK
  <2>5. asked' \in {"show", "hide"}
    BY <1>0, <1>4 DEF Frame, StartHide, FlagsOK
  <2> QED
    BY <1>0, <2>1, <2>2, <2>3, <2>4, <2>5, ZenonT(60) DEF FaderMoves, FlagsOK
<1>5. CASE ShowRequest
  <2>1. /\ UNCHANGED <<fader, latest, raced, was, recent, button, line, on, icon, shell>>
        /\ main' = "show" /\ asked' = "show" /\ visible' = TRUE /\ solid' = FALSE
        /\ due' = TRUE /\ focus' \in {focus, TRUE}
    BY <1>5 DEF ShowRequest, StartShow, SetAlpha, fades, tray
  <2>2. focus' \in BOOLEAN
    BY <1>0, <2>1 DEF FlagsOK
  <2> QED
    BY <1>0, <2>1, <2>2, ZenonT(60) DEF FaderMoves, FlagsOK
<1>6. CASE TrayUp
  <2>1. /\ UNCHANGED <<fader, latest, raced, was, recent, line, on, icon, shell>>
        /\ button' = "up"
        /\ \/ BeginsShow \/ BeginsHide
           \/ UNCHANGED <<main, visible, solid, focus, asked, due>>
    BY <1>6
    DEF TrayUp, TrayUpIf, StartShow, StartHide, SetAlpha, fades, tray, window, BeginsShow,
      BeginsHide
  <2>2. visible' \in BOOLEAN /\ solid' \in BOOLEAN /\ focus' \in BOOLEAN /\ due' \in BOOLEAN
    BY <1>0, <2>1 DEF FlagsOK, BeginsShow, BeginsHide
  <2>3. main' \in {main, "show", "hide"} /\ asked' \in {asked, "show", "hide"}
    BY <2>1 DEF BeginsShow, BeginsHide
  <2> QED
    BY <1>0, <2>1, <2>2, <2>3 DEF FaderMoves, FlagsOK
<1>7. CASE TaskbarCreated \/ Quit \/ Receive
  <2>1. CASE TaskbarCreated
    BY <1>0, <2>1 DEF TaskbarCreated, Shows, FaderMoves, FlagsOK, fades, window
  <2>2. CASE Quit
    BY <1>0, <2>2 DEF Quit, FaderMoves, FlagsOK, fades, window
  <2>3. CASE Receive
    BY <1>0, <2>3 DEF Receive, ReceiveAnd, FaderMoves, FlagsOK, fades, window
  <2> QED
    BY <1>7, <2>1, <2>2, <2>3
<1>8. CASE FocusChange \/ TrayDown \/ Elapse \/ ShellRestart
  <2>1. CASE FocusChange
    BY <1>0, <2>1 DEF FocusChange, FaderMoves, FlagsOK, fades, tray
  <2>2. CASE TrayDown
    <3>1. /\ UNCHANGED <<main, fader, latest, raced, visible, solid, was, recent, line, on,
                         icon, shell, asked>>
          /\ button' \in {"open", "down"} /\ focus' = FALSE /\ due' = (due \/ focus)
      BY <2>2 DEF TrayDown, fades, tray
    <3>2. due' \in BOOLEAN /\ focus' \in BOOLEAN /\ button' \in {"up", "down", "open"}
      BY <3>1
    <3>3. UNCHANGED <<main, latest, raced, visible, solid, was, recent, line, on, icon,
                      shell, asked>>
      BY <3>1
    <3>4. FaderMoves
      BY <3>1 DEF FaderMoves
    <3> QED
      BY <1>0, <3>2, <3>3, <3>4 DEF FlagsOK
  <2>3. CASE Elapse
    <3>1. UNCHANGED <<main, latest, raced, visible, solid, focus, was, line, on, icon,
                      shell, due, asked>>
      BY <2>3 DEF Elapse, fades, tray, window
    <3>2. recent' \in BOOLEAN /\ button' \in {"up", "down", "open"}
      BY <1>0, <2>3 DEF Elapse, FlagsOK
    <3>3. FaderMoves
      BY <2>3 DEF Elapse, FaderMoves, fades
    <3> QED
      BY <1>0, <3>1, <3>2, <3>3 DEF FlagsOK
  <2>4. CASE ShellRestart
    <3>1. UNCHANGED <<main, latest, raced, visible, solid, focus, was, recent, button, line,
                      on, due, asked>>
      BY <2>4 DEF ShellRestart, fades, window
    <3>2. shell' \in BOOLEAN /\ icon' \in {"none", "off", "on"}
      BY <2>4 DEF ShellRestart
    <3>3. FaderMoves
      BY <2>4 DEF ShellRestart, FaderMoves, fades
    <3> QED
      BY <1>0, <3>1, <3>2, <3>3 DEF FlagsOK
  <2> QED
    BY <1>8, <2>1, <2>2, <2>3, <2>4
<1>9. CASE UNCHANGED vars
  BY <1>0, <1>9 DEF vars, fades, tray, window, FaderMoves, FlagsOK
<1> QED
  BY <1>1, <1>2, <1>3, <1>4, <1>5, <1>6, <1>7, <1>8, <1>9, PopupSteps

\* The icon.
LEMMA IconStep == IconInv /\ [Next]_vars => IconInv'
<1> SUFFICES ASSUME IconInv, [Next]_vars PROVE IconInv'
  OBVIOUS
<1>1. CASE \E t \in Fader : \/ Check(t) \/ Paint(t) \/ PaintLast(t)
                            \/ CheckLast(t) \/ HideWindow(t)
  <2>1. UNCHANGED <<main, line, on, icon, shell>>
    BY <1>1 DEF Check, Paint, PaintLast, CheckLast, HideWindow, FadeFrame, tray
  <2>2. due => due'
    BY <1>1 DEF Check, Paint, PaintLast, CheckLast, HideWindow
  <2> QED
    BY <2>1, <2>2 DEF IconInv, Running
<1> USE DEF IconInv, Running, tray
<1>2. CASE New
  BY <1>2 DEF New
<1>3. CASE FadeIn \/ FadeOut
  BY <1>3 DEF FadeIn, FadeOut, Fade
<1>4. CASE Frame
  <2>1. on' = line /\ line' = line /\ shell' = shell /\ main = "loop"
    BY <1>4 DEF Frame, SyncIcon
  <2>2. on = line => icon' = icon
    BY <1>4 DEF Frame, SyncIcon
  <2>3. icon = Shows(on) => icon # "none"
    BY DEF Shows
  <2>4. on # line /\ icon # "none" => icon' = Shows(line)
    BY <1>4 DEF Frame, SyncIcon
  <2> QED
    BY <2>1, <2>2, <2>3, <2>4
<1>5. CASE ShowRequest
  BY <1>5 DEF ShowRequest, Summoned, StartShow
<1>6. CASE TrayUp
  <2>1. main = "loop" /\ UNCHANGED <<line, on, icon, shell>>
    BY <1>6 DEF TrayUp, TrayUpIf
  <2>2. due => due'
    BY <1>6 DEF TrayUp, TrayUpIf
  <2> QED
    BY <2>1, <2>2
<1>7. CASE TaskbarCreated
  BY <1>7 DEF TaskbarCreated
<1>8. CASE Quit
  BY <1>8 DEF Quit
<1>9. CASE Receive
  <2>1. Running /\ due' /\ UNCHANGED <<main, on, icon, shell>>
    BY <1>9 DEF Receive, ReceiveAnd
  <2> QED
    BY <2>1
<1>10. CASE FocusChange \/ TrayDown \/ Elapse \/ ShellRestart
  <2>1. main' = main /\ line' = line /\ on' = on
    BY <1>10 DEF FocusChange, TrayDown, Elapse, ShellRestart
  <2>2. due => due'
    BY <1>10 DEF FocusChange, TrayDown, Elapse, ShellRestart
  <2>3. shell' => shell /\ icon' = icon
    BY <1>10 DEF FocusChange, TrayDown, Elapse, ShellRestart
  <2> QED
    BY <2>1, <2>2, <2>3
<1>11. CASE UNCHANGED vars
  BY <1>11 DEF vars
<1> QED
  BY <1>1, <1>2, <1>3, <1>4, <1>5, <1>6, <1>7, <1>8, <1>9, <1>10, <1>11, PopupSteps

\* The fade threads.
LEMMA FaderSteps ==
  ASSUME TypeOK, FadeInv, NEW t \in Fader,
         Check(t) \/ Paint(t) \/ PaintLast(t) \/ CheckLast(t) \/ HideWindow(t)
  PROVE  FadeInv'
<1> USE DEF TypeOK, FadeInv, FadeFrame, window, OnlyOutHides, OldFadesAreDone, Begun,
      LatestWins, OpenOrRecent, Step, End, Ended
<1>1. CASE Check(t)
  BY <1>1 DEF Check
<1>2. CASE Paint(t)
  BY <1>2 DEF Paint
<1>3. CASE PaintLast(t)
  BY <1>3 DEF PaintLast
<1>4. CASE CheckLast(t)
  BY <1>4 DEF CheckLast
<1>5. CASE HideWindow(t)
  BY <1>5 DEF HideWindow
<1> QED
  BY <1>1, <1>2, <1>3, <1>4, <1>5

LEMMA FadeStep == TypeOK /\ FadeInv /\ [Next]_vars => FadeInv'
<1> SUFFICES ASSUME TypeOK, FadeInv, [Next]_vars PROVE FadeInv'
  OBVIOUS
<1>1. CASE \E t \in Fader : \/ Check(t) \/ Paint(t) \/ PaintLast(t)
                            \/ CheckLast(t) \/ HideWindow(t)
  BY <1>1, FaderSteps
<1> USE DEF FadeInv, OnlyOutHides, OldFadesAreDone, Begun, LatestWins, OpenOrRecent
<1>2. CASE New
  <2>1. /\ UNCHANGED <<fader, latest, raced, recent, button>>
        /\ main' = "show" /\ asked' = "show" /\ visible' = TRUE
    BY <1>2 DEF New, StartShow, fades
  <2> QED
    BY <2>1
<1>3. ASSUME NEW b \in BOOLEAN, Fade(b), main' = "loop",
             main = IF b THEN "show" ELSE "hide",
             UNCHANGED <<visible, recent, button, asked>>
      PROVE  FadeInv'
  <2>1. PICK t \in Fader :
          /\ fader[t].at = "none"
          /\ fader' = [fader EXCEPT ![t] = [at |-> "check", in |-> b]]
          /\ latest' = t
          /\ raced' = (raced \/ \E u \in Fader : fader[u].at \in {"paint", "hide"})
    BY <1>3 DEF Fade
  <2>2. /\ fader'[t].at = "check" /\ fader'[t].in = b
        /\ \A u \in Fader \ {t} : fader'[u] = fader[u]
    BY <2>1 DEF TypeOK
  <2>3. ~raced' => ~raced /\ \A u \in Fader : fader[u].at \notin {"paint", "hide"}
    BY <2>1
  <2>4. OnlyOutHides' /\ OldFadesAreDone'
    BY <2>1, <2>2, <2>3
  <2>5. Begun' /\ OpenOrRecent'
    BY <1>3
  <2>6. (asked = "show" => b) /\ (asked = "hide" => ~b) /\ (b => visible \/ raced)
    BY <1>3
  <2>7. LatestWins'
    BY <1>3, <2>1, <2>2, <2>3, <2>6
  <2> QED
    BY <2>4, <2>5, <2>7
<1>4. CASE FadeIn \/ FadeOut
  BY <1>3, <1>4 DEF FadeIn, FadeOut, window
<1>5. CASE Frame
  <2>1. /\ main = "loop" /\ UNCHANGED <<fader, latest, raced, button, visible>>
        /\ \/ main' = "hide" /\ asked' = "hide" /\ recent' = TRUE
           \/ UNCHANGED <<main, solid, asked, recent>>
    BY <1>5 DEF Frame, StartHide, fades, window
  <2> QED
    BY <2>1
<1>6. CASE ShowRequest
  <2>1. /\ UNCHANGED <<fader, latest, raced, recent, button>>
        /\ main' = "show" /\ asked' = "show" /\ visible' = TRUE
    BY <1>6 DEF ShowRequest, StartShow, fades
  <2> QED
    BY <2>1
<1>7. CASE TrayUp
  <2>1. /\ UNCHANGED <<fader, latest, raced, recent>> /\ button' = "up"
        /\ \/ main' = "show" /\ asked' = "show" /\ visible' = TRUE
           \/ main' = "hide" /\ asked' = "hide"
           \/ UNCHANGED <<main, visible, solid, asked>>
    BY <1>7 DEF TrayUp, TrayUpIf, StartShow, StartHide, fades, window
  <2> QED
    BY <2>1
<1>8. CASE TaskbarCreated \/ Receive
  BY <1>8 DEF TaskbarCreated, Receive, ReceiveAnd, fades, window
<1>9. CASE Quit
  BY <1>9 DEF Quit, fades, window
<1>10. CASE FocusChange \/ Elapse \/ ShellRestart
  BY <1>10 DEF FocusChange, Elapse, ShellRestart, fades, window
<1>11. CASE TrayDown
  BY <1>11 DEF TrayDown, fades
<1>12. CASE UNCHANGED vars
  BY <1>12 DEF vars, fades, window
<1> QED
  BY <1>1, <1>2, <1>4, <1>5, <1>6, <1>7, <1>8, <1>9, <1>10, <1>11, <1>12, PopupSteps

LEMMA PopupInvariance == Spec => []PopupInv
<1>1. PopupInv /\ [Next]_vars => PopupInv'
  BY PopupTypesStep, IconStep, FadeStep DEF PopupInv
<1> QED
  BY <1>1, InitPopup, PTL DEF Spec

-----------------------------------------------------------------------------
(* The theorems.                                                           *)

\* Type correctness.
THEOREM PopupTypes == Spec => []TypeOK
BY PopupInvariance, PTL DEF PopupInv

\* The icon shows the state of the connection unless a frame is due.
THEOREM IconFollows == Spec => []TrayInSync
<1>1. PopupInv => TrayInSync
  BY DEF PopupInv, IconInv, TrayInSync
<1> QED
  BY <1>1, PopupInvariance, PTL

\* When the fades are over the window is as the latest show or hide wanted it.
THEOREM FadesSettle == Spec => []Settled
<1>1. PopupInv => Settled
  BY DEF PopupInv, TypeOK, FadeInv, LatestWins, Settled
<1> QED
  BY <1>1, PopupInvariance, PTL

\* A short click on the icon closes the popup, as LatestWins says that the popup of
\* a "show" is visible and OpenOrRecent that last_hide tells of any other.
THEOREM ClickCloses == Spec => TrayClickCloses
<1>1. PopupInv /\ [Next]_vars
        => [button = "open" /\ button' = "up" /\ ~raced => asked' = "hide"]_vars
  <2> SUFFICES ASSUME PopupInv, [Next]_vars, button = "open", button' = "up", ~raced
               PROVE  asked' = "hide"
    OBVIOUS
  <2>1. CASE TrayUp
    <3>1. main = "loop" /\ (visible => asked' = "hide") /\ (recent /\ ~visible => asked' = asked)
      BY <2>1 DEF TrayUp, TrayUpIf, StartHide
    <3>2. asked = "show" => visible
      BY <3>1 DEF PopupInv, FadeInv, LatestWins
    <3>3. asked = "show" \/ recent
      BY DEF PopupInv, FadeInv, OpenOrRecent
    <3> QED
      BY <3>1, <3>2, <3>3 DEF PopupInv, TypeOK
  <2>2. ~TrayUp => button' \in {button, "down"} \/ TrayDown
    BY PopupSteps DEF Check, Paint, PaintLast, CheckLast, HideWindow, FadeFrame, New,
      FadeIn, FadeOut, Frame, ShowRequest, TaskbarCreated, Quit, Receive, ReceiveAnd,
      FocusChange, Elapse, ShellRestart, vars
  <2> QED
    BY <2>1, <2>2 DEF TrayDown
<1> QED
  BY <1>1, PopupInvariance, PTL DEF Spec, TrayClickCloses

-----------------------------------------------------------------------------
(* What LeftAlone rests on.                                                *)

\* Whatever has given the popup the focus or taken it away since the last frame, a
\* frame has been asked for that will compare the two, or show is about to ask for
\* one: a popup that the user has left cannot stay because nobody looks.  (logic is
\* the only place that hides it, and the window does not draw by itself.)
LossIsNoticed == Running /\ was # focus => due \/ main = "show"

LEMMA NoticedStep == TypeOK /\ LossIsNoticed /\ [Next]_vars => LossIsNoticed'
<1> SUFFICES ASSUME TypeOK, LossIsNoticed, [Next]_vars PROVE LossIsNoticed'
  OBVIOUS
<1>a. was \in BOOLEAN /\ focus \in BOOLEAN /\ due \in BOOLEAN
  BY DEF TypeOK
<1> USE DEF LossIsNoticed, Running
<1>1. ASSUME NEW t \in Fader, Check(t) \/ Paint(t) \/ PaintLast(t) \/ CheckLast(t)
      PROVE  LossIsNoticed'
  <2>1. UNCHANGED <<main, was, focus, due>>
    BY <1>1 DEF Check, Paint, PaintLast, CheckLast, FadeFrame, window
  <2> QED
    BY <2>1
<1>2. ASSUME NEW t \in Fader, HideWindow(t) PROVE LossIsNoticed'
  <2>1. /\ UNCHANGED <<main, was>> /\ focus' = FALSE
        /\ (due \/ focus => due')
    BY <1>2 DEF HideWindow, FadeFrame
  <2> QED
    BY <2>1, <1>a
<1>3. CASE FadeIn \/ FadeOut
  <2>1. due' = TRUE
    BY <1>3 DEF FadeIn, FadeOut, Fade
  <2> QED
    BY <2>1
<1>4. CASE New
  BY <1>4 DEF New, StartShow
<1>5. CASE Frame
  <2>1. was' = focus /\ focus' = focus
    BY <1>5 DEF Frame, StartHide, window
  <2> QED
    BY <2>1
<1>6. CASE ShowRequest \/ FocusChange
  <2>1. due' = TRUE
    BY <1>6 DEF ShowRequest, FocusChange
  <2> QED
    BY <2>1
<1>7. CASE TrayUp
  <2>1. due' = TRUE \/ (main = "loop" /\ UNCHANGED <<was, focus, due>>)
    BY <1>7 DEF TrayUp, TrayUpIf, StartHide, window
  <2> QED
    BY <2>1
<1>8. CASE TaskbarCreated \/ Elapse \/ ShellRestart
  BY <1>8 DEF TaskbarCreated, Elapse, ShellRestart, window
<1>9. CASE Receive
  <2>1. due' /\ UNCHANGED <<main, was, focus>>
    BY <1>9 DEF Receive, ReceiveAnd, window
  <2> QED
    BY <2>1
<1>10. CASE TrayDown
  <2>1. /\ UNCHANGED <<main, was>> /\ focus' = FALSE
        /\ (due \/ focus => due')
    BY <1>10 DEF TrayDown
  <2> QED
    BY <2>1, <1>a
<1>11. CASE Quit
  BY <1>11 DEF Quit
<1>12. CASE UNCHANGED vars
  BY <1>12 DEF vars, window
<1> QED
  BY <1>1, <1>2, <1>3, <1>4, <1>5, <1>6, <1>7, <1>8, <1>9, <1>10, <1>11, <1>12, PopupSteps

\* The loss of the focus is never missed, whichever thread or message caused it.
THEOREM LossIsNoticedHolds == Spec => []LossIsNoticed
<1>1. Init => LossIsNoticed
  BY DEF Init, LossIsNoticed, Running
<1> QED
  BY <1>1, NoticedStep, PopupTypes, PTL DEF Spec
=============================================================================
