--------------------------- MODULE SysProxyProofs ---------------------------
(***************************************************************************)
(* Proofs about SysProxy for any number of user settings: its invariants   *)
(* follow from one inductive invariant.                                    *)
(***************************************************************************)
EXTENDS SysProxy, Naturals, TLAPS

\* Where serve is while it holds the HTTP listener, and while it may hold the
\* SOCKS listener.
HttpHeld  == {"read", "set", "head", "dial", "up", "restore", "closehttp"}
SocksHeld == HttpHeld \cup {"http", "closesocks"}

\* Where the setting is ours, unless somebody changed it.
Routed == {"head", "dial", "up", "restore"}

Ports ==
  /\ http \in {"bound", "serving"} <=> at \in HttpHeld
  /\ socks => at \in SocksHeld

\* Our own setting is only there while it is served, or while nobody had an
\* opportunity to remove it.
PacInPlace ==
  url = Pac /\ ~denied => at \in Routed \cup {"dead", "boot", "clear"}

\* What the user chose is either in force or in serve's local variable, unless serve
\* could not read it: then there is nothing, or will be.
ChoiceKept ==
  intact =>
    /\ at \in Routed \cup {"clear"} => url = Pac
    /\ at = "clear" => wanted = Absent
    /\ at \in Routed \cup {"set"} => Kept(old)
    /\ at = "set" /\ url # Pac => old = url \/ (unread /\ old = Absent)
    /\ at \notin Routed \cup {"clear"}
         => Kept(url) \/ (url = Pac /\ wanted = Absent)

IInv == TypeOK /\ Ports /\ PacInPlace /\ ChoiceKept

-----------------------------------------------------------------------------

LEMMA InitInv == Init => IInv
BY UrlAssumption DEF Init, IInv, TypeOK, Value, Exposed, Ports, HttpHeld, SocksHeld,
   PacInPlace, Routed, ChoiceKept, Kept

\* One step per group of actions: those of the process that touch neither the
\* setting nor the history, those that do, and those of the environment.
LEMMA StepInv == IInv /\ [Next]_vars => IInv'
<1> SUFFICES ASSUME IInv, [Next]_vars PROVE IInv'
  OBVIOUS
<1>s. ASSUME UNCHANGED <<url, old, wanted, intact, denied, unread>>,
             \/ at' = at
             \/ /\ at # "clear" /\ at' \notin {"clear", "set"}
                /\ at \in Routed <=> at' \in Routed
                /\ at \in {"dead", "boot"} => at' \in {"dead", "boot"}
      PROVE  PacInPlace' /\ ChoiceKept'
  <2>1. PacInPlace'
    BY <1>s DEF IInv, PacInPlace
  <2>2. ChoiceKept'
    BY <1>s DEF IInv, ChoiceKept, Kept
  <2> QED
    BY <2>1, <2>2
<1> USE UrlAssumption DEF IInv, TypeOK, Value, Exposed, Ports, HttpHeld, SocksHeld,
        PacInPlace, Routed, ChoiceKept, Kept, Go, ports, history
<1>1. CASE Launch
  <2>1. TypeOK' /\ Ports'
    <3>1. TypeOK'
      BY <1>1, ZenonT(60) DEF Launch
    <3>2. Ports'
      BY <1>1 DEF Launch
    <3> QED
      BY <3>1, <3>2
  <2> QED
    BY <1>1, <1>s, <2>1 DEF Launch
<1>2. CASE ReadStale
  <2>1. CASE Go("boot", IF url = Pac THEN "clear" ELSE "idle") /\ UNCHANGED denied
    <3>1. at = "boot" /\ at' \in {"clear", "idle"} /\ (at' = "clear" <=> url = Pac)
      BY <2>1
    <3>2. TypeOK' /\ Ports'
      BY <1>2, <2>1, <3>1 DEF ReadStale
    <3>3. PacInPlace' /\ ChoiceKept'
      BY <1>2, <2>1, <3>1 DEF ReadStale
    <3> QED
      BY <3>2, <3>3
  <2>2. CASE Go("boot", "idle") /\ denied' = (url = Pac)
    <3>1. TypeOK' /\ Ports'
      BY <1>2, <2>2 DEF ReadStale
    <3>2. PacInPlace' /\ ChoiceKept'
      BY <1>2, <2>2 DEF ReadStale
    <3> QED
      BY <3>1, <3>2
  <2> QED
    BY <1>2, <2>1, <2>2 DEF ReadStale
<1>3. CASE ClearStale
  <2>1. CASE url' = Absent /\ UNCHANGED denied
    <3>1. TypeOK' /\ Ports'
      BY <1>3, <2>1 DEF ClearStale
    <3>2. PacInPlace' /\ ChoiceKept'
      BY <1>3, <2>1 DEF ClearStale
    <3> QED
      BY <3>1, <3>2
  <2>2. CASE UNCHANGED url /\ denied' = TRUE
    <3>1. TypeOK' /\ Ports'
      BY <1>3, <2>2 DEF ClearStale
    <3>2. PacInPlace' /\ ChoiceKept'
      BY <1>3, <2>2 DEF ClearStale
    <3> QED
      BY <3>1, <3>2
  <2> QED
    BY <1>3, <2>1, <2>2 DEF ClearStale
<1>4. CASE Connect
  <2>1. TypeOK' /\ Ports'
    <3>1. TypeOK'
      BY <1>4, ZenonT(60) DEF Connect
    <3>2. Ports'
      BY <1>4 DEF Connect
    <3> QED
      BY <3>1, <3>2
  <2> QED
    BY <1>4, <1>s, <2>1 DEF Connect
<1>5. CASE ListenSocks
  <2>1. TypeOK' /\ Ports'
    <3>1. CASE Go("socks", "http") /\ socks' = TRUE
      BY <1>5, <3>1 DEF ListenSocks
    <3>2. CASE Go("socks", "idle") /\ UNCHANGED socks
      BY <1>5, <3>2 DEF ListenSocks
    <3> QED
      BY <1>5, <3>1, <3>2 DEF ListenSocks
  <2> QED
    BY <1>5, <1>s, <2>1 DEF ListenSocks
<1>6. CASE ListenHttp
  <2>1. TypeOK' /\ Ports'
    BY <1>6 DEF ListenHttp
  <2> QED
    BY <1>6, <1>s, <2>1 DEF ListenHttp
<1>7. CASE ReadOld
  <2>1. CASE OpenFails
    <3>1. TypeOK' /\ Ports'
      BY <2>1 DEF OpenFails
    <3> QED
      BY <2>1, <1>s, <3>1 DEF OpenFails
  <2>2. ASSUME NEW o \in Value, NEW failed \in BOOLEAN, Remember(o, failed),
               o = (IF url = Pac \/ failed THEN Absent ELSE url)
        PROVE  IInv'
    <3>1. unread' \in BOOLEAN
      BY <2>2, ZenonT(60) DEF Remember
    <3>2. TypeOK' /\ Ports' /\ PacInPlace'
      BY <2>2, <3>1 DEF Remember
    <3>3. ChoiceKept'
      BY <2>2 DEF Remember
    <3> QED
      BY <3>2, <3>3
  <2>3. \/ OpenFails
        \/ Remember(IF url = Pac THEN Absent ELSE url, FALSE)
        \/ Remember(Absent, TRUE)
    BY <1>7 DEF ReadOld
  <2> QED
    BY <2>1, <2>2, <2>3
<1>8. CASE SetPac
  <2>1. CASE Go("set", "head") /\ url' = Pac
    <3>1. TypeOK' /\ Ports' /\ PacInPlace'
      BY <1>8, <2>1 DEF SetPac
    <3>2. ChoiceKept'
      BY <1>8, <2>1 DEF SetPac
    <3> QED
      BY <3>1, <3>2
  <2>2. CASE Go("set", "closehttp") /\ UNCHANGED url
    BY <1>8, <2>2 DEF SetPac
  <2> QED
    BY <1>8, <2>1, <2>2 DEF SetPac
<1>9. CASE TunnelHead \/ Dial \/ TunnelDown
  <2>1. /\ UNCHANGED <<url, old, stop, quitting, ports, history>>
        /\ at \in {"head", "dial", "up"} /\ at' \in {"head", "dial", "up", "restore"}
    BY <1>9 DEF TunnelHead, Dial, TunnelDown, Tunnel
  <2>2. TypeOK' /\ Ports'
    BY <2>1
  <2>3. PacInPlace' /\ ChoiceKept'
    BY <1>s, <2>1
  <2> QED
    BY <2>2, <2>3
<1>10. CASE Restore
  <2>1. CASE url' = old /\ denied' = FALSE /\ UNCHANGED intact
    <3>1. TypeOK' /\ Ports'
      <4>1. TypeOK'
        BY <1>10, <2>1, ZenonT(60) DEF Restore, RestoreTo
      <4>2. Ports'
        BY <1>10, <2>1 DEF Restore, RestoreTo
      <4> QED
        BY <4>1, <4>2
    <3>2. PacInPlace' /\ ChoiceKept'
      BY <1>10, <2>1 DEF Restore, RestoreTo
    <3> QED
      BY <3>1, <3>2
  <2>2. CASE UNCHANGED url /\ denied' = TRUE /\ intact' = FALSE
    BY <1>10, <2>2, ZenonT(60) DEF Restore, RestoreTo
  <2> QED
    BY <1>10, <2>1, <2>2 DEF Restore, RestoreTo
<1>11. CASE CloseHttp
  <2>1. http' \in {"closing", "free"} /\ http' \notin {"bound", "serving"}
    BY <1>11 DEF CloseHttp
  <2>2. TypeOK' /\ Ports'
    BY <1>11, <2>1 DEF CloseHttp
  <2> QED
    BY <1>11, <1>s, <2>2 DEF CloseHttp
<1>12. CASE CloseSocks
  <2>1. socks' = FALSE /\ at' = "idle" /\ http \notin {"bound", "serving"}
    BY <1>12 DEF CloseSocks
  <2>2. TypeOK' /\ Ports'
    <3>1. TypeOK'
      BY <1>12, <2>1, ZenonT(60) DEF CloseSocks
    <3>2. Ports'
      BY <1>12, <2>1 DEF CloseSocks
    <3> QED
      BY <3>1, <3>2
  <2> QED
    BY <1>12, <1>s, <2>2 DEF CloseSocks
<1>13. CASE ServeHttp
  <2>1. TypeOK' /\ Ports'
    BY <1>13 DEF ServeHttp
  <2> QED
    BY <1>13, <1>s, <2>1 DEF ServeHttp
<1>14. CASE Disconnect \/ Quit
  <2>1. TypeOK' /\ Ports'
    <3>1. CASE Disconnect
      BY <3>1 DEF Disconnect
    <3>2. CASE Quit
      BY <3>2 DEF Quit
    <3> QED
      BY <1>14, <3>1, <3>2
  <2> QED
    BY <1>14, <1>s, <2>1 DEF Disconnect, Quit
<1>15. CASE Exit \/ ExitAtDeadline \/ Kill \/ CloseWindow
  <2>1. PICK how \in {"quit", "killed", "closed"} : Dies(how)
    BY <1>15 DEF Exit, ExitAtDeadline, Kill, CloseWindow
  <2>2. intact' <=> intact /\ (url = Pac => wanted = Absent)
    BY <2>1 DEF Dies
  <2>3. TypeOK'
    <3>1. intact' \in BOOLEAN
      BY <2>2
    <3> QED
      BY <2>1, <3>1 DEF Dies
  <2>4. Ports' /\ PacInPlace'
    BY <2>1 DEF Dies
  <2>5. ChoiceKept'
    BY <2>1, <2>2 DEF Dies
  <2> QED
    BY <2>3, <2>4, <2>5
<1>16. CASE UserSets
  <2>1. PICK v \in Value : url' = v /\ wanted' = v
    BY <1>16 DEF UserSets
  <2>2. intact' <=> at \notin Exposed
    BY <1>16 DEF UserSets
  <2>3. TypeOK'
    BY <1>16, <2>1, ZenonT(60) DEF UserSets
  <2>4. Ports' /\ PacInPlace'
    BY <1>16, <2>1 DEF UserSets
  <2>5. ChoiceKept'
    BY <1>16, <2>1, <2>2 DEF UserSets
  <2> QED
    BY <2>3, <2>4, <2>5
<1>17. CASE UNCHANGED vars
  BY <1>17 DEF vars
<1> QED
  BY <1>1, <1>2, <1>3, <1>4, <1>5, <1>6, <1>7, <1>8, <1>9, <1>10, <1>11, <1>12,
     <1>13, <1>14, <1>15, <1>16, <1>17 DEF Next, Serving

\* The inductive invariant holds: whatever the user, the registry and the
\* network do, and however often the process is killed.
THEOREM ProxyInvariance == Spec => []IInv
BY InitInv, StepInv, PTL DEF Spec

-----------------------------------------------------------------------------

\* The variables keep their types; in particular restore never writes our own
\* script back.
THEOREM ProxyTypeCorrect == Spec => []TypeOK
BY ProxyInvariance, PTL DEF IInv

\* A running Sidegate serves the script the system is pointed at.
THEOREM PacIsServedHolds == Spec => []PacIsServed
<1>1. IInv => PacIsServed
  BY DEF IInv, Ports, HttpHeld, PacInPlace, Routed, PacIsServed
<1> QED
  BY <1>1, ProxyInvariance, PTL

\* The user's own setting comes back after every connection, or, if it could not be
\* read, is deleted: no other value ever takes its place.
THEOREM UserSettingKeptHolds == Spec => []UserSettingKept
<1>1. IInv => UserSettingKept
  BY DEF IInv, TypeOK, Exposed, PacInPlace, ChoiceKept, Kept, Routed, UserSettingKept
<1> QED
  BY <1>1, ProxyInvariance, PTL

\* No connection leaves a listener behind.
THEOREM NoListenerLeftHolds == Spec => []NoListenerLeft
<1>1. IInv => NoListenerLeft
  BY DEF IInv, TypeOK, Ports, HttpHeld, SocksHeld, NoListenerLeft
<1> QED
  BY <1>1, ProxyInvariance, PTL

-----------------------------------------------------------------------------
(* What a step may do to the setting.                                      *)

\* A step that writes over the user's own value, which restore remembers unless it
\* could not be read, with our script, which is served; and one that writes over our
\* script with the user's value, or deletes it if that is not known.
Borrows ==
  /\ Kept(url) /\ (old = url \/ (unread /\ old = Absent))
  /\ url' = Pac /\ http \in {"bound", "serving"}
Returns == url = Pac /\ Kept(url')

\* Unless the user has just changed it too, serve and clearStaleProxy write nothing
\* else to the setting.
OwnValuesOnly == [][Serving /\ url' # url /\ intact => Borrows \/ Returns]_vars

\* A process that ends because the core has said "exited" leaves the setting as
\* the user chose it, or none if it could not read that; QuitRestores fails at the
\* deadline of the GUI only.
AnnouncedExitRestores ==
  [][Exit /\ ~denied => url' # Pac /\ (intact => Kept(url'))]_vars

\* Of all the steps of serve three write the setting.
LEMMA Writers ==
  ASSUME Serving, url' # url
  PROVE  \/ at = "clear" /\ url' = Absent
         \/ at = "set" /\ url' = Pac
         \/ at = "restore" /\ url' = old
BY DEF Serving, ReadStale, ClearStale, ListenSocks, ListenHttp, ReadOld, OpenFails,
   Remember, SetPac, TunnelHead, Dial, TunnelDown, Tunnel, Restore, RestoreTo, CloseHttp,
   CloseSocks, Go, ports, history

\* Neither the user's choice nor our script is overwritten for another value.
THEOREM OwnValuesOnlyHolds == Spec => OwnValuesOnly
<1>1. ASSUME IInv, Serving, url' # url, intact
      PROVE  Borrows \/ Returns
  <2> USE <1>1 DEF IInv, ChoiceKept, Kept, Routed, Borrows, Returns
  <2>1. CASE at = "clear" /\ url' = Absent
    BY <2>1
  <2>2. CASE at = "set" /\ url' = Pac
    BY <2>2 DEF Ports, HttpHeld
  <2>3. CASE at = "restore" /\ url' = old
    BY <2>3
  <2> QED
    BY <2>1, <2>2, <2>3, Writers
<1>2. IInv /\ [Next]_vars
        => [Serving /\ url' # url /\ intact => Borrows \/ Returns]_vars
  BY <1>1
<1> QED
  BY <1>2, ProxyInvariance, PTL DEF Spec, OwnValuesOnly

\* The exit that the core has announced gives the system its proxy back.
THEOREM AnnouncedExitRestoresHolds == Spec => AnnouncedExitRestores
<1>1. ASSUME IInv, Exit, ~denied PROVE url' # Pac /\ (intact => Kept(url'))
  <2>1. at = "idle" /\ url' = url
    BY <1>1 DEF Exit, Dies
  <2> QED
    BY <1>1, <2>1 DEF IInv, PacInPlace, ChoiceKept, Kept, Routed
<1>2. IInv /\ [Next]_vars
        => [Exit /\ ~denied => url' # Pac /\ (intact => Kept(url'))]_vars
  BY <1>1
<1> QED
  BY <1>2, ProxyInvariance, PTL DEF Spec, AnnouncedExitRestores

-----------------------------------------------------------------------------
(* What the end of a cancelled serve rests on.                             *)

\* How many steps serve, or the start of the process, still takes to "idle" at
\* most, once the context is cancelled.
StepsLeft(l) ==
  CASE l = "socks" -> 10 [] l = "http" -> 9 [] l = "read" -> 8 [] l = "set" -> 7
    [] l = "dial" -> 6 [] l = "up" -> 5 [] l = "head" -> 4 [] l = "restore" -> 3
    [] l = "closehttp" -> 2 [] l = "closesocks" -> 1
    [] l = "boot" -> 2 [] l = "clear" -> 1
    [] l \in {"idle", "dead"} -> 0

\* A cancelled serve goes through restore and the closing of its listeners without a
\* detour, and a process that is asked to quit starts nothing any more: but for a
\* connection that is started anew, which has another context, and a new process.
WindsUp ==
  [][stop /\ at' \notin {at, "dead"}
       => \/ StepsLeft(at') < StepsLeft(at)
          \/ at = "idle" /\ ~quitting /\ ~stop'
          \/ at = "dead"]_vars

\* Every step of a cancelled serve brings it nearer to its end, for RoutingEnds.
THEOREM WindsUpHolds == Spec => WindsUp
<1>1. ASSUME [Next]_vars, stop, at' \notin {at, "dead"}
      PROVE  \/ StepsLeft(at') < StepsLeft(at)
             \/ at = "idle" /\ ~quitting /\ ~stop'
             \/ at = "dead"
  <2>1. CASE Serving
    <3>1. \/ at = "boot" /\ at' \in {"clear", "idle"}
          \/ at = "clear" /\ at' = "idle"
          \/ at = "socks" /\ at' \in {"http", "idle"}
          \/ at = "http" /\ at' \in {"read", "closesocks"}
          \/ at = "read" /\ at' \in {"set", "closehttp"}
          \/ at = "set" /\ at' \in {"head", "closehttp"}
          \/ at = "head" /\ at' = "restore"
          \/ at = "dial" /\ at' \in {"up", "restore", "head"}
          \/ at = "up" /\ at' = "head"
          \/ at = "restore" /\ at' = "closehttp"
          \/ at = "closehttp" /\ at' = "closesocks"
          \/ at = "closesocks" /\ at' = "idle"
      BY <1>1, <2>1 DEF Serving, ReadStale, ClearStale, ListenSocks, ListenHttp, ReadOld,
         OpenFails, Remember, SetPac, TunnelHead, Dial, TunnelDown, Tunnel, Restore, RestoreTo,
         CloseHttp, CloseSocks, Go
    <3> QED
      BY <3>1 DEF StepsLeft
  <2>2. CASE Launch \/ Connect
    BY <2>2 DEF Launch, Connect, Go
  <2> QED
    BY <1>1, <2>1, <2>2 DEF Next, vars, ServeHttp, Disconnect, Quit, Exit, ExitAtDeadline,
       Kill, CloseWindow, Dies, UserSets
<1>2. [Next]_vars
        => [stop /\ at' \notin {at, "dead"}
              => \/ StepsLeft(at') < StepsLeft(at)
                 \/ at = "idle" /\ ~quitting /\ ~stop'
                 \/ at = "dead"]_vars
  BY <1>1
<1> QED
  BY <1>2, PTL DEF Spec, WindsUp

-----------------------------------------------------------------------------
(* SysProxy implements RunTunnel.                                          *)

Phase ==
  CASE at \in {"head", "up"} -> at
    [] at = "dial" -> "open"
    [] at = "restore" -> "back"
    [] OTHER -> "out"

Life == INSTANCE RunTunnel WITH at <- Phase, off <- stop

\* Only runTunnel's own steps, the way into it and out of it, a disconnect and the
\* end or the start of something show.
LEMMA LifeStep == [Next]_vars => [Life!Next]_(Life!vars)
<1> SUFFICES ASSUME [Next]_vars PROVE [Life!Next]_(Life!vars)
  OBVIOUS
<1> USE DEF Phase, Go, Life!Next, Life!vars, Life!Go
<1>1. CASE SetPac
  BY <1>1 DEF SetPac, Life!Enter
<1>2. CASE TunnelHead
  BY <1>2 DEF TunnelHead, Tunnel, Life!Look
<1>3. CASE Dial \/ TunnelDown
  BY <1>3 DEF Dial, TunnelDown, Tunnel, Life!Open, Life!Down
<1>4. CASE Restore
  BY <1>4 DEF Restore, RestoreTo, Life!Back
<1>5. CASE Launch \/ Connect
  BY <1>5 DEF Launch, Connect, Life!Renew
<1>6. CASE Disconnect \/ Quit
  BY <1>6 DEF Disconnect, Quit, Life!Cancel
<1>7. CASE Exit \/ ExitAtDeadline \/ Kill \/ CloseWindow
  BY <1>7 DEF Exit, ExitAtDeadline, Kill, CloseWindow, Dies, Life!Die
<1>8. CASE ReadStale \/ ClearStale \/ ListenSocks \/ ListenHttp \/ ReadOld
           \/ CloseHttp \/ CloseSocks
  BY <1>8 DEF ReadStale, ClearStale, ListenSocks, ListenHttp, ReadOld, OpenFails,
     Remember, CloseHttp, CloseSocks
<1>9. CASE ServeHttp \/ UserSets \/ UNCHANGED vars
  BY <1>9 DEF ServeHttp, UserSets, vars
<1> QED
  BY <1>1, <1>2, <1>3, <1>4, <1>5, <1>6, <1>7, <1>8, <1>9 DEF Next, Serving

\* The runTunnel that the setting is restored after is that of Tunnel.
THEOREM ProxyImplementsRunTunnel == Spec => Life!Spec
<1>1. Init => Life!Init
  BY DEF Init, Phase, Life!Init
<1> QED
  BY <1>1, LifeStep, PTL DEF Spec, Life!Spec
=============================================================================
