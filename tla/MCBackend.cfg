CONSTANTS
  h1 = h1
  s1 = s1
  Host = {h1}
  NoHost = NoHost
  Session = {s1}
  NoSession = NoSession
  HostOf <- MCHostOf
  Run = {r1, r2}
  Loop = Loop
  Nobody = Nobody
  EventCap = 1
SPECIFICATION Spec
INVARIANTS
  TypeOK
  OneConnection
  LoggedOutStaysOut
  BusyPageIsTrue
  LastLineIsCurrent
  ExitIsClean
