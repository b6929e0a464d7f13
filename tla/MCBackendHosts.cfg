CONSTANTS
  h1 = h1
  s1 = s1
  Host = {h1, h2}
  NoHost = NoHost
  Session = {s1, s2}
  NoSession = NoSession
  HostOf <- MCHostOf
  Run = {r1}
  Loop = Loop
  Nobody = Nobody
  EventCap = 1
SPECIFICATION Spec
PROPERTIES
  ImplementsVpn
