CONSTANTS
  UserUrl = {u1, u2}
  Absent = Absent
  Pac = Pac
SPECIFICATION FairSpec
INVARIANTS
  TypeOK
  PacIsServed
  UserSettingKept
  NoListenerLeft
PROPERTIES
  RoutingEnds
  PortIsFreed
