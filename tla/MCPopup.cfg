CONSTANTS
  Fader = {f1, f2}
  NoFader = NoFader
SPECIFICATION FairSpec
INVARIANTS
  TrayInSync
  Settled
PROPERTIES
  TrayClickCloses
  LeftAlone
CHECK_DEADLOCK FALSE
