CONSTANTS
  MaxAttempt = 3
  Deliverer = {d1, d2}
SPECIFICATION FairSpec
INVARIANTS
  TypeOK
  CallbackIsCurrent
  NothingLeft
PROPERTIES
  LoginEnds
