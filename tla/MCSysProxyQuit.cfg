CONSTANTS
  UserUrl = {u1}
  Absent = Absent
  Pac = Pac
SPECIFICATION Spec
INVARIANTS
  QuitRestores
