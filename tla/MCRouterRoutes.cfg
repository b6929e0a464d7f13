CONSTANTS
  tidy = tidy
  messy = messy
  inTidy = inTidy
  inMessy = inMessy
  Plain = {bare}
  Dotted = {inTidy, inMessy, public}
  Suffix = {tidy, messy}
  Tidy = {tidy}
  Under <- MCUnder
  Addr4 = {a1, a2}
  Addr6 = {b1}
  Answer <- MCAnswer
SPECIFICATION Spec
INVARIANTS
  RoutedIsTunnelled
