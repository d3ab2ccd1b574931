SPECIFICATION Spec
CONSTANTS
  Panels = {panel}
  History = history
  Sales = {s1, s2}
  Products = {p1, p2}
  Carts = {{p1, p2}}
  Methods = {"cash", "credit"}
  Tracked = {p1}
  Strict = {p1}
  Opening = 2
  Sessions = {k1}
  Limit = 1
  None = None
  MaxForeign = 0
  MaxSettled = 1
  MaxBusy = 2
  MaxBegun = 4
  MaxFaults = 0
SYMMETRY Symmetry
INVARIANTS RefusedWritesNothing
CHECK_DEADLOCK FALSE
