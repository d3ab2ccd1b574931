SPECIFICATION Spec
CONSTANTS
  Panels = {panel}
  History = history
  Sales = {s1, s2, s3}
  Products = {p1, p2}
  Carts = {{p1, p2}}
  Methods = {"cash", "credit"}
  Tracked = {p1}
  Strict = {p1}
  Opening = 2
  Sessions = {k1}
  Limit = 2
  None = None
  MaxForeign = 2
  MaxSettled = 1
  MaxBusy = 2
  MaxBegun = 4
  MaxFaults = 1
SYMMETRY Symmetry
INVARIANTS NumbersGapless CreditIsOwed IntegrityReports ExpectedIsDrawer TillHolds
CHECK_DEADLOCK FALSE
