SPECIFICATION ShopSpec
CONSTANTS
  Products = {"nail", "fish"}
  Tariff <- TheTariff
  QtyScale = 2
  BpScale = 10
  TaxIncluded = FALSE
  NoOne = NoOne
  Promotions <- ThePromotions
  Managed = {"fresh"}
  Customers = {"pro"}
  Wholesale = {"pro"}
  Codes <- TheCodes
  WeightStep = 1
  Weighed = {"fish"}
  TypedQty = {4}
  Typed = {3}
  Discounts = {4}
  Methods = {"cash", "credit"}
  MaxLines = 2
  MaxQty = 4
  MaxEdits = 3
  MaxLookups = 1
  MaxAside = 1
  MaxHeld = 1
  MaxParts = 1
  MaxRecordings = 1
  MaxOutside = 1
  Pieces = {5}
  MostPieces = 1
  Floats = {4}
  Baskets <- TheBaskets
  Debtors = {"pro"}
  Sums = {1, 2}
  DayLength = 2
  Offset = 1
  LastInstant = 2
  MaxBooked = 3
  Screens = {first, second}
  Phones = {phone}
  Tables = {t1, t2}
  Orders = {o1, o2}
  Lines = {l1, l2}
  Sales = {s1, s2}
  None = None
  MaxClock = 5
  MaxFaults = 1
SYMMETRY Symmetry
INVARIANTS OneOpenPerTable SentIsPrinted SoldIsBilled TotalsAddUp CounterSettles BooksAgree
PROPERTIES PricesRight
CHECK_DEADLOCK FALSE
