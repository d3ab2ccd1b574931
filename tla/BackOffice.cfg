SPECIFICATION Spec
CONSTANTS
  Hands = {a, b}
  Offers <- TheOffers
  Deltas <- TheDeltas
  Counts = {2}
  Costs = {5}
  QtyScale = 2
  MaxLines = 2
  MaxEvents = 3
  GraceDays = 2
  TrialDays = 3
  MaxJumpDays = 3
  KeysSold <- TheKeysSold
  EndOfTime = 9
  MaxClockSets = 2
  Clicks = {c1, c2}
  Keys = {1, 2}
  CommandLine = cli
  MaxCuts = 2
  None = "-"
  Cells <- TheCells
  Sheets <- TheSheets
  Catalogs <- TheCatalogs
  HandPrice = 9
  HandCodes <- TheHandCodes
  HandNames = {"food"}
  MaxProducts = 6
  MaxPasses = 2
  MaxOutside = 1
SYMMETRY Symmetric
INVARIANTS ShelvesAgree ImportIsFaithful SalesLand
PROPERTIES LicenceFair KeysAreKept
CHECK_DEADLOCK FALSE
