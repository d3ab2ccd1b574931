SPECIFICATION Spec
CONSTANTS
  Users = {boss, ann}
  Boss = boss
  MaxPinAttempts = 2
  LockDuration = 2
  MaxEvents = 4
  None = None
  Phones = {p1, p2}
  Waiters = {w}
  MaxAttempts = 2
  Window = 2
  SessionTtl = 2
  MaxTicks = 2
  MaxWrong = 4
  MaxRestarts = 1
  Nothing = Nothing
  Staff = {h, o}
  Holder = h
  Callers = {engine, panel}
  MaxTokens = 3
  MaxChanges = 2
  MaxLost = 1
  Nobody = Nobody
  Requests = {r1, r2}
  MaxLogins = 2
  WindowTicks = 2
  LastInstant = 4
  MaxGuesses = 13
  Absent = Absent
SYMMETRY Symmetric
INVARIANTS TillSound OwnersRemain WaitersSound GuessesBounded SessionsFollow
CHECK_DEADLOCK FALSE
