---------------------------- MODULE TillLicence -----------------------------
(***************************************************************************)
(* The activation of a till (licence.service, SessionProvider, App,        *)
(* LicenceScreen): judged without a server, by a clock that may be wrong,  *)
(* each time the lock screen is shown.                                     *)
(***************************************************************************)
EXTENDS LicenceRules

CONSTANTS
  KeysSold,                 \* the keys a trader may paste
  EndOfTime, MaxClockSets   \* bounds

ASSUME TillLicenceAssumption ==
  KeysSold \subseteq [signed : BOOLEAN, ours : BOOLEAN, end : Int]

VARIABLES
  today, clock,  \* the true day, and the till's
  sets,          \* how often the clock was set
  ratchet,       \* META_KEYS.dateRatchet
  key,           \* META_KEYS.licenceKey, or NoKey
  installed,     \* META_KEYS.enrolledAt, a day of the server's, which is right
  screen,        \* off, locked or ready, with the last status it was given
  judged,        \* the day of the last judgement: the one it went by, and the true one
  marred         \* the first judgement was by a wrong clock; the till was once not
                 \* judged for longer than the ratchet may leap

licenceVars == <<today, clock, sets, ratchet, key, installed, screen, judged, marred>>

LicenceInit ==
  /\ today = 1 /\ clock = 1 /\ sets = 0 /\ installed = 1
  /\ ratchet = NoDay /\ key = NoKey /\ judged = [by |-> NoDay, on |-> 1] /\ marred = {}
  /\ screen = [at |-> "off", state |-> "absente"]

\* trustedNow
TrustedNow == JudgeClock(clock, ratchet)
Judge ==
  /\ ratchet' = TrustedNow /\ judged' = [by |-> TrustedNow, on |-> today]
  /\ marred' = marred \cup (IF ratchet = NoDay /\ clock # today THEN {"first"} ELSE {})
                     \cup (IF today > judged.on + MaxJumpDays THEN {"away"} ELSE {})

\* status: a key, even expired, goes before the trial.
Status(from) == IF key # NoKey THEN Verify(key, TrustedNow) ELSE Trial(from, TrustedNow)

\* showLockScreen, when the program starts and when the session is left
ShowLockScreen ==
  /\ screen.at \in {"off", "ready"} /\ Judge
  /\ screen' = [at |-> "locked", state |-> Status(installed)]
  /\ UNCHANGED <<today, clock, sets, key, installed>>

\* recoverPin, where the code is typed: the till is enrolled anew and its trial starts again
\* (ProvisionRepository.save), and the lock screen is shown.
Recover ==
  /\ screen.at = "locked" /\ ~Blocks(screen.state) /\ Judge
  /\ installed' = today /\ screen' = [at |-> "locked", state |-> Status(today)]
  /\ UNCHANGED <<today, clock, sets, key>>

\* Router: the code may be typed on a till that was not closed when it was judged.
SignIn ==
  /\ screen.at = "locked" /\ ~Blocks(screen.state)
  /\ screen' = [screen EXCEPT !.at = "ready"]
  /\ UNCHANGED <<today, clock, sets, ratchet, key, installed, judged, marred>>

\* activate, on the lock screen of a closed till or from the work space: a key refused is
\* not kept, one that has expired is, and takes the place of any other.
Activate(k) ==
  /\ (screen.at = "locked" /\ Blocks(screen.state)) \/ screen.at = "ready"
  /\ Judge
  /\ IF Verify(k, TrustedNow) \in {"invalide", "autre-entreprise"} THEN UNCHANGED <<key, screen>>
     ELSE key' = k /\ screen' = [screen EXCEPT !.state = Verify(k, TrustedNow)]
  /\ UNCHANGED <<today, clock, sets, installed>>

TurnOff ==
  /\ screen.at # "off" /\ screen' = [screen EXCEPT !.at = "off"]
  /\ UNCHANGED <<today, clock, sets, ratchet, key, installed, judged, marred>>

NextDay ==
  /\ today < EndOfTime /\ today' = today + 1 /\ clock' = clock + 1
  /\ UNCHANGED <<sets, ratchet, key, installed, screen, judged, marred>>

\* Set by hand, or lost with the battery
SetClock(day) ==
  /\ sets < MaxClockSets /\ sets' = sets + 1 /\ day # clock /\ clock' = day
  /\ UNCHANGED <<today, ratchet, key, installed, screen, judged, marred>>

LicenceNext ==
  \/ ShowLockScreen \/ Recover \/ SignIn \/ TurnOff \/ NextDay
  \/ \E k \in KeysSold : Activate(k)
  \/ \E day \in 1..EndOfTime : SetClock(day)

LicenceSpec == LicenceInit /\ [][LicenceNext]_licenceVars

----------------------------------------------------------------------------
\* Properties.

\* A till whose clock was never touched is not closed before the end of its key and of the
\* days of grace, however long it stayed shut.
NotClosedEarly ==
  (sets = 0 /\ key # NoKey /\ judged.on <= key.end + GraceDays) => ~Blocks(screen.state)

\* A wrong clock, however wrong, takes the till at most one leap ahead each time it is set, so
\* that a clock set right again serves before long, if the first was right ("BLOQUERAIT
\* DEFINITIVEMENT un commercant parfaitement en regle", judgeClock).
ClockForgiven ==
  ("first" \notin marred /\ ratchet # NoDay) => ratchet <= today + sets * MaxJumpDays

\* With its clock right and judged often enough, a till is judged by the true day.
JudgedByTheDay == (sets = 0 /\ marred = {} /\ ratchet # NoDay) => judged.by = judged.on

\* The till is judged fairly, and setting the clock back prolongs nothing: a key or a trial
\* once found expired never opens the till again, and no recovery is within its reach
\* (judgeClock, "reculer l'horloge prolongerait une licence echue").
LicenceFair ==
  [][ /\ (screen.state = "expiree" /\ key' = key) => screen'.state = "expiree"
      /\ (NotClosedEarly /\ ClockForgiven /\ JudgedByTheDay)' ]_licenceVars
=============================================================================
