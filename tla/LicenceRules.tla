---------------------------- MODULE LicenceRules ----------------------------
(***************************************************************************)
(* Activation keys, without input or output (licence.ts, emission.ts).     *)
(* A day is an integer; a date is a year, a month and a day of the month.  *)
(***************************************************************************)
EXTENDS Integers

CONSTANTS GraceDays, TrialDays, MaxJumpDays  \* LICENCE_GRACE_DAYS, LICENCE_TRIAL_DAYS,
                                             \* RATCHET_MAX_JUMP_DAYS
NoDay == 0  \* null: days are counted from 1
NoKey == [signed |-> FALSE, ours |-> FALSE, end |-> NoDay]

ASSUME LicenceRulesAssumption == {GraceDays, TrialDays, MaxJumpDays} \subseteq Nat

\* `restants': the last day is included.
DaysLeft(key, now) == key.end + 1 - now

\* verifyLicence, licenceState: the signature, the company, the days
Verify(key, now) ==
  IF ~key.signed THEN "invalide"
  ELSE IF ~key.ours THEN "autre-entreprise"
  ELSE IF DaysLeft(key, now) > 0 THEN "valide"
  ELSE IF GraceDays + DaysLeft(key, now) > 0 THEN "grace"
  ELSE "expiree"

\* trialStatus: nothing after the trial
Trial(installedAt, now) == IF TrialDays - (now - installedAt) > 0 THEN "valide" ELSE "expiree"

\* licenceBlocks
Blocks(state) == state \in {"expiree", "invalide", "absente", "autre-entreprise"}

\* Seeded fault: a clock that leaps is believed.
BelieveLeap(now, ratchet) ==
  IF ratchet = NoDay \/ ratchet <= now THEN now ELSE ratchet

\* judgeClock: the day to judge by, which is also the new ratchet
JudgeClock(now, ratchet) ==
  IF ratchet = NoDay \/ (ratchet <= now /\ now <= ratchet + MaxJumpDays) THEN now ELSE ratchet

\* The tool's side: addMonths, whose day is brought back to the month's last.
LastDay(year, month) ==
  CASE month \in {4, 6, 9, 11} -> 30
    [] month = 2 -> IF year % 4 = 0 /\ (year % 100 # 0 \/ year % 400 = 0) THEN 29 ELSE 28
    [] OTHER -> 31
Dates(years) ==
  UNION {[year : {y}, month : {m}, day : 1..LastDay(y, m)] : y \in years, m \in 1..12}

\* Seeded fault: setMonth, which spills over into the next month.
AddMonthsSpilling(date, months) ==
  LET index == 12 * date.year + date.month - 1 + months
      last  == LastDay(index \div 12, (index % 12) + 1)
  IN  IF date.day <= last
      THEN [year |-> index \div 12, month |-> (index % 12) + 1, day |-> date.day]
      ELSE [year |-> (index + 1) \div 12, month |-> ((index + 1) % 12) + 1, day |-> date.day - last]

AddMonths(date, months) ==
  LET index == 12 * date.year + date.month - 1 + months
      last  == LastDay(index \div 12, (index % 12) + 1)
  IN  [year |-> index \div 12, month |-> (index % 12) + 1,
       day |-> IF date.day <= last THEN date.day ELSE last]

\* Months added to a date land in the month so many months later, on the same day or, when it
\* has none, on its last: no day is given away ("En bornant au dernier jour", addMonths).
LandsInMonth(date, months) ==
  LET end == AddMonths(date, months)
  IN  /\ 12 * end.year + end.month = 12 * date.year + date.month + months
      /\ end.day = date.day \/ (end.day < date.day /\ end.day = LastDay(end.year, end.month))
=============================================================================
