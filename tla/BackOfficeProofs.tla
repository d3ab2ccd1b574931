-------------------------- MODULE BackOfficeProofs --------------------------
(***************************************************************************)
(* Proofs about what runs behind the counter: TillLicence and Keyring, the *)
(* two ends of an activation key, Purchasing, the receipt of a delivery,   *)
(* the dates a key may end on, and CatalogTransfer, the import of a sheet, *)
(* for any keys, offers, costs, operations under way, lines and catalogues.*)
(***************************************************************************)
EXTENDS MCBackOffice, SumTheorems, FiniteSetTheorems, TLAPS

----------------------------------------------------------------------------
(* The till's key.                                                         *)

States == {"valide", "grace", "expiree", "invalide", "absente", "autre-entreprise"}

LicenceTypeOK ==
  /\ today \in Nat \ {0} /\ clock \in Nat \ {0} /\ sets \in Nat /\ ratchet \in Nat
  /\ key \in KeysSold \cup {NoKey} /\ installed \in Nat
  /\ screen \in [at : {"off", "locked", "ready"}, state : States]
  /\ judged \in [by : Nat, on : Nat \ {0}]
  /\ marred \in SUBSET {"first", "away"}

\* The ratchet is the day of the last judgement; with an untouched clock it is not ahead of the
\* true one, and is that one if the till was never away too long.
RatchetInv ==
  /\ judged.by = ratchet /\ judged.on <= today
  /\ sets = 0 => clock = today /\ ratchet <= judged.on
  /\ sets = 0 /\ marred = {} /\ ratchet # NoDay => ratchet = judged.on

\* The ratchet is at most a leap ahead for each time the clock was set; so is the clock, unless
\* it is further from the ratchet than a leap, and not believed.
LeapInv ==
  "first" \notin marred /\ ratchet # NoDay =>
    /\ ratchet <= today + sets * MaxJumpDays
    /\ clock <= today + sets * MaxJumpDays \/ clock > ratchet + MaxJumpDays

\* A key that is kept was accepted, and the screen says it has expired only when the ratchet is
\* past its end; so for the trial.
ScreenInv ==
  /\ key # NoKey => key.signed /\ key.ours /\ screen.state \in {"valide", "grace", "expiree"}
  /\ screen.state = "expiree" =>
       IF key = NoKey THEN TrialDays <= ratchet - installed ELSE key.end + 1 + GraceDays <= ratchet

LicenceInv == LicenceTypeOK /\ RatchetInv /\ LeapInv /\ ScreenInv

----------------------------------------------------------------------------
\* The day a till judges by is the clock's, or the last one it judged by, which is only left
\* for a later one, at most a leap away.
LEMMA TrustedDay ==
  ASSUME LicenceTypeOK
  PROVE  /\ TrustedNow \in Nat \ {0} /\ TrustedNow >= ratchet
         /\ TrustedNow \in {clock, ratchet}
         /\ ratchet = NoDay => TrustedNow = clock
         /\ ratchet # NoDay /\ TrustedNow # ratchet =>
              TrustedNow = clock /\ clock <= ratchet + MaxJumpDays
         /\ ratchet <= clock /\ clock <= ratchet + MaxJumpDays => TrustedNow = clock
  BY LicenceRulesAssumption DEF LicenceTypeOK, TrustedNow, JudgeClock, NoDay

\* What verifyLicence says of a key that is signed and ours, day after day.
LEMMA Verified ==
  ASSUME NEW k \in KeysSold \cup {NoKey}, NEW now \in Nat
  PROVE  /\ Verify(k, now) \in States
         /\ Verify(k, now) \notin {"invalide", "autre-entreprise"} => k.signed /\ k.ours
         /\ k.signed /\ k.ours => Verify(k, now) \in {"valide", "grace", "expiree"}
         /\ k.signed /\ k.ours =>
              (Verify(k, now) = "expiree" <=> k.end + 1 + GraceDays <= now)
<1>1. k.signed \in BOOLEAN /\ k.ours \in BOOLEAN /\ k.end \in Int
  <2>1. CASE k = NoKey
    BY <2>1 DEF NoKey, NoDay
  <2>2. CASE k \in KeysSold
    BY <2>2, TillLicenceAssumption
  <2> QED  BY <2>1, <2>2
<1>2. GraceDays \in Nat
  BY LicenceRulesAssumption
<1> DEFINE left == k.end + 1 - now
<1>3. /\ ~k.signed => Verify(k, now) = "invalide"
      /\ k.signed /\ ~k.ours => Verify(k, now) = "autre-entreprise"
      /\ k.signed /\ k.ours /\ left > 0 => Verify(k, now) = "valide"
      /\ k.signed /\ k.ours /\ ~(left > 0) /\ GraceDays + left > 0 => Verify(k, now) = "grace"
      /\ k.signed /\ k.ours /\ ~(left > 0) /\ ~(GraceDays + left > 0) =>
           Verify(k, now) = "expiree"
  BY <1>1, <1>2 DEF Verify, DaysLeft
<1> QED  BY <1>1, <1>2, <1>3 DEF States

LEMMA Tried ==
  ASSUME NEW now \in Nat, NEW from \in Nat
  PROVE  /\ Trial(from, now) \in {"valide", "expiree"}
         /\ Trial(from, now) = "expiree" <=> TrialDays <= now - from
  BY LicenceRulesAssumption DEF Trial

LEMMA LicenceStarts == LicenceInit => LicenceInv
<1> SUFFICES ASSUME LicenceInit PROVE LicenceInv
  OBVIOUS
<1>1. LicenceTypeOK
  BY DEF LicenceInit, LicenceTypeOK, NoDay, States
<1>2. RatchetInv /\ LeapInv /\ ScreenInv
  BY DEF LicenceInit, RatchetInv, LeapInv, ScreenInv, NoDay
<1> QED  BY <1>1, <1>2 DEF LicenceInv

\* A judgement keeps what is said of the ratchet, whoever asks for it.
LEMMA JudgeKeeps ==
  ASSUME LicenceInv, Judge, UNCHANGED <<today, clock, sets>>
  PROVE  /\ ratchet' \in Nat \ {0} /\ ratchet' >= ratchet /\ ratchet' = TrustedNow
         /\ judged' \in [by : Nat, on : Nat \ {0}]
         /\ marred' \in SUBSET {"first", "away"}
         /\ RatchetInv' /\ LeapInv'
<1> USE DEF LicenceInv
<1>1. /\ ratchet' = TrustedNow /\ judged' = [by |-> TrustedNow, on |-> today]
      /\ marred \subseteq marred'
      /\ ratchet = NoDay /\ clock # today => "first" \in marred'
      /\ today > judged.on + MaxJumpDays => "away" \in marred'
      /\ marred' \in SUBSET {"first", "away"}
  BY DEF Judge, LicenceTypeOK
<1>2. /\ today \in Nat \ {0} /\ clock \in Nat \ {0} /\ ratchet \in Nat /\ judged.on \in Nat
      /\ MaxJumpDays \in Nat
  BY LicenceRulesAssumption DEF LicenceTypeOK
<1>3. judged'.by = TrustedNow /\ judged'.on = today
  BY <1>1
<1>4. RatchetInv'
  <2>1. judged'.by = ratchet' /\ judged'.on <= today'
    BY <1>1, <1>2, <1>3
  <2>2. ASSUME sets = 0 PROVE clock' = today' /\ ratchet' <= judged'.on
    BY <2>2, <1>1, <1>2, <1>3, TrustedDay DEF RatchetInv
  <2>3. ASSUME sets = 0, marred' = {} PROVE ratchet' = judged'.on
    BY <2>3, <1>1, <1>2, <1>3, TrustedDay DEF RatchetInv
  <2> QED  BY <2>1, <2>2, <2>3 DEF RatchetInv
<1>5. LeapInv'
  <2> DEFINE most == today + sets * MaxJumpDays
  <2>1. SUFFICES ASSUME "first" \notin marred'
                 PROVE  ratchet' <= most /\ (clock <= most \/ clock > ratchet' + MaxJumpDays)
    BY DEF LeapInv
  <2>2. sets * MaxJumpDays \in Nat
    BY <1>2, LicenceRulesAssumption DEF LicenceTypeOK
  <2>3. CASE ratchet = NoDay
    BY <2>1, <2>2, <2>3, <1>1, <1>2, TrustedDay
  <2>4. CASE ratchet # NoDay /\ TrustedNow = ratchet
    BY <2>1, <2>4, <1>1 DEF LeapInv
  <2>5. CASE ratchet # NoDay /\ TrustedNow # ratchet
    BY <2>1, <2>2, <2>5, <1>1, <1>2, TrustedDay DEF LeapInv
  <2> QED  BY <2>3, <2>4, <2>5
<1>6. judged' \in [by : Nat, on : Nat \ {0}]
  BY <1>1, <1>2, TrustedDay
<1>7. ratchet' \in Nat \ {0} /\ ratchet' >= ratchet
  BY <1>1, TrustedDay
<1> QED  BY <1>1, <1>4, <1>5, <1>6, <1>7

\* Setting the clock takes the bound of the ratchet one leap further.
LEMMA SetClockKeeps ==
  ASSUME LicenceInv, NEW day \in 1..EndOfTime, SetClock(day)
  PROVE  LicenceInv'
<1> USE DEF LicenceInv
<1>1. /\ sets' = sets + 1 /\ clock' = day
      /\ UNCHANGED <<today, ratchet, key, installed, screen, judged, marred>>
  BY DEF SetClock
<1>2. day \in Nat \ {0} /\ sets' \in Nat /\ sets' # 0
  BY <1>1 DEF LicenceTypeOK
<1>3. LicenceTypeOK' /\ RatchetInv' /\ ScreenInv'
  BY <1>1, <1>2 DEF LicenceTypeOK, RatchetInv, ScreenInv
<1>4. LeapInv'
  <2>1. /\ sets * MaxJumpDays \in Nat /\ MaxJumpDays \in Nat
        /\ sets' * MaxJumpDays = sets * MaxJumpDays + MaxJumpDays
    BY <1>1, LicenceRulesAssumption DEF LicenceTypeOK
  <2> QED  BY <2>1, <1>1, <1>2 DEF LeapInv, LicenceTypeOK
<1> QED  BY <1>3, <1>4

LEMMA LicenceStep == LicenceInv /\ [LicenceNext]_licenceVars => LicenceInv'
<1> SUFFICES ASSUME LicenceInv, [LicenceNext]_licenceVars PROVE LicenceInv'
  OBVIOUS
<1> USE DEF LicenceInv
<1>1. CASE UNCHANGED licenceVars
  BY <1>1 DEF licenceVars, LicenceTypeOK, RatchetInv, LeapInv, ScreenInv
<1>2. CASE ShowLockScreen
  <2>1. /\ Judge /\ UNCHANGED <<today, clock, sets, key, installed>>
        /\ screen' = [at |-> "locked", state |-> Status(installed)]
    BY <1>2 DEF ShowLockScreen
  <2>2. ratchet' \in Nat \ {0} /\ ratchet' = TrustedNow /\ RatchetInv' /\ LeapInv'
    BY <2>1, JudgeKeeps
  <2>3. key \in KeysSold \cup {NoKey} /\ installed \in Nat
    BY DEF LicenceTypeOK
  <2>4. Status(installed) \in States /\ ScreenInv'
    BY <2>1, <2>2, <2>3, Verified, Tried DEF Status, ScreenInv, States
  <2>5. LicenceTypeOK'
    BY <2>1, <2>4, JudgeKeeps DEF LicenceTypeOK
  <2> QED  BY <2>2, <2>4, <2>5
<1>3. CASE SignIn
  BY <1>3 DEF SignIn, LicenceTypeOK, RatchetInv, LeapInv, ScreenInv
<1>4. CASE TurnOff
  BY <1>4 DEF TurnOff, LicenceTypeOK, RatchetInv, LeapInv, ScreenInv
<1>5. CASE NextDay
  <2>1. /\ today' = today + 1 /\ clock' = clock + 1
        /\ UNCHANGED <<sets, ratchet, key, installed, screen, judged, marred>>
    BY <1>5 DEF NextDay
  <2>2. LicenceTypeOK' /\ RatchetInv' /\ ScreenInv'
    BY <2>1 DEF LicenceTypeOK, RatchetInv, ScreenInv
  <2>3. sets * MaxJumpDays \in Nat /\ MaxJumpDays \in Nat
    BY LicenceRulesAssumption DEF LicenceTypeOK
  <2>4. LeapInv'
    BY <2>1, <2>3 DEF LeapInv, LicenceTypeOK
  <2> QED  BY <2>2, <2>4
<1>6. ASSUME NEW k \in KeysSold, Activate(k) PROVE LicenceInv'
  <2>1. Judge /\ UNCHANGED <<today, clock, sets, installed>>
    BY <1>6 DEF Activate
  <2>2. ratchet' \in Nat \ {0} /\ ratchet' >= ratchet /\ ratchet' = TrustedNow
    BY <2>1, JudgeKeeps
  <2>3. CASE Verify(k, TrustedNow) \in {"invalide", "autre-entreprise"}
    <3>1. UNCHANGED <<key, screen>>
      BY <2>3, <1>6 DEF Activate
    <3>2. key.end \in Int /\ GraceDays \in Nat /\ TrialDays \in Nat /\ installed \in Nat
      BY TillLicenceAssumption, LicenceRulesAssumption DEF LicenceTypeOK, NoKey, NoDay
    <3>3. ScreenInv'
      BY <2>1, <3>1, <3>2, <2>2 DEF ScreenInv, LicenceTypeOK
    <3> QED  BY <2>1, <3>1, <3>3, JudgeKeeps DEF LicenceTypeOK
  <2>4. CASE Verify(k, TrustedNow) \notin {"invalide", "autre-entreprise"}
    <3>1. key' = k /\ screen' = [screen EXCEPT !.state = Verify(k, TrustedNow)]
      BY <2>4, <1>6 DEF Activate
    <3>2. /\ k.signed /\ k.ours /\ Verify(k, TrustedNow) \in {"valide", "grace", "expiree"}
          /\ Verify(k, TrustedNow) = "expiree" => k.end + 1 + GraceDays <= TrustedNow
      BY <2>2, <2>4, Verified
    <3>3. k # NoKey
      BY <3>2 DEF NoKey
    <3>4. screen'.state = Verify(k, TrustedNow)
      BY <3>1 DEF LicenceTypeOK
    <3>5. ScreenInv'
      BY <3>1, <3>2, <3>3, <3>4, <2>2 DEF ScreenInv
    <3>6. LicenceTypeOK'
      BY <2>1, <3>1, <3>2, JudgeKeeps DEF LicenceTypeOK, States
    <3> QED  BY <2>1, <3>5, <3>6, JudgeKeeps
  <2> QED  BY <2>3, <2>4
<1>7. ASSUME NEW day \in 1..EndOfTime, SetClock(day) PROVE LicenceInv'
  BY <1>7, SetClockKeeps
<1>8. CASE Recover
  <2>1. /\ Judge /\ UNCHANGED <<today, clock, sets, key>> /\ installed' = today
        /\ screen' = [at |-> "locked", state |-> Status(today)]
    BY <1>8 DEF Recover
  <2>2. ratchet' \in Nat \ {0} /\ ratchet' = TrustedNow /\ RatchetInv' /\ LeapInv'
    BY <2>1, JudgeKeeps
  <2>3. key \in KeysSold \cup {NoKey} /\ today \in Nat
    BY DEF LicenceTypeOK
  <2>4. Status(today) \in States /\ ScreenInv'
    BY <2>1, <2>2, <2>3, Verified, Tried DEF Status, ScreenInv, States
  <2>5. LicenceTypeOK'
    BY <2>1, <2>4, JudgeKeeps DEF LicenceTypeOK
  <2> QED  BY <2>2, <2>4, <2>5
<1> QED  BY <1>1, <1>2, <1>3, <1>4, <1>5, <1>6, <1>7, <1>8 DEF LicenceNext

\* What has expired has expired for good, until another key is pasted.
LEMMA ExpiredStays ==
  ASSUME LicenceInv, [LicenceNext]_licenceVars, screen.state = "expiree", key' = key
  PROVE  screen'.state = "expiree"
<1> USE DEF LicenceInv
<1>1. /\ key \in KeysSold \cup {NoKey} /\ ratchet \in Nat /\ GraceDays \in Nat /\ TrialDays \in Nat
      /\ installed \in Nat
  BY LicenceRulesAssumption DEF LicenceTypeOK
<1>2. key.end \in Int
  BY <1>1, TillLicenceAssumption DEF NoKey, NoDay
<1>3. TrustedNow \in Nat /\ TrustedNow >= ratchet
  BY TrustedDay
<1>4. CASE ShowLockScreen
  <2>1. screen'.state = Status(installed)
    BY <1>4 DEF ShowLockScreen
  <2>2. CASE key = NoKey
    BY <2>1, <2>2, <1>1, <1>3, Tried DEF ScreenInv, Status
  <2>3. CASE key # NoKey
    <3>1. key.signed /\ key.ours /\ key.end + 1 + GraceDays <= TrustedNow
      BY <2>3, <1>1, <1>2, <1>3 DEF ScreenInv
    <3> QED  BY <2>1, <2>3, <3>1, <1>1, <1>3, Verified DEF Status
  <2> QED  BY <2>2, <2>3
<1>5. ASSUME NEW k \in KeysSold, Activate(k) PROVE screen'.state = "expiree"
  <2>1. CASE Verify(k, TrustedNow) \in {"invalide", "autre-entreprise"}
    BY <2>1, <1>5 DEF Activate
  <2>2. CASE Verify(k, TrustedNow) \notin {"invalide", "autre-entreprise"}
    <3>1. k = key /\ screen' = [screen EXCEPT !.state = Verify(k, TrustedNow)]
      BY <2>2, <1>5 DEF Activate
    <3>2. k.signed /\ k.ours
      BY <2>2, <1>3, Verified
    <3>3. key # NoKey
      BY <3>1, <3>2 DEF NoKey
    <3>4. key.end + 1 + GraceDays <= TrustedNow
      BY <3>3, <1>1, <1>2, <1>3 DEF ScreenInv
    <3>5. Verify(k, TrustedNow) = "expiree"
      BY <3>1, <3>2, <3>4, <1>3, Verified
    <3> QED  BY <3>1, <3>5 DEF LicenceTypeOK
  <2> QED  BY <2>1, <2>2
<1>6. CASE SignIn \/ TurnOff
  BY <1>6 DEF SignIn, TurnOff, LicenceTypeOK
<1>7. CASE UNCHANGED licenceVars \/ NextDay \/ \E day \in 1..EndOfTime : SetClock(day)
  BY <1>7 DEF licenceVars, NextDay, SetClock
<1>8. ~Recover
  BY DEF Recover, Blocks
<1> QED  BY <1>4, <1>5, <1>6, <1>7, <1>8 DEF LicenceNext

LEMMA LicenceSafe == LicenceInv => NotClosedEarly /\ ClockForgiven /\ JudgedByTheDay
<1> SUFFICES ASSUME LicenceInv PROVE NotClosedEarly /\ ClockForgiven /\ JudgedByTheDay
  OBVIOUS
<1> USE DEF LicenceInv
<1>1. ClockForgiven /\ JudgedByTheDay
  BY DEF ClockForgiven, JudgedByTheDay, LeapInv, RatchetInv
<1>2. key.end \in Int /\ GraceDays \in Nat /\ ratchet \in Nat /\ judged.on \in Nat
  BY TillLicenceAssumption, LicenceRulesAssumption DEF LicenceTypeOK, NoKey, NoDay
<1>3. NotClosedEarly
  BY <1>2 DEF NotClosedEarly, Blocks, RatchetInv, ScreenInv
<1> QED  BY <1>1, <1>3

\* A till with an untouched clock is not closed before its key and grace are over, a wrong
\* clock takes it at most one leap ahead each time it is set, and what has expired stays so
\* (judgeClock, verifyLicence, status and activate).
THEOREM LicenceFairCorrect == LicenceSpec => LicenceFair
<1>1. LicenceInv /\ LicenceInv' /\ [LicenceNext]_licenceVars =>
        [ /\ (screen.state = "expiree" /\ key' = key) => screen'.state = "expiree"
          /\ (NotClosedEarly /\ ClockForgiven /\ JudgedByTheDay)' ]_licenceVars
  <2>1. LicenceInv' => (NotClosedEarly /\ ClockForgiven /\ JudgedByTheDay)'
    BY LicenceSafe, PTL
  <2> QED  BY <2>1, ExpiredStays
<1> QED  BY <1>1, LicenceStarts, LicenceStep, PTL DEF LicenceSpec, LicenceFair

----------------------------------------------------------------------------
\* The keyring.

Ours == [signing : {"ours"}, register : SUBSET Keys]
Under(t) == ~Has(t, "idle")

KeyringTypeOK ==
  /\ file \in {Absent, Torn} \cup Ours
  /\ dirty \in BOOLEAN /\ crossed \in BOOLEAN /\ back \in BOOLEAN
  /\ behind \subseteq {Absent, Torn} \cup Ours
  /\ window.content \in {Absent} \cup Ours
  /\ window \in [content : {Absent} \cup Ours, phrase : BOOLEAN, busy : BOOLEAN]
  /\ work \in [Tools -> {Idle} \cup
                 [at : {"sign", "write", "show"}, seen : Ours, phrase : BOOLEAN, key : SUBSET Keys]]

\* Unless two rewritings crossed or a cut tore the file, it holds what was shown, if no cut
\* brought an older one back, and what is about to be.
RegisterInv ==
  ~crossed /\ file # Torn =>
    /\ ~back => displayed \subseteq file.register
    /\ \A t \in Tools : Has(t, "show") => work[t].key \subseteq file.register

\* And whatever may still come back has what the register on the disk has had.
SettledInv ==
  ~crossed => \A content \in {file} \cup behind :
                content # Torn => settled \subseteq content.register

KeyringInv == KeyringTypeOK /\ RegisterInv /\ SettledInv

LEMMA Contents ==
  /\ Fresh \in Ours /\ Absent \notin Ours /\ Torn \notin Ours
  /\ \A content \in Ours : Readable(content)
  /\ \A content \in {Absent, Torn} \cup Ours : Readable(content) => content \in Ours
  BY DEF Ours, Fresh, Absent, Torn, Readable

LEMMA KeyringStarts == KeyringInit => KeyringInv
<1> SUFFICES ASSUME KeyringInit PROVE KeyringInv
  OBVIOUS
<1>1. KeyringTypeOK
  BY Contents DEF KeyringInit, KeyringTypeOK, Shut
<1>2. RegisterInv
  BY DEF KeyringInit, RegisterInv, Has, Idle
<1>3. SettledInv
  BY DEF KeyringInit, SettledInv
<1> QED  BY <1>1, <1>2, <1>3 DEF KeyringInv

\* Nothing of the disk changes, so nothing of what it must have.
LEMMA DiskStays ==
  ASSUME SettledInv, UNCHANGED diskVars
  PROVE  SettledInv'
  BY DEF SettledInv, diskVars

\* What an emission would write has the private key, and every key of what it saw.
LEMMA EnteredIsOurs ==
  ASSUME KeyringTypeOK, NEW t \in Tools, Under(t)
  PROVE  /\ Entered(t) \in Ours /\ work[t].seen \in Ours /\ work[t].key \in SUBSET Keys
         /\ Entered(t).register = work[t].seen.register \cup work[t].key
<1>1. work[t] \in [at : {"sign", "write", "show"}, seen : Ours, phrase : BOOLEAN, key : SUBSET Keys]
  BY DEF KeyringTypeOK, Under, Has, Idle
<1> QED  BY <1>1 DEF Entered, Ours

\* An emission that begins leaves nothing about to be shown that was not.
LEMMA BeginKeeps ==
  ASSUME KeyringInv, NEW t \in Tools, NEW seen \in Ours, NEW phrase \in BOOLEAN,
         Begin(t, seen, phrase), UNCHANGED <<diskVars, window, displayed>>
  PROVE  KeyringInv'
<1> USE DEF KeyringInv
<1>1. work' = [work EXCEPT ![t] = [at |-> "sign", seen |-> seen, phrase |-> phrase, key |-> {}]]
  BY DEF Begin
<1>2. KeyringTypeOK'
  BY <1>1 DEF KeyringTypeOK, diskVars
<1>3. \A u \in Tools : Has(u, "show")' => Has(u, "show") /\ work'[u] = work[u]
  BY <1>1 DEF KeyringTypeOK, Has
<1>4. RegisterInv'
  BY <1>3 DEF RegisterInv, diskVars
<1> QED  BY <1>2, <1>4, DiskStays

LEMMA KeyringStep == KeyringInv /\ [KeyringNext]_keyringVars => KeyringInv'
<1> SUFFICES ASSUME KeyringInv, [KeyringNext]_keyringVars PROVE KeyringInv'
  OBVIOUS
<1> USE DEF KeyringInv
<1>1. CASE UNCHANGED keyringVars
  BY <1>1 DEF keyringVars, KeyringTypeOK, RegisterInv, SettledInv, Has
<1>2. CASE Create
  <2>1. /\ file = Absent /\ file' = Fresh /\ dirty' = FALSE
        /\ behind' \subseteq behind \cup {Absent, Torn}
        /\ window' = [Shut EXCEPT !.content = Fresh, !.phrase = TRUE]
        /\ UNCHANGED <<work, displayed, crossed, back, settled>>
    BY <1>2 DEF Create, Renamed
  <2>2. KeyringTypeOK'
    BY <2>1, Contents DEF KeyringTypeOK, Shut
  <2>3. RegisterInv'
    BY <2>1 DEF RegisterInv, Has, Absent, Torn, Fresh
  <2>4. SettledInv'
    BY <2>1 DEF SettledInv, Absent, Torn, Fresh
  <2> QED  BY <2>2, <2>3, <2>4
<1>3. CASE Open
  <2>1. KeyringTypeOK'
    BY <1>3, Contents DEF Open, KeyringTypeOK, diskVars
  <2> QED  BY <2>1, <1>3, DiskStays DEF Open, RegisterInv, Has, diskVars
<1>4. CASE Close
  <2>1. KeyringTypeOK'
    BY <1>4 DEF Close, KeyringTypeOK, diskVars
  <2> QED  BY <2>1, <1>4, DiskStays DEF Close, RegisterInv, Has, diskVars
<1>5. CASE RunCommand
  <2>1. file \in Ours
    BY <1>5, Contents DEF RunCommand, KeyringTypeOK
  <2> QED  BY <2>1, <1>5, BeginKeeps DEF RunCommand, Tools
<1>6. CASE PowerCut
  <2>1. /\ file' \in {file, Torn} \cup behind /\ dirty' = FALSE /\ behind' = {}
        /\ back' = (back \/ file' \notin {file, Torn}) /\ window' = Shut
        /\ work' = [t \in Tools |-> Idle] /\ UNCHANGED <<displayed, crossed, settled>>
    BY <1>6 DEF PowerCut, Leaves
  <2>2. KeyringTypeOK'
    BY <2>1 DEF KeyringTypeOK, Shut
  <2>3. \A t \in Tools : ~Has(t, "show")'
    BY <2>1 DEF Has, Idle
  <2>4. RegisterInv'
    BY <2>1, <2>3 DEF RegisterInv
  <2>5. SettledInv'
    BY <2>1 DEF SettledInv
  <2> QED  BY <2>2, <2>4, <2>5
<1>7. CASE Flush
  <2>1. /\ dirty' = FALSE /\ behind' = {} /\ settled' = file.register
        /\ UNCHANGED <<file, window, work, displayed, crossed, back>>
    BY <1>7 DEF Flush
  <2> QED  BY <2>1 DEF KeyringTypeOK, RegisterInv, SettledInv, Has
<1>8. ASSUME NEW t \in Tools, Click(t) PROVE KeyringInv'
  <2>1. window.content \in Ours /\ window.phrase \in BOOLEAN
    BY <1>8 DEF Click, KeyringTypeOK
  <2> QED  BY <2>1, <1>8, BeginKeeps DEF Click
<1>9. ASSUME NEW t \in Tools, Sign(t) PROVE KeyringInv'
  <2>1. PICK k \in Keys : work' = [work EXCEPT ![t].at = "write", ![t].key = {k}]
    BY <1>9 DEF Sign
  <2>2. /\ Has(t, "sign") /\ UNCHANGED <<diskVars, displayed>>
        /\ window' \in {window, [window EXCEPT !.busy = TRUE]}
    BY <1>9 DEF Sign
  <2>3. work[t] \in [at : {"sign", "write", "show"}, seen : Ours, phrase : BOOLEAN, key : SUBSET Keys]
    BY <2>2 DEF KeyringTypeOK, Has, Idle
  <2>4. KeyringTypeOK'
    BY <2>1, <2>2, <2>3 DEF KeyringTypeOK, diskVars
  <2>5. \A u \in Tools : Has(u, "show")' => Has(u, "show") /\ work'[u] = work[u]
    BY <2>1, <2>3 DEF KeyringTypeOK, Has
  <2> QED  BY <2>2, <2>4, <2>5, DiskStays DEF RegisterInv, diskVars
<1>10. ASSUME NEW t \in Tools, Write(t) PROVE KeyringInv'
  <2>1. /\ Has(t, "write") /\ file' = Entered(t) /\ dirty' \in BOOLEAN
        /\ behind' \subseteq behind \cup {file, Torn}
        /\ crossed' = (crossed \/ file # work[t].seen)
        /\ work' = [work EXCEPT ![t].at = "show"]
        /\ UNCHANGED <<window, displayed, back, settled>>
    BY <1>10 DEF Write, Renamed
  <2>2. Under(t)
    BY <2>1 DEF Under, Has
  <2>3. /\ Entered(t) \in Ours /\ work[t].seen \in Ours
        /\ Entered(t).register = work[t].seen.register \cup work[t].key
    BY <2>2, EnteredIsOurs
  <2>4. work[t] \in [at : {"sign", "write", "show"}, seen : Ours, phrase : BOOLEAN, key : SUBSET Keys]
    BY <2>1 DEF KeyringTypeOK, Has, Idle
  <2>5. KeyringTypeOK'
    BY <2>1, <2>3, <2>4 DEF KeyringTypeOK
  <2>6. /\ work'[t].key = work[t].key
        /\ \A u \in Tools \ {t} : work'[u] = work[u]
    BY <2>1, <2>4 DEF KeyringTypeOK
  <2>7. ASSUME ~crossed'
        PROVE  /\ file # Torn /\ file'.register = file.register \cup work[t].key
               /\ ~crossed
    <3>1. ~crossed /\ file = work[t].seen /\ file # Torn
      BY <2>7, <2>1, <2>3, Contents
    <3> QED  BY <3>1, <2>1, <2>3
  <2>8. RegisterInv'
    BY <2>1, <2>6, <2>7 DEF RegisterInv, Has
  <2>9. SettledInv'
    BY <2>1, <2>7 DEF SettledInv
  <2> QED  BY <2>5, <2>8, <2>9
<1>11. ASSUME NEW t \in Tools, WriteFails(t) PROVE KeyringInv'
  <2>1. /\ work' = [work EXCEPT ![t] = Idle] /\ UNCHANGED <<diskVars, displayed>>
        /\ window' \in {window, [window EXCEPT !.busy = FALSE]}
    BY <1>11 DEF WriteFails, Ends
  <2>2. KeyringTypeOK'
    BY <2>1 DEF KeyringTypeOK, diskVars
  <2>3. \A u \in Tools : Has(u, "show")' => Has(u, "show") /\ work'[u] = work[u]
    BY <2>1 DEF KeyringTypeOK, Has, Idle
  <2> QED  BY <2>1, <2>2, <2>3, DiskStays DEF RegisterInv, diskVars
<1>12. ASSUME NEW t \in Tools, Show(t) PROVE KeyringInv'
  <2>1. /\ Has(t, "show") /\ displayed' = displayed \cup work[t].key
        /\ work' = [work EXCEPT ![t] = Idle] /\ UNCHANGED diskVars
        /\ window' \in {window, [window EXCEPT !.content = Entered(t), !.busy = FALSE]}
    BY <1>12 DEF Show, Ends
  <2>2. Under(t)
    BY <2>1 DEF Under, Has
  <2>3. Entered(t) \in Ours
    BY <2>2, EnteredIsOurs
  <2>4. KeyringTypeOK'
    BY <2>1, <2>3 DEF KeyringTypeOK, diskVars
  <2>5. \A u \in Tools : Has(u, "show")' => Has(u, "show") /\ work'[u] = work[u]
    BY <2>1 DEF KeyringTypeOK, Has, Idle
  <2> QED  BY <2>1, <2>4, <2>5, DiskStays DEF RegisterInv, diskVars
<1> QED  BY <1>1, <1>2, <1>3, <1>4, <1>5, <1>6, <1>7, <1>8, <1>9, <1>10, <1>11, <1>12
         DEF KeyringNext

\* A file that can be read, and that no cut takes whole or in part, can be read after any step.
LEMMA KeyringReadable ==
  ASSUME KeyringInv, [KeyringNext]_keyringVars, Readable(file), ~dirty,
         {Absent, Torn} \cap behind = {}
  PROVE  Readable(file')
<1> USE DEF KeyringInv
<1>1. ASSUME NEW t \in Tools, Write(t) PROVE Readable(file')
  <2>1. Under(t) /\ file' = Entered(t)
    BY <1>1 DEF Write, Renamed, Under, Has
  <2> QED  BY <2>1, EnteredIsOurs, Contents
<1>2. CASE PowerCut
  <2>1. file' \in {file} \cup behind
    BY <1>2 DEF PowerCut, Leaves
  <2> QED  BY <2>1 DEF KeyringTypeOK, Readable
<1>3. CASE Create
  BY <1>3 DEF Create, Readable
<1>4. CASE UNCHANGED keyringVars \/ Open \/ Close \/ RunCommand \/ Flush
  BY <1>4 DEF keyringVars, diskVars, Open, Close, RunCommand, Flush
<1>5. ASSUME NEW t \in Tools, Click(t) \/ Sign(t) \/ WriteFails(t) \/ Show(t)
      PROVE  Readable(file')
  BY <1>5 DEF Click, Sign, WriteFails, Show, diskVars
<1> QED  BY <1>1, <1>2, <1>3, <1>4, <1>5 DEF KeyringNext

\* A key that was shown is in the register until a cut brings an older file back, which has
\* every key the disk has had; and the private key survives every cut once it is on the disk,
\* whatever the window rewrites.  All of it unless two tools rewrote the file from their own
\* copies (inscrire, ecrire_atomique, ecrireAtomique).
THEOREM KeysAreKeptCorrect == KeyringSpec => KeysAreKept
<1>1. KeyringInv => ShownIsRegistered
  BY DEF KeyringInv, RegisterInv, SettledInv, ShownIsRegistered
<1>2. KeyringInv /\ KeyringInv' /\ [KeyringNext]_keyringVars =>
        [ /\ ShownIsRegistered'
          /\ (Readable(file) /\ ~dirty /\ {Absent, Torn} \cap behind = {}) =>
               Readable(file') ]_keyringVars
  <2>1. KeyringInv' => ShownIsRegistered'
    BY <1>1, PTL
  <2> QED  BY <2>1, KeyringReadable
<1> QED  BY <1>2, KeyringStarts, KeyringStep, PTL DEF KeyringSpec, KeysAreKept

----------------------------------------------------------------------------
(* Arithmetic of the costs.                                                *)

LEMMA Halving ==
  ASSUME NEW x \in Int, NEW d \in Nat \ {0}
  PROVE  x \div d \in Int /\ d * (x \div d) <= x /\ x < d * (x \div d) + d
OBVIOUS

\* A rounded quotient lies between the integers the quotient lies between.
LEMMA RoundedBetween ==
  ASSUME NEW a \in Int, NEW b \in Nat \ {0}, NEW lo \in Int, NEW hi \in Int,
         lo * b <= a, a <= hi * b
  PROVE  Rounded(a, b) \in lo..hi
<1> DEFINE x == 2 * a + b  d == 2 * b  q == x \div d
<1>1. x \in Int /\ d \in Nat \ {0}
  OBVIOUS
<1>2. q \in Int /\ d * q <= x /\ x < d * q + d
  <2> HIDE DEF x, d
  <2> QED BY <1>1, Halving
<1>3. ~(q < lo)
  <2> SUFFICES ASSUME q + 1 <= lo PROVE FALSE
    BY <1>2
  <2>1. d * (q + 1) <= d * lo
    <3> HIDE DEF d, q
    <3> QED BY <1>1, <1>2
  <2>2. d * (q + 1) = d * q + d
    <3> HIDE DEF d, q
    <3> QED BY <1>1, <1>2
  <2>3. d * lo = 2 * (lo * b)
    OBVIOUS
  <2> HIDE DEF q
  <2> QED BY <1>1, <1>2, <2>1, <2>2, <2>3
<1>4. ~(q > hi)
  <2> SUFFICES ASSUME q >= hi + 1 PROVE FALSE
    BY <1>2
  <2>1. d * q >= d * (hi + 1)
    <3> HIDE DEF d, q
    <3> QED BY <1>1, <1>2
  <2>2. d * (hi + 1) = 2 * (hi * b) + 2 * b
    OBVIOUS
  <2> HIDE DEF q
  <2> QED BY <1>1, <1>2, <2>1, <2>2
<1> HIDE DEF q
<1>5. q \in lo..hi
  BY <1>2, <1>3, <1>4
<1> QED BY <1>5 DEF Rounded, q

\* The average is between the cost there was and the one that comes in.
LEMMA AverageBetween ==
  ASSUME NEW lo \in Nat, NEW hi \in Nat, NEW now \in Int, NEW cost \in lo..hi,
         NEW line \in [qty : Nat \ {0}, cost : lo..hi]
  PROVE  AverageCost(now, cost, line) \in lo..hi
<1> DEFINE q == line.qty  c == line.cost
<1>1. q \in Nat \ {0} /\ c \in lo..hi
  OBVIOUS
<1>2. CASE now <= 0 \/ cost <= 0
  BY <1>1, <1>2 DEF AverageCost
<1>3. CASE now > 0 /\ cost > 0
  <2> HIDE DEF q, c
  <2>1. now + q \in Nat \ {0} /\ now * cost + q * c \in Int
    BY <1>1, <1>3
  <2>2. lo * now <= now * cost /\ now * cost <= hi * now
    BY <1>3
  <2>3. lo * q <= q * c /\ q * c <= hi * q
    BY <1>1
  <2>4. lo * (now + q) = lo * now + lo * q /\ hi * (now + q) = hi * now + hi * q
    BY <1>1
  <2>5. now * cost \in Int /\ q * c \in Int /\ lo * now \in Int /\ lo * q \in Int
        /\ hi * now \in Int /\ hi * q \in Int
    BY <1>1
  <2>6. lo * (now + q) <= now * cost + q * c /\ now * cost + q * c <= hi * (now + q)
    BY <2>2, <2>3, <2>4, <2>5
  <2>7. Rounded(now * cost + q * c, now + q) \in lo..hi
    BY <2>1, <2>6, RoundedBetween
  <2> QED BY <1>3, <2>7 DEF AverageCost, q, c
<1> QED BY <1>2, <1>3

LEMMA LineTotalType == ASSUME NEW line \in Offers PROVE LineTotal(line) \in Nat
<1>1. line.qty \in Nat /\ line.cost \in Nat /\ QtyScale \in Nat \ {0}
  BY PurchasingAssumption
<1> DEFINE a == line.qty * line.cost
<1>2. a \in Nat
  BY <1>1
<1> HIDE DEF a
<1>3. 2 * a + QtyScale \in Nat /\ 2 * QtyScale \in Nat \ {0}
  BY <1>1, <1>2
<1>4. (2 * a + QtyScale) \div (2 * QtyScale) \in Nat
  BY <1>3
<1> QED BY <1>4 DEF LineTotal, Rounded, a

\* The costs of a finite set of offers are one.
LEMMA CostsFinite ==
  ASSUME NEW S, IsFiniteSet(S)
  PROVE  IsFiniteSet({offer.cost : offer \in S})
<1> DEFINE P == {U \in SUBSET S : IsFiniteSet({offer.cost : offer \in U})}
<1>1. {} \in P
  BY FS_EmptySet
<1>2. ASSUME NEW U \in SUBSET S, U # {},
             \A V \in SUBSET S : Cardinality(V) < Cardinality(U) => V \in P
      PROVE  U \in P
  <2>1. PICK u : u \in U
    BY <1>2
  <2>2. IsFiniteSet(U)
    BY FS_Subset
  <2>3. U \ {u} \in SUBSET S /\ Cardinality(U \ {u}) < Cardinality(U)
    <3>1. Cardinality(U \ {u}) = Cardinality(U) - 1 /\ Cardinality(U) \in Nat
      BY <2>1, <2>2, FS_RemoveElement, FS_CardinalityType
    <3> HIDE DEF P
    <3> QED BY <3>1
  <2>4. IsFiniteSet({offer.cost : offer \in U \ {u}})
    BY <1>2, <2>3
  <2>5. {offer.cost : offer \in U} = {offer.cost : offer \in U \ {u}} \cup {u.cost}
    BY <2>1
  <2> DEFINE C == {offer.cost : offer \in U \ {u}}
  <2>6. IsFiniteSet(C \cup {u.cost})
    <3> HIDE DEF C
    <3> QED BY <2>4, FS_AddElement DEF C
  <2>7. IsFiniteSet({offer.cost : offer \in U})
    BY <2>5, <2>6
  <2> QED BY <2>7
<1>3. S \in P
  <2> HIDE DEF P
  <2> QED BY <1>1, <1>2, SetClimb
<1> QED BY <1>3

\* What was paid, and the range it spans.
Paid == Costs \cup {offer.cost : offer \in Offers}

LEMMA PaidRange ==
  ASSUME Paid # {}
  PROVE  /\ Min(Paid) \in Nat /\ Max(Paid) \in Nat
         /\ \A cost \in Paid : cost \in Min(Paid)..Max(Paid)
<1>1. Paid \subseteq Nat
  BY PurchasingAssumption DEF Paid
<1>2. IsFiniteSet(Paid)
  <2>1. IsFiniteSet({offer.cost : offer \in Offers})
    BY PurchasingAssumption, CostsFinite
  <2> QED BY <2>1, FS_Union, PurchasingAssumption DEF Paid
<1> HIDE DEF Paid
<1>3. Min(Paid) \in Paid /\ \A x \in Paid : Min(Paid) <= x
  BY <1>1, LeastIs
<1>4. Max(Paid) \in Paid /\ \A x \in Paid : x <= Max(Paid)
  BY <1>1, <1>2, GreatestIs
<1>5. Min(Paid) \in Nat /\ Max(Paid) \in Nat
  BY <1>1, <1>3, <1>4
<1>6. ASSUME NEW cost \in Paid PROVE cost \in Min(Paid)..Max(Paid)
  <2>1. Min(Paid) <= cost /\ cost <= Max(Paid) /\ cost \in Nat
    BY <1>1, <1>3, <1>4
  <2> QED BY <1>5, <2>1
<1> QED BY <1>5, <1>6

----------------------------------------------------------------------------
(* The inductive invariant.                                                *)

Orders == UNION {[D -> Offers] : D \in SUBSET Lines}

\* What a hand holds, operation by operation.
Task ==
  [op : {"add", "remove", "move", "count", "rebuild", "receive"},
   at : {"write", "items", "total", "insert", "level", "cost", "average", "writeCost", "status",
         "queue", "queueLines"},
   lines : Orders, left : SUBSET Lines, value : Int, clean : BOOLEAN]

Stages(op) ==
  CASE op \in {"add", "remove"} -> {"write", "items", "total"}
    [] op \in {"move", "count"} -> {"insert", "level"}
    [] op = "rebuild" -> {"write"}
    [] OTHER -> {"items", "insert", "level", "cost", "average", "writeCost", "status", "queue",
                 "queueLines"}

Possible(t) ==
  /\ t.at \in Stages(t.op) /\ t.left \subseteq DOMAIN t.lines
  /\ t.op = "receive" /\ t.at # "items" => t.left # {}
  /\ t.op \in {"add", "remove"} /\ t.at = "total" => t.value \in Nat

PurchaseTypes ==
  /\ receipt \in [status : {"none", "draft", "received"}, total : Nat, lines : Orders]
  /\ stock \in [journal : Int, level : Int] /\ paid \in Nat
  /\ entered \in [Lines -> Nat] /\ sent \subseteq Lines \cup {0}
  /\ hand \in [Hands -> Task \cup {Free}]
  /\ \A h \in Hands : hand[h] # Free => Possible(hand[h])
  /\ torn \subseteq {"level", "edited", "twice"}

\* A rebuilding that nothing crossed holds the sum of the journal.
RebuildInv ==
  \A h \in Hands : hand[h].op = "rebuild" /\ hand[h].clean =>
    hand[h].value = stock.journal /\ Adding = {}

LevelInv == RebuildInv /\ LevelIsSum

\* The cost, and those on their way to it, are in the range of what was paid.
CostInv ==
  /\ Paid # {} /\ paid \in Min(Paid)..Max(Paid)
  /\ \A h \in Receiving : hand[h].at \in {"average", "writeCost"} =>
       hand[h].value \in Min(Paid)..Max(Paid)

\* The lines a reception has put in stock so far.
Stored(t) ==
  IF t.at = "items" THEN {}
  ELSE IF t.at = "insert" THEN DOMAIN t.lines \ t.left
  ELSE IF t.at \in {"level", "cost", "average", "writeCost"}
       THEN (DOMAIN t.lines \ t.left) \cup {Min(t.left)}
  ELSE DOMAIN t.lines

Holds(h) ==
  /\ hand[h].at # "items" => hand[h].lines = receipt.lines
  /\ \A l \in Stored(hand[h]) : entered[l] >= 1

\* While no edit crossed anything, an edit is alone, and a reception holds the lines there are.
EditInv ==
  "edited" \notin torn =>
    /\ Receiving = {} \/ Editing = {}
    /\ \A g, h \in Editing : g = h
    /\ \A h \in Editing :
         /\ receipt.status = "draft"
         /\ hand[h].at = "total" => hand[h].value = ReceiptTotal(receipt.lines)
    /\ Editing = {} => receipt.total = ReceiptTotal(receipt.lines)
    /\ \A h \in Receiving : Holds(h)
    /\ ReceivedIsIn

\* A receipt nobody receives is in stock and sent whole, or not at all.
Settled ==
  \/ /\ receipt.status = "received" /\ sent = DOMAIN receipt.lines \cup {0}
     /\ \A l \in Lines : entered[l] = IF l \in DOMAIN receipt.lines THEN 1 ELSE 0
  \/ receipt.status # "received" /\ sent = {} /\ \A l \in Lines : entered[l] = 0

\* What a reception did is seen from where it is.
Shows(h) ==
  /\ \A l \in Lines : entered[l] = IF l \in Stored(hand[h]) THEN 1 ELSE 0
  /\ receipt.status = "received" <=> hand[h].at \in {"queue", "queueLines"}
  /\ sent = IF hand[h].at = "queueLines" THEN (DOMAIN hand[h].lines \ hand[h].left) \cup {0} ELSE {}
  /\ hand[h].at \in {"status", "queue"} => hand[h].left = DOMAIN hand[h].lines

\* While nothing crossed it, a reception is alone, and shows.
OnceInv ==
  torn \cap {"twice", "edited"} = {} =>
    /\ \A g, h \in Receiving : g = h
    /\ Receiving = {} => Settled
    /\ \A h \in Receiving : Shows(h)

PurchaseInv == PurchaseTypes /\ LevelInv /\ CostInv /\ EditInv /\ OnceInv

\* The invariant says what is promised.
LEMMA ShelvesAre == PurchaseInv => ShelvesAgree
<1> SUFFICES ASSUME PurchaseInv PROVE ShelvesAgree
  OBVIOUS
<1>1. PurchaseTypeOK
  <2>1. DOMAIN receipt.lines \subseteq Lines /\ Range(receipt.lines) \subseteq Offers
    BY DEF PurchaseInv, PurchaseTypes, Orders, Range
  <2>2. \A h \in Hands : hand[h] = Free \/ hand[h].left \subseteq DOMAIN hand[h].lines
    BY DEF PurchaseInv, PurchaseTypes, Possible
  <2> QED BY <2>1, <2>2 DEF PurchaseInv, PurchaseTypes, PurchaseTypeOK
<1>2. LevelIsSum
  BY DEF PurchaseInv, LevelInv
<1>3. ReceivedOnce
  BY DEF PurchaseInv, OnceInv, EditInv, ReceivedOnce, Settled
<1>4. ReceivedIsIn
  BY DEF PurchaseInv, EditInv, ReceivedIsIn
<1>5. CostAmongPaid
  BY DEF PurchaseInv, CostInv, CostAmongPaid, Paid
<1> QED BY <1>1, <1>2, <1>3, <1>4, <1>5 DEF ShelvesAgree

LEMMA PurchaseStarts == PurchaseInit => PurchaseInv
<1> SUFFICES ASSUME PurchaseInit PROVE PurchaseInv
  OBVIOUS
<1>1. NoLines \in Orders /\ DOMAIN NoLines = {}
  <2>1. NoLines \in [{} -> Offers]
    BY DEF NoLines
  <2> QED BY <2>1 DEF Orders
<1>2. PurchaseTypes
  BY <1>1, PurchasingAssumption DEF PurchaseInit, PurchaseTypes
<1>3. Receiving = {} /\ Editing = {} /\ Adding = {}
  BY DEF PurchaseInit, Receiving, Editing, Adding, Moving, Free
<1>4. LevelInv
  <2>1. \A h \in Hands : OnTheWay(h) = 0
    BY <1>3 DEF OnTheWay
  <2>2. SumFunction([h \in Hands |-> OnTheWay(h)]) = 0
    BY <2>1, SumZeros, PurchasingAssumption DEF SumFunction
  <2> QED BY <2>2 DEF LevelInv, RebuildInv, LevelIsSum, PurchaseInit, Free
<1>5. CostInv
  <2>1. paid \in Paid
    BY DEF PurchaseInit, Paid
  <2> QED BY <1>3, <2>1, PaidRange DEF CostInv
<1>6. ReceiptTotal(receipt.lines) = 0
  BY <1>1, SumEmpty DEF PurchaseInit, ReceiptTotal, SumFunction
<1>7. EditInv
  BY <1>3, <1>6 DEF EditInv, PurchaseInit, ReceivedIsIn
<1>8. OnceInv
  BY <1>3 DEF OnceInv, Settled, PurchaseInit
<1> QED BY <1>2, <1>4, <1>5, <1>7, <1>8 DEF PurchaseInv

----------------------------------------------------------------------------
(* What a step leaves alone.                                               *)

LEMMA HandFacts ==
  ASSUME PurchaseTypes, NEW h \in Hands, hand[h].op # "none"
  PROVE  hand[h] \in Task /\ Possible(hand[h]) /\ hand[h] # Free
<1>1. hand[h] # Free
  BY DEF Free
<1> QED BY <1>1 DEF PurchaseTypes

LEMMA TaskNotFree == ASSUME NEW t \in Task PROVE t # Free /\ t.op # "none"
BY DEF Task, Free

\* The hand that moves, and the others.
LEMMA Moved ==
  ASSUME PurchaseTypes, NEW h \in Hands, NEW t, (t \in Task /\ Possible(t)) \/ t = Free,
         hand' = [hand EXCEPT ![h] = t]
  PROVE  /\ hand' \in [Hands -> Task \cup {Free}] /\ hand'[h] = t
         /\ \A g \in Hands \ {h} : hand'[g] = hand[g]
         /\ \A g \in Hands : hand'[g] # Free => Possible(hand'[g])
BY DEF PurchaseTypes

Aside(g) == hand'[g] = hand[g] \/ (hand[g].op = "rebuild" /\ hand'[g].op = "rebuild")

\* The level, as long as no movement starts, ends or is crossed.
LEMMA LevelKeeps ==
  ASSUME PurchaseTypes, LevelInv, NEW h \in Hands, UNCHANGED stock,
         "level" \in torn => "level" \in torn',
         \A g \in Hands \ {h} : hand'[g] = hand[g],
         ~(Moving(h) /\ hand[h].at = "level"), ~(Moving(h)' /\ hand'[h].at = "level"),
         hand'[h].op = "rebuild" /\ hand'[h].clean => hand'[h].value = stock.journal /\ Adding = {}
  PROVE  LevelInv'
<1>1. \A g \in Hands : g \in Adding' <=> g \in Adding
  BY DEF Adding, Moving
<1>2. \A g \in Hands : OnTheWay(g)' = OnTheWay(g)
  <2> SUFFICES ASSUME NEW g \in Hands PROVE OnTheWay(g)' = OnTheWay(g)
    OBVIOUS
  <2>1. CASE g = h
    BY <1>1, <2>1 DEF OnTheWay, Adding
  <2>2. CASE g # h
    BY <1>1, <2>2 DEF OnTheWay, Delta, Line
  <2> QED BY <2>1, <2>2
<1>3. LevelIsSum'
  BY <1>2 DEF LevelInv, LevelIsSum
<1>4. RebuildInv'
  BY <1>1 DEF LevelInv, RebuildInv, Adding
<1> QED BY <1>3, <1>4 DEF LevelInv

\* The cost, as long as no one computes it.
LEMMA CostKeeps ==
  ASSUME CostInv, NEW h \in Hands, \A g \in Hands \ {h} : Aside(g),
         paid' \in Min(Paid)..Max(Paid),
         hand'[h].op = "receive" /\ hand'[h].at \in {"average", "writeCost"} =>
           hand'[h].value \in Min(Paid)..Max(Paid)
  PROVE  CostInv'
BY DEF CostInv, Receiving, Aside

\* The story of the receipt, as long as neither an edit nor a reception moves.
LEMMA StoryKeeps ==
  ASSUME EditInv, OnceInv, UNCHANGED <<receipt, entered, sent>>,
         torn \cap {"edited", "twice"} \subseteq torn',
         \A g \in Hands : \/ hand'[g] = hand[g]
                          \/ /\ hand[g].op \notin {"add", "remove", "receive"}
                             /\ hand'[g].op \notin {"add", "remove", "receive"}
  PROVE  EditInv' /\ OnceInv'
<1>1. Receiving' = Receiving /\ Editing' = Editing
  BY DEF Receiving, Editing
<1>2. \A g \in Receiving \cup Editing : hand'[g] = hand[g]
  BY DEF Receiving, Editing
<1>3. EditInv'
  BY <1>1, <1>2 DEF EditInv, Holds, Stored, ReceivedIsIn
<1>4. OnceInv'
  BY <1>1, <1>2 DEF OnceInv, Shows, Stored, Settled
<1> QED BY <1>3, <1>4

\* A step of a reception that leaves the lines and the total.
LEMMA ReceptionKeeps ==
  ASSUME EditInv, NEW h \in Receiving, \A g \in Hands \ {h} : Aside(g),
         receipt'.lines = receipt.lines, receipt'.total = receipt.total,
         \A l \in Lines : entered[l] \in Nat /\ entered'[l] \in Nat /\ entered[l] <= entered'[l],
         DOMAIN receipt.lines \subseteq Lines, \A g \in Receiving : Stored(hand[g]) \subseteq Lines,
         UNCHANGED torn,
         hand'[h] = Free \/ (hand'[h].op = "receive" /\ ("edited" \notin torn => Holds(h)')),
         receipt'.status = "received" /\ "edited" \notin torn =>
           \/ receipt.status = "received"
           \/ \A l \in DOMAIN receipt.lines : entered'[l] >= 1
  PROVE  EditInv'
<1>1. h \in Hands /\ Editing' = Editing /\ Receiving' \subseteq Receiving
  BY DEF Receiving, Editing, Free, Aside
<1> SUFFICES ASSUME "edited" \notin torn PROVE EditInv'
  BY DEF EditInv
<1>2. Editing = {} /\ Editing' = {}
  BY <1>1 DEF EditInv
<1>3. receipt'.total = ReceiptTotal(receipt'.lines)
  BY <1>2 DEF EditInv
<1>4. ASSUME NEW g \in Receiving' PROVE Holds(g)'
  <2>1. CASE g = h
    BY <1>4, <2>1 DEF Receiving, Free
  <2>2. CASE g # h
    <3>1. g \in Receiving /\ Holds(g) /\ hand'[g] = hand[g]
      BY <1>1, <1>4, <2>2 DEF EditInv, Receiving, Aside
    <3>2. \A l \in Stored(hand[g]) : entered'[l] >= 1
      BY <3>1 DEF Holds
    <3> QED BY <3>1, <3>2 DEF Holds
  <2> QED BY <2>1, <2>2
<1>5. ReceivedIsIn'
  BY DEF EditInv, ReceivedIsIn
<1> QED BY <1>2, <1>3, <1>4, <1>5 DEF EditInv

\* A step of the only reception.
LEMMA ReceptionShows ==
  ASSUME OnceInv, NEW h \in Receiving, \A g \in Hands \ {h} : Aside(g),
         UNCHANGED torn,
         torn \cap {"twice", "edited"} = {} =>
           \/ hand'[h] = Free /\ Settled'
           \/ hand'[h].op = "receive" /\ Shows(h)'
  PROVE  OnceInv'
<1> SUFFICES ASSUME torn \cap {"twice", "edited"} = {} PROVE OnceInv'
  BY DEF OnceInv
<1>1. \A g \in Receiving : g = h
  BY DEF OnceInv
<1>2. Receiving' = IF hand'[h] = Free THEN {} ELSE {h}
  BY <1>1 DEF Receiving, Free, Aside
<1> QED BY <1>2 DEF OnceInv, Free

----------------------------------------------------------------------------
(* The steps that are no part of a reception.                              *)

LEMMA OrderFacts ==
  /\ \A lines \in Orders : /\ DOMAIN lines \subseteq Lines
                           /\ \A l \in DOMAIN lines : lines[l] \in Offers
  /\ NoLines \in Orders /\ DOMAIN NoLines = {}
  /\ \A lines \in Orders : lines # NoLines => DOMAIN lines # {}
<1>1. NoLines \in [{} -> Offers]
  BY DEF NoLines
<1>2. NoLines \in Orders /\ DOMAIN NoLines = {}
  BY <1>1 DEF Orders
<1>3. \A lines \in Orders : lines # NoLines => DOMAIN lines # {}
  BY DEF Orders, NoLines
<1> QED BY <1>2, <1>3 DEF Orders

\* The total of a receipt is a number.
LEMMA TotalType == ASSUME NEW lines \in Orders PROVE ReceiptTotal(lines) \in Nat
<1> DEFINE f == [l \in DOMAIN lines |-> LineTotal(lines[l])]
<1>1. DOMAIN lines \subseteq Lines /\ \A l \in DOMAIN lines : lines[l] \in Offers
  BY OrderFacts
<1>2. IsFiniteSet(DOMAIN lines)
  <2>1. 1 \in Int /\ MaxLines \in Int
    BY PurchasingAssumption
  <2>2. IsFiniteSet(1..MaxLines)
    BY <2>1, FS_Interval
  <2> QED BY <1>1, <2>2, FS_Subset DEF Lines
<1>3. DOMAIN f = DOMAIN lines /\ \A l \in DOMAIN lines : f[l] \in Nat
  BY <1>1, LineTotalType
<1> HIDE DEF f
<1>4. SumFunctionOnSet(f, DOMAIN lines) \in Nat
  <2>1. CASE DOMAIN lines = {}
    BY <2>1, SumEmpty
  <2>2. CASE DOMAIN lines # {}
    BY <1>2, <1>3, <2>2, SumTerm
  <2> QED BY <2>1, <2>2
<1>5. ReceiptTotal(lines) = SumFunctionOnSet(f, DOMAIN lines)
  BY <1>3 DEF ReceiptTotal, SumFunction, f
<1> QED BY <1>4, <1>5

\* What a hand that begins holds.
LEMMA HandTask ==
  ASSUME NEW op \in {"add", "remove", "move", "count", "rebuild", "receive"},
         NEW at \in {"write", "items", "insert"}
  PROVE  LET t == Hand(op, at) IN
           t \in Task /\ t.op = op /\ t.at = at /\ t.left = {}
BY OrderFacts DEF Hand, Task

LEMMA NewTask ==
  ASSUME NEW op \in {"add", "remove", "move", "count", "rebuild", "receive"},
         NEW at \in {"write", "items", "insert"}, NEW value \in Int
  PROVE  LET t == [Hand(op, at) EXCEPT !.value = value] IN
           t \in Task /\ t.op = op /\ t.at = at /\ t.left = {} /\ t.value = value
BY OrderFacts DEF Hand, Task

LEMMA CreateKeeps == PurchaseInv /\ CreateReceipt => PurchaseInv'
<1> SUFFICES ASSUME PurchaseInv, CreateReceipt PROVE PurchaseInv'
  OBVIOUS
<1>1. /\ receipt.status = "none" /\ receipt' = [receipt EXCEPT !.status = "draft"]
      /\ UNCHANGED <<stock, paid, entered, sent, hand, events, torn>>
      /\ receipt \in [status : {"none", "draft", "received"}, total : Nat, lines : Orders]
  BY DEF CreateReceipt, PurchaseInv, PurchaseTypes
<1>2. receipt'.status = "draft" /\ receipt'.total = receipt.total /\ receipt'.lines = receipt.lines
      /\ receipt' \in [status : {"none", "draft", "received"}, total : Nat, lines : Orders]
  BY <1>1
<1>3. PurchaseTypes'
  BY <1>1, <1>2 DEF PurchaseInv, PurchaseTypes
<1>4. LevelInv' /\ CostInv'
  BY <1>1 DEF PurchaseInv, LevelInv, RebuildInv, LevelIsSum, OnTheWay, Adding, Moving, Delta, Line,
              CostInv, Receiving
<1>5. EditInv'
  BY <1>1, <1>2 DEF PurchaseInv, EditInv, Holds, Receiving, Editing, ReceivedIsIn
<1>6. OnceInv'
  BY <1>1, <1>2 DEF PurchaseInv, OnceInv, Shows, Receiving, Settled
<1> QED BY <1>3, <1>4, <1>5, <1>6 DEF PurchaseInv

\* A hand that takes up or leaves off what is neither an edit nor a reception.
LEMMA OtherKeeps ==
  ASSUME PurchaseInv, NEW h \in Hands, NEW t, (t \in Task /\ Possible(t)) \/ t = Free,
         hand' = [hand EXCEPT ![h] = t], UNCHANGED <<receipt, stock, paid, entered, sent, torn>>,
         hand[h].op \notin {"add", "remove", "receive"}, t.op \notin {"add", "remove", "receive"},
         hand[h].at = "level" => ~Moving(h), t.at # "level",
         t.op = "rebuild" /\ t.clean => t.value = stock.journal /\ Adding = {}
  PROVE  PurchaseInv'
<1>1. /\ hand' \in [Hands -> Task \cup {Free}] /\ hand'[h] = t
      /\ \A g \in Hands \ {h} : hand'[g] = hand[g]
      /\ \A g \in Hands : hand'[g] # Free => Possible(hand'[g])
  BY Moved DEF PurchaseInv
<1>2. PurchaseTypes'
  BY <1>1 DEF PurchaseInv, PurchaseTypes
<1>3. LevelInv'
  BY <1>1, LevelKeeps DEF PurchaseInv
<1>4. CostInv'
  BY <1>1, CostKeeps DEF PurchaseInv, CostInv, Aside
<1>5. EditInv' /\ OnceInv'
  BY <1>1, StoryKeeps DEF PurchaseInv
<1> QED BY <1>2, <1>3, <1>4, <1>5 DEF PurchaseInv

LEMMA BeginOtherKeeps ==
  ASSUME PurchaseInv, NEW h \in Hands,
         \/ \E d \in Deltas : BeginMove(h, d)
         \/ \E counted \in Counts : BeginCount(h, counted)
         \/ BeginRebuild(h)
  PROVE  PurchaseInv'
<1>1. hand[h] = Free => hand[h].op = "none"
  BY DEF Free
<1>2. stock.journal \in Int /\ stock.level \in Int
  BY DEF PurchaseInv, PurchaseTypes
<1>3. ASSUME NEW op \in {"move", "count"}, NEW value \in Int, Begins(h, op, "insert", value),
             UNCHANGED <<receipt, stock, paid, entered, sent, torn>>
      PROVE  PurchaseInv'
  <2> DEFINE t == [Hand(op, "insert") EXCEPT !.value = value]
  <2>1. t \in Task /\ Possible(t) /\ t.op = op /\ t.at = "insert"
    BY OrderFacts DEF Hand, Task, Possible, Stages
  <2>2. hand[h].op = "none" /\ hand' = [hand EXCEPT ![h] = t]
    BY <1>1, <1>3 DEF Begins
  <2> HIDE DEF t
  <2> QED BY <1>3, <2>1, <2>2, OtherKeeps DEF Moving
<1>4. ASSUME NEW d \in Deltas, BeginMove(h, d) PROVE PurchaseInv'
  BY <1>3, <1>4, PurchasingAssumption DEF BeginMove
<1>5. ASSUME NEW counted \in Counts, BeginCount(h, counted) PROVE PurchaseInv'
  <2>1. CountToDelta(counted, stock.level) \in Int
    BY <1>2, PurchasingAssumption DEF CountToDelta
  <2> QED BY <1>3, <1>5, <2>1 DEF BeginCount
<1>6. CASE BeginRebuild(h)
  <2> DEFINE t == [Hand("rebuild", "write") EXCEPT !.value = stock.journal, !.clean = Adding = {}]
  <2>1. t \in Task /\ Possible(t) /\ t.op = "rebuild" /\ t.at = "write"
        /\ t.value = stock.journal /\ t.clean = (Adding = {})
    BY <1>2, OrderFacts DEF Hand, Task, Possible, Stages
  <2>2. hand[h].op = "none" /\ hand' = [hand EXCEPT ![h] = t]
        /\ UNCHANGED <<receipt, stock, paid, entered, sent, torn>>
    BY <1>1, <1>6 DEF BeginRebuild
  <2> HIDE DEF t
  <2> QED BY <2>1, <2>2, OtherKeeps DEF Moving
<1> QED BY <1>4, <1>5, <1>6

LEMMA WriteLevelKeeps == ASSUME PurchaseInv, NEW h \in Hands, WriteLevel(h) PROVE PurchaseInv'
<1>1. /\ hand[h].op = "rebuild" /\ hand' = [hand EXCEPT ![h] = Free]
      /\ stock' = [stock EXCEPT !.level = hand[h].value]
      /\ torn' = IF hand[h].clean THEN torn \ {"level"} ELSE torn \cup {"level"}
      /\ UNCHANGED <<receipt, paid, entered, sent>>
  BY DEF WriteLevel, At, Frees
<1>2. hand[h] \in Task /\ hand[h].value \in Int
  BY <1>1, HandFacts DEF PurchaseInv, Task
<1>3. /\ hand' \in [Hands -> Task \cup {Free}] /\ hand'[h] = Free
      /\ \A g \in Hands \ {h} : hand'[g] = hand[g]
      /\ \A g \in Hands : hand'[g] # Free => Possible(hand'[g])
  BY <1>1, Moved DEF PurchaseInv
<1>4. /\ stock' \in [journal : Int, level : Int]
      /\ stock'.journal = stock.journal /\ stock'.level = hand[h].value
  BY <1>1, <1>2 DEF PurchaseInv, PurchaseTypes
<1>5. PurchaseTypes'
  BY <1>1, <1>3, <1>4 DEF PurchaseInv, PurchaseTypes
<1>6. Free.op = "none"
  BY DEF Free
<1>7. CostInv'
  BY <1>1, <1>3, <1>6, CostKeeps DEF PurchaseInv, CostInv, Aside
<1>8. EditInv' /\ OnceInv'
  BY <1>1, <1>3, <1>6, StoryKeeps DEF PurchaseInv
<1>9. Adding' = Adding
  BY <1>1, <1>3, <1>6 DEF Adding, Moving
<1>10. RebuildInv'
  BY <1>3, <1>4, <1>6, <1>9 DEF PurchaseInv, LevelInv, RebuildInv
<1>11. LevelIsSum'
  <2>1. CASE hand[h].clean
    <3>1. hand[h].value = stock.journal /\ Adding = {}
      BY <1>1, <2>1 DEF PurchaseInv, LevelInv, RebuildInv
    <3>2. \A g \in Hands : OnTheWay(g)' = 0
      BY <1>9, <3>1 DEF OnTheWay
    <3>3. SumFunction([g \in Hands |-> OnTheWay(g)'])  = 0
      BY <3>2, SumZeros, PurchasingAssumption DEF SumFunction
    <3> QED BY <1>2, <1>4, <3>1, <3>3 DEF LevelIsSum
  <2>2. CASE ~hand[h].clean
    BY <1>1, <2>2 DEF LevelIsSum
  <2> QED BY <2>1, <2>2
<1> QED BY <1>5, <1>7, <1>8, <1>10, <1>11 DEF PurchaseInv, LevelInv

LEMMA PullKeeps == ASSUME PurchaseInv, NEW cost \in Costs, PullCost(cost) PROVE PurchaseInv'
<1>1. paid' = cost /\ UNCHANGED <<receipt, stock, entered, sent, hand, torn>>
  BY DEF PullCost
<1>2. cost \in Paid /\ cost \in Nat
  BY PurchasingAssumption DEF Paid
<1>3. PurchaseTypes'
  BY <1>1, <1>2 DEF PurchaseInv, PurchaseTypes
<1>4. CostInv'
  BY <1>1, <1>2, PaidRange DEF PurchaseInv, CostInv, Receiving
<1>5. LevelInv'
  BY <1>1 DEF PurchaseInv, LevelInv, RebuildInv, LevelIsSum, OnTheWay, Adding, Moving, Delta, Line
<1>6. EditInv' /\ OnceInv'
  BY <1>1, StoryKeeps DEF PurchaseInv
<1> QED BY <1>3, <1>4, <1>5, <1>6 DEF PurchaseInv

LEMMA DieKeeps == ASSUME PurchaseInv, Die PROVE PurchaseInv'
<1>1. /\ hand' = [h \in Hands |-> Free] /\ UNCHANGED <<receipt, stock, paid, entered, sent>>
      /\ torn' = torn \cup (IF Adding # {} THEN {"level"} ELSE {})
                     \cup (IF Receiving # {} THEN {"twice"} ELSE {})
                     \cup (IF Editing # {} THEN {"edited"} ELSE {})
  BY DEF Die
<1>2. Receiving' = {} /\ Editing' = {} /\ Adding' = {} /\ \A h \in Hands : hand'[h].op = "none"
  BY <1>1 DEF Receiving, Editing, Adding, Moving, Free
<1>3. PurchaseTypes'
  BY <1>1 DEF PurchaseInv, PurchaseTypes
<1>4. CostInv'
  BY <1>1, <1>2 DEF PurchaseInv, CostInv
<1>5. LevelInv'
  <2>1. CASE Adding = {}
    <3>1. \A g \in Hands : OnTheWay(g)' = OnTheWay(g)
      BY <1>2, <2>1 DEF OnTheWay
    <3>2. LevelIsSum'
      BY <1>1, <3>1 DEF PurchaseInv, LevelInv, LevelIsSum
    <3> QED BY <1>2, <3>2 DEF LevelInv, RebuildInv
  <2>2. CASE Adding # {}
    BY <1>1, <1>2, <2>2 DEF LevelInv, RebuildInv, LevelIsSum
  <2> QED BY <2>1, <2>2
<1>6. EditInv'
  BY <1>1, <1>2 DEF PurchaseInv, EditInv, ReceivedIsIn
<1>7. OnceInv'
  BY <1>1, <1>2 DEF PurchaseInv, OnceInv, Settled
<1> QED BY <1>3, <1>4, <1>5, <1>6, <1>7 DEF PurchaseInv

----------------------------------------------------------------------------
(* A movement: its row, then the level.                                    *)

LEMMA MovementFacts ==
  ASSUME PurchaseInv, NEW h \in Hands, Moving(h)
  PROVE  /\ hand[h] \in Task /\ Possible(hand[h])
         /\ hand[h].at # "items" => Delta(h) \in Int
         /\ hand[h].op = "receive" /\ hand[h].at # "items" =>
              /\ Line(h) \in hand[h].left /\ Line(h) \in DOMAIN hand[h].lines
              /\ Line(h) \in Lines /\ hand[h].lines[Line(h)] \in Offers
<1>1. hand[h] \in Task /\ Possible(hand[h])
  BY HandFacts DEF Moving, PurchaseInv
<1>2. ASSUME hand[h].op = "receive", hand[h].at # "items"
      PROVE  /\ Line(h) \in hand[h].left /\ Line(h) \in DOMAIN hand[h].lines
             /\ Line(h) \in Lines /\ hand[h].lines[Line(h)] \in Offers
  <2>1. /\ hand[h].left # {} /\ hand[h].left \subseteq DOMAIN hand[h].lines
        /\ hand[h].left \subseteq Lines /\ hand[h].lines \in Orders
    BY <1>1, <1>2 DEF Possible, Task
  <2>2. Lines \subseteq Nat
    BY DEF Lines
  <2>3. Line(h) \in hand[h].left
    BY <2>1, <2>2, LeastIs DEF Line
  <2> QED BY <2>1, <2>3, OrderFacts
<1>3. hand[h].at # "items" => Delta(h) \in Int
  <2>1. hand[h].op = "receive" /\ hand[h].at # "items" => hand[h].lines[Line(h)].qty \in Int
    BY <1>2, PurchasingAssumption
  <2>2. hand[h].value \in Int
    BY <1>1 DEF Task
  <2> QED BY <2>1, <2>2 DEF Delta
<1> QED BY <1>1, <1>2, <1>3

\* What Soiled changes: the hand, and of a rebuilding that it is no longer clean.
LEMMA SoiledFacts ==
  ASSUME PurchaseTypes, NEW h \in Hands, NEW t, (t \in Task /\ Possible(t)) \/ t = Free,
         hand' = Soiled(h, t)
  PROVE  /\ hand' \in [Hands -> Task \cup {Free}] /\ hand'[h] = t
         /\ \A g \in Hands : hand'[g] # Free => Possible(hand'[g])
         /\ \A g \in Hands \ {h} :
              /\ hand[g].op # "rebuild" => hand'[g] = hand[g]
              /\ hand[g].op = "rebuild" => hand'[g].op = "rebuild" /\ ~hand'[g].clean
<1>1. /\ DOMAIN hand' = Hands /\ hand'[h] = t
      /\ \A g \in Hands \ {h} :
           hand'[g] = IF hand[g].op = "rebuild" THEN [hand[g] EXCEPT !.clean = FALSE] ELSE hand[g]
  BY DEF Soiled
<1>2. ASSUME NEW g \in Hands \ {h}, hand[g].op = "rebuild"
      PROVE  hand'[g] \in Task /\ Possible(hand'[g]) /\ hand'[g].op = "rebuild" /\ ~hand'[g].clean
  <2>1. hand[g] \in Task /\ Possible(hand[g])
    BY <1>2, HandFacts
  <2>2. hand'[g] = [hand[g] EXCEPT !.clean = FALSE]
    BY <1>1, <1>2
  <2>3. hand'[g] \in Task /\ hand'[g].op = "rebuild" /\ ~hand'[g].clean
    BY <1>2, <2>1, <2>2 DEF Task
  <2>4. /\ hand'[g].at = hand[g].at /\ hand'[g].op = hand[g].op /\ hand'[g].lines = hand[g].lines
        /\ hand'[g].left = hand[g].left /\ hand'[g].value = hand[g].value
    BY <2>1, <2>2 DEF Task
  <2> QED BY <2>1, <2>3, <2>4 DEF Possible
<1>3. ASSUME NEW g \in Hands \ {h}, hand[g].op # "rebuild" PROVE hand'[g] = hand[g]
  BY <1>1, <1>3
<1>4. \A g \in Hands : hand'[g] \in Task \cup {Free} /\ (hand'[g] # Free => Possible(hand'[g]))
  BY <1>1, <1>2, <1>3 DEF PurchaseTypes
<1>5. hand' \in [Hands -> Task \cup {Free}]
  <2>1. hand' = [g \in Hands |-> hand'[g]]
    BY DEF Soiled
  <2> QED BY <1>4, <2>1
<1> QED BY <1>1, <1>2, <1>3, <1>4, <1>5

\* A movement starts or ends: the journal or the level takes what is on the way.
LEMMA LevelMoves ==
  ASSUME PurchaseInv, NEW h \in Hands, Moving(h), UNCHANGED torn, stock' \in [journal : Int, level : Int],
         NEW t, hand'[h] = t, t.op # "rebuild", Delta(h) \in Int,
         \A g \in Hands \ {h} :
           /\ hand[g].op # "rebuild" => hand'[g] = hand[g]
           /\ hand[g].op = "rebuild" => hand'[g].op = "rebuild" /\ ~hand'[g].clean,
         \/ /\ hand[h].at # "level" /\ h \in Adding' /\ Delta(h)' = Delta(h)
            /\ stock'.journal = stock.journal + Delta(h) /\ stock'.level = stock.level
         \/ /\ hand[h].at = "level" /\ h \notin Adding'
            /\ stock'.journal = stock.journal /\ stock'.level = stock.level + Delta(h)
  PROVE  LevelInv'
<1> DEFINE f == [g \in Hands |-> OnTheWay(g)]
           k == [g \in Hands |-> OnTheWay(g)']
<1>1. \A g \in Hands \ {h} : OnTheWay(g)' = OnTheWay(g)
  BY DEF OnTheWay, Adding, Moving, Delta, Line
<1>2. \A g \in Hands : OnTheWay(g) \in Int
  <2> SUFFICES ASSUME NEW g \in Hands, g \in Adding PROVE Delta(g) \in Int
    BY DEF OnTheWay
  <2> QED BY MovementFacts DEF Adding
<1>3. OnTheWay(h)' \in Int /\ OnTheWay(h)' - OnTheWay(h) = stock'.journal - stock.journal - (stock'.level - stock.level)
  BY DEF OnTheWay, Adding, PurchaseInv, PurchaseTypes
<1>4. /\ DOMAIN f = Hands /\ DOMAIN k = Hands
      /\ \A g \in Hands : f[g] = OnTheWay(g) /\ k[g] = OnTheWay(g)' /\ f[g] \in Int /\ k[g] \in Int
  BY <1>1, <1>2, <1>3
<1> HIDE DEF f, k
<1>5. SumFunctionOnSet(k, Hands) = SumFunctionOnSet(f, Hands) + k[h] - f[h]
  BY <1>1, <1>4, SumPut, PurchasingAssumption
<1>6. SumFunctionOnSet(f, Hands) \in Int
  BY <1>4, SumType, PurchasingAssumption
<1>7. LevelIsSum'
  <2>1. LevelIsSum' <=> ("level" \notin torn => stock'.journal = stock'.level + SumFunctionOnSet(k, Hands))
    BY <1>4 DEF LevelIsSum, SumFunction, k
  <2>2. LevelIsSum <=> ("level" \notin torn => stock.journal = stock.level + SumFunctionOnSet(f, Hands))
    BY <1>4 DEF LevelIsSum, SumFunction, f
  <2>3. stock.journal \in Int /\ stock.level \in Int /\ stock'.journal \in Int /\ stock'.level \in Int
    BY DEF PurchaseInv, PurchaseTypes
  <2>4. LevelIsSum
    BY DEF PurchaseInv, LevelInv
  <2> QED BY <1>3, <1>4, <1>5, <1>6, <2>1, <2>2, <2>3, <2>4
<1>8. RebuildInv'
  BY DEF RebuildInv
<1> QED BY <1>7, <1>8 DEF LevelInv

----------------------------------------------------------------------------
(* The steps of a reception.                                               *)

LEMMA StoredIn ==
  ASSUME PurchaseTypes
  PROVE  \A g \in Receiving : Stored(hand[g]) \subseteq Lines /\ Stored(hand[g]) \subseteq DOMAIN hand[g].lines
<1> SUFFICES ASSUME NEW g \in Receiving
             PROVE  Stored(hand[g]) \subseteq Lines /\ Stored(hand[g]) \subseteq DOMAIN hand[g].lines
  OBVIOUS
<1>1. g \in Hands /\ hand[g].op = "receive"
  BY DEF Receiving
<1>2. hand[g] \in Task /\ Possible(hand[g])
  BY <1>1, HandFacts
<1>3. hand[g].lines \in Orders /\ hand[g].left \subseteq DOMAIN hand[g].lines
  BY <1>2 DEF Task, Possible
<1>4. DOMAIN hand[g].lines \subseteq Lines /\ Lines \subseteq Nat
  BY <1>3, OrderFacts DEF Lines
<1>5. hand[g].at # "items" => Min(hand[g].left) \in hand[g].left
  BY <1>1, <1>2, <1>3, <1>4, LeastIs DEF Possible
<1> QED BY <1>3, <1>4, <1>5 DEF Stored

\* A step of a reception, from what it does to the hand, the stock, the cost and the receipt.
LEMMA ReceptionStep ==
  ASSUME PurchaseInv, NEW h \in Receiving, NEW t, (t \in Task /\ Possible(t)) \/ t = Free,
         hand'[h] = t, hand' \in [Hands -> Task \cup {Free}],
         \A g \in Hands : hand'[g] # Free => Possible(hand'[g]),
         \A g \in Hands \ {h} : Aside(g), UNCHANGED torn,
         t # Free => t.op = "receive", LevelInv', stock' \in [journal : Int, level : Int],
         paid' \in Min(Paid)..Max(Paid),
         t # Free /\ t.at \in {"average", "writeCost"} => t.value \in Min(Paid)..Max(Paid),
         receipt' = receipt \/ receipt' = [receipt EXCEPT !.status = "received"],
         entered' \in [Lines -> Nat], \A l \in Lines : entered[l] <= entered'[l],
         sent' \subseteq Lines \cup {0},
         t # Free /\ "edited" \notin torn => Holds(h)',
         receipt'.status = "received" /\ "edited" \notin torn =>
           receipt.status = "received" \/ \A l \in DOMAIN receipt.lines : entered'[l] >= 1,
         torn \cap {"twice", "edited"} = {} => (t = Free /\ Settled') \/ (t # Free /\ Shows(h)')
  PROVE  PurchaseInv'
<1>1. h \in Hands /\ paid' \in Nat
  <2>1. Min(Paid) \in Nat /\ Max(Paid) \in Nat
    BY PaidRange DEF PurchaseInv, CostInv
  <2> QED BY <2>1 DEF Receiving
<1>2. /\ receipt'.lines = receipt.lines /\ receipt'.total = receipt.total
      /\ receipt' \in [status : {"none", "draft", "received"}, total : Nat, lines : Orders]
  BY DEF PurchaseInv, PurchaseTypes
<1>3. PurchaseTypes'
  BY <1>1, <1>2 DEF PurchaseInv, PurchaseTypes
<1>4. Free.op = "none" /\ (t # Free => t.op = "receive")
  BY DEF Free
<1>5. CostInv'
  BY <1>1, <1>4, CostKeeps DEF PurchaseInv
<1>6. EditInv'
  <2>1. DOMAIN receipt.lines \subseteq Lines
    BY OrderFacts DEF PurchaseInv, PurchaseTypes
  <2>2. \A g \in Receiving : Stored(hand[g]) \subseteq Lines
    BY StoredIn DEF PurchaseInv
  <2>3. \A l \in Lines : entered[l] \in Nat /\ entered'[l] \in Nat /\ entered[l] <= entered'[l]
    BY DEF PurchaseInv, PurchaseTypes
  <2> QED BY <1>2, <1>4, <2>1, <2>2, <2>3, ReceptionKeeps DEF PurchaseInv
<1>7. OnceInv'
  BY <1>4, ReceptionShows DEF PurchaseInv
<1> QED BY <1>3, <1>5, <1>6, <1>7 DEF PurchaseInv

\* What is known of a reception that goes on.
LEMMA ReceptionFacts ==
  ASSUME PurchaseInv, NEW h \in Hands, hand[h].op = "receive"
  PROVE  /\ h \in Receiving /\ hand[h] \in Task /\ Possible(hand[h]) /\ PurchaseTypes
         /\ "edited" \notin torn => Holds(h)
         /\ torn \cap {"twice", "edited"} = {} => Shows(h)
         /\ paid \in Min(Paid)..Max(Paid)
         /\ hand[h].at \in {"average", "writeCost"} => hand[h].value \in Min(Paid)..Max(Paid)
         /\ hand[h].at # "items" =>
              /\ Line(h) \in hand[h].left /\ Line(h) \in DOMAIN hand[h].lines
              /\ Line(h) \in Lines /\ hand[h].lines[Line(h)] \in Offers
         /\ hand[h].left \subseteq DOMAIN hand[h].lines /\ hand[h].lines \in Orders
<1>1. h \in Receiving
  BY DEF Receiving
<1>2. /\ hand[h] \in Task /\ Possible(hand[h]) 
      /\ hand[h].at # "items" =>
              /\ Line(h) \in hand[h].left /\ Line(h) \in DOMAIN hand[h].lines
              /\ Line(h) \in Lines /\ hand[h].lines[Line(h)] \in Offers
  BY MovementFacts DEF Moving
<1> QED BY <1>1, <1>2 DEF PurchaseInv, EditInv, OnceInv, CostInv, Task, Possible

\* A reception that goes on without the stock, the level of its article and the cost.
LEMMA ReceptionTurns ==
  ASSUME PurchaseInv, NEW h \in Hands, hand[h].op = "receive", NEW t,
         (t \in Task /\ Possible(t)) \/ t = Free,
         hand' = [hand EXCEPT ![h] = t], UNCHANGED <<stock, entered, torn>>,
         t # Free => t.op = "receive", hand[h].at # "level", t # Free => t.at # "level",
         paid' \in Min(Paid)..Max(Paid),
         t # Free /\ t.at \in {"average", "writeCost"} => t.value \in Min(Paid)..Max(Paid),
         receipt' = receipt \/ receipt' = [receipt EXCEPT !.status = "received"],
         sent' \subseteq Lines \cup {0},
         t # Free /\ "edited" \notin torn => Holds(h)',
         receipt'.status = "received" /\ "edited" \notin torn =>
           receipt.status = "received" \/ \A l \in DOMAIN receipt.lines : entered[l] >= 1,
         torn \cap {"twice", "edited"} = {} => (t = Free /\ Settled') \/ (t # Free /\ Shows(h)')
  PROVE  PurchaseInv'
<1>1. h \in Receiving /\ PurchaseTypes /\ LevelInv
  BY DEF Receiving, PurchaseInv
<1>2. /\ hand' \in [Hands -> Task \cup {Free}] /\ hand'[h] = t
      /\ \A g \in Hands \ {h} : hand'[g] = hand[g]
      /\ \A g \in Hands : hand'[g] # Free => Possible(hand'[g])
  BY <1>1, Moved
<1>3. Free.op = "none"
  BY DEF Free
<1>4. LevelInv'
  BY <1>1, <1>2, <1>3, LevelKeeps DEF Moving
<1>5. /\ stock' \in [journal : Int, level : Int] /\ entered' \in [Lines -> Nat]
      /\ \A l \in Lines : entered[l] <= entered'[l]
  BY <1>1 DEF PurchaseTypes
<1>6. \A g \in Hands \ {h} : Aside(g)
  BY <1>2 DEF Aside
<1>7. \A l \in DOMAIN receipt.lines : entered'[l] = entered[l]
  OBVIOUS
<1> QED BY <1>1, <1>2, <1>4, <1>5, <1>6, <1>7, ReceptionStep

LEMMA BeginReceiveKeeps == ASSUME PurchaseInv, NEW h \in Hands, BeginReceive(h) PROVE PurchaseInv'
<1> DEFINE t == [Hand("receive", "items") EXCEPT !.value = 0]
<1>1. /\ receipt.status = "draft" /\ hand[h] = Free /\ hand' = [hand EXCEPT ![h] = t]
      /\ torn' = torn \cup (IF Editing # {} THEN {"edited"} ELSE {})
                      \cup (IF Receiving # {} THEN {"twice"} ELSE {})
      /\ UNCHANGED <<receipt, stock, paid, entered, sent>>
  BY DEF BeginReceive, Begins
<1>2. /\ t \in Task /\ Possible(t) /\ t.op = "receive" /\ t.at = "items" /\ t # Free
      /\ Free.op = "none"
  <2>1. t \in Task /\ t.op = "receive" /\ t.at = "items" /\ t.left = {}
    <3> DEFINE u == Hand("receive", "items")
    <3>1. u \in Task /\ u.op = "receive" /\ u.at = "items" /\ u.left = {}
      BY HandTask
    <3>2. t = [u EXCEPT !.value = 0]
      OBVIOUS
    <3> HIDE DEF u, t
    <3> QED BY <3>1, <3>2 DEF Task
  <2> HIDE DEF t
  <2> QED BY <2>1, TaskNotFree DEF Possible, Stages, Free
<1> HIDE DEF t
<1>3. /\ hand' \in [Hands -> Task \cup {Free}] /\ hand'[h] = t
      /\ \A g \in Hands \ {h} : hand'[g] = hand[g]
      /\ \A g \in Hands : hand'[g] # Free => Possible(hand'[g])
  BY <1>1, <1>2, Moved DEF PurchaseInv
<1>4. PurchaseTypes'
  BY <1>1, <1>3 DEF PurchaseInv, PurchaseTypes
<1>5. LevelInv'
  BY <1>1, <1>2, <1>3, LevelKeeps DEF PurchaseInv, Moving
<1>6. CostInv'
  BY <1>1, <1>2, <1>3, CostKeeps DEF PurchaseInv, CostInv, Aside
<1>7. Receiving' = Receiving \cup {h} /\ Editing' = Editing /\ h \notin Receiving
  BY <1>1, <1>2, <1>3 DEF Receiving, Editing
<1>8. \A g \in Receiving \cup Editing : hand'[g] = hand[g]
  BY <1>1, <1>2, <1>3 DEF Receiving, Editing
<1>9. Stored(hand'[h]) = {}
  BY <1>2, <1>3 DEF Stored
<1>10. EditInv'
  <2> SUFFICES ASSUME "edited" \notin torn' PROVE EditInv'
    BY DEF EditInv
  <2>1. Editing = {} /\ "edited" \notin torn
    BY <1>1
  <2>2. \A g \in Receiving' : Holds(g)'
    BY <1>1, <1>2, <1>3, <1>7, <1>8, <1>9, <2>1 DEF PurchaseInv, EditInv, Holds
  <2> QED BY <1>1, <1>7, <2>1, <2>2 DEF PurchaseInv, EditInv, ReceivedIsIn
<1>11. OnceInv'
  <2> SUFFICES ASSUME torn' \cap {"twice", "edited"} = {} PROVE OnceInv'
    BY DEF OnceInv
  <2>1. Receiving = {} /\ torn \cap {"twice", "edited"} = {}
    BY <1>1
  <2>2. sent = {} /\ \A l \in Lines : entered[l] = 0
    BY <1>1, <2>1 DEF PurchaseInv, OnceInv, Settled
  <2>3. Shows(h)'
    BY <1>1, <1>2, <1>3, <1>9, <2>2 DEF Shows
  <2> QED BY <1>7, <2>1, <2>3 DEF OnceInv
<1> QED BY <1>4, <1>5, <1>6, <1>10, <1>11 DEF PurchaseInv

LEMMA ReadItemsKeeps == ASSUME PurchaseInv, NEW h \in Hands, ReadItems(h) PROVE PurchaseInv'
<1>1. /\ hand[h].op = "receive" /\ hand[h].at = "items"
      /\ IF receipt.lines = NoLines THEN hand' = [hand EXCEPT ![h] = Free]
         ELSE hand' = [hand EXCEPT ![h].lines = receipt.lines, ![h].at = "insert",
                                   ![h].left = DOMAIN receipt.lines]
      /\ UNCHANGED <<receipt, stock, paid, entered, sent, torn>>
  BY DEF ReadItems, At, Receiving, Frees
<1>2. /\ hand[h] \in Task /\ Possible(hand[h]) /\ paid \in Min(Paid)..Max(Paid)
      /\ torn \cap {"twice", "edited"} = {} => Shows(h)
  BY <1>1, ReceptionFacts
<1>3. torn \cap {"twice", "edited"} = {} =>
        receipt.status # "received" /\ sent = {} /\ \A l \in Lines : entered[l] = 0
  BY <1>1, <1>2 DEF Shows, Stored
<1>4. sent' \subseteq Lines \cup {0} /\ receipt.lines \in Orders
  BY <1>1 DEF PurchaseInv, PurchaseTypes
<1>5. CASE receipt.lines = NoLines
  <2>1. Settled' <=> Settled
    BY <1>1 DEF Settled
  <2>2. torn \cap {"twice", "edited"} = {} => Settled'
    BY <1>3, <2>1 DEF Settled
  <2> QED BY <1>1, <1>2, <1>4, <1>5, <2>2, ReceptionTurns
<1>6. CASE receipt.lines # NoLines
  <2> DEFINE t == [hand[h] EXCEPT !.lines = receipt.lines, !.at = "insert", !.left = DOMAIN receipt.lines]
  <2>1. DOMAIN receipt.lines \subseteq Lines /\ DOMAIN receipt.lines # {}
    BY <1>4, <1>6, OrderFacts
  <2>2. /\ t \in Task /\ t.op = "receive" /\ t.at = "insert" /\ t.lines = receipt.lines
        /\ t.left = DOMAIN receipt.lines
    BY <1>1, <1>2, <1>4, <2>1 DEF Task
  <2>3. hand' = [hand EXCEPT ![h] = t] /\ hand'[h] = t
    BY <1>1, <1>6 DEF PurchaseInv, PurchaseTypes
  <2> HIDE DEF t
  <2>4. Possible(t) /\ Stored(t) = {} /\ t # Free
    BY <2>1, <2>2, TaskNotFree DEF Possible, Stages, Stored
  <2>5. Holds(h)'
    BY <1>1, <2>2, <2>3, <2>4 DEF Holds
  <2>6. torn \cap {"twice", "edited"} = {} => Shows(h)'
    BY <1>1, <1>3, <2>2, <2>3, <2>4 DEF Shows
  <2> QED BY <1>1, <1>2, <1>4, <2>2, <2>3, <2>4, <2>5, <2>6, ReceptionTurns
<1> QED BY <1>5, <1>6

LEMMA ReadCostKeeps == ASSUME PurchaseInv, NEW h \in Hands, ReadCost(h) PROVE PurchaseInv'
<1> DEFINE t == [hand[h] EXCEPT !.value = paid, !.at = "average"]
<1>1. /\ hand[h].op # "none" /\ hand[h].at = "cost"
      /\ hand' = [hand EXCEPT ![h].value = paid, ![h].at = "average"]
      /\ UNCHANGED <<receipt, stock, paid, entered, sent, torn>>
  BY DEF ReadCost, At
<1>2. hand[h].op = "receive"
  BY <1>1, HandFacts DEF PurchaseInv, Possible, Stages, Task
<1>3. /\ hand[h] \in Task /\ Possible(hand[h]) /\ paid \in Min(Paid)..Max(Paid)
      /\ "edited" \notin torn => Holds(h)
      /\ torn \cap {"twice", "edited"} = {} => Shows(h)
  BY <1>2, ReceptionFacts
<1>4. sent' \subseteq Lines \cup {0} /\ paid \in Nat
  BY <1>1 DEF PurchaseInv, PurchaseTypes
<1>5. /\ t \in Task /\ t.op = "receive" /\ t.at = "average" /\ t.value = paid
      /\ t.lines = hand[h].lines /\ t.left = hand[h].left
  <2>1. paid \in Int
    BY <1>4
  <2> QED BY <1>2, <1>3, <2>1 DEF Task
<1>6. hand' = [hand EXCEPT ![h] = t] /\ hand'[h] = t
  BY <1>1 DEF PurchaseInv, PurchaseTypes
<1> HIDE DEF t
<1>7. Possible(t) /\ Stored(t) = Stored(hand[h]) /\ t # Free
  BY <1>1, <1>2, <1>3, <1>5, TaskNotFree DEF Possible, Stages, Stored
<1>8. "edited" \notin torn => Holds(h)'
  BY <1>1, <1>3, <1>5, <1>6, <1>7 DEF Holds
<1>9. torn \cap {"twice", "edited"} = {} => Shows(h)'
  BY <1>1, <1>3, <1>5, <1>6, <1>7 DEF Shows
<1> QED BY <1>1, <1>2, <1>3, <1>4, <1>5, <1>6, <1>7, <1>8, <1>9, ReceptionTurns

\* What follows a line has as much in stock as the line had.
LEMMA LineDoneFacts ==
  ASSUME PurchaseInv, NEW h \in Hands, hand[h].op = "receive", hand[h].at \in {"average", "writeCost"},
         hand' = LineDone(h, "status")
  PROVE  \E t \in Task :
           /\ Possible(t) /\ hand' = [hand EXCEPT ![h] = t] /\ hand'[h] = t /\ t.op = "receive"
           /\ t.at \in {"insert", "status"} /\ t.lines = hand[h].lines
           /\ Stored(t) = Stored(hand[h]) /\ (t.at = "status" => t.left = DOMAIN t.lines)
<1> DEFINE left == hand[h].left \ {Line(h)}
           rest == IF left # {} THEN left ELSE DOMAIN hand[h].lines
           at == IF left # {} THEN "insert" ELSE "status"
           t == [hand[h] EXCEPT !.left = rest, !.at = at]
<1>1. /\ hand[h] \in Task /\ Possible(hand[h]) /\ Line(h) \in hand[h].left
      /\ Line(h) \in DOMAIN hand[h].lines /\ hand[h].left \subseteq DOMAIN hand[h].lines
      /\ hand[h].lines \in Orders
  BY ReceptionFacts
<1>2. hand' = [hand EXCEPT ![h].left = rest, ![h].at = at]
  BY DEF LineDone
<1>3. rest \subseteq DOMAIN hand[h].lines /\ rest # {} /\ DOMAIN hand[h].lines \subseteq Lines
  BY <1>1, OrderFacts
<1>4. Stored(hand[h]) = (DOMAIN hand[h].lines \ hand[h].left) \cup {Line(h)}
  BY DEF Stored, Line
<1>5. Stored(hand[h]) = IF left # {} THEN DOMAIN hand[h].lines \ left ELSE DOMAIN hand[h].lines
  BY <1>1, <1>4
<1>6. left # {} => rest = left /\ at = "insert"
  OBVIOUS
<1>7. left = {} => rest = DOMAIN hand[h].lines /\ at = "status"
  OBVIOUS
<1> HIDE DEF left, rest, at
<1>8. /\ t \in Task /\ t.op = "receive" /\ t.at = at /\ t.left = rest /\ t.lines = hand[h].lines
  BY <1>1, <1>3, <1>6, <1>7 DEF Task
<1>9. hand' = [hand EXCEPT ![h] = t] /\ hand'[h] = t
  BY <1>2 DEF PurchaseInv, PurchaseTypes
<1> HIDE DEF t
<1>10. Possible(t)
  BY <1>3, <1>6, <1>7, <1>8 DEF Possible, Stages
<1>11. Stored(t) = Stored(hand[h])
  BY <1>5, <1>6, <1>7, <1>8 DEF Stored
<1> QED BY <1>6, <1>7, <1>8, <1>9, <1>10, <1>11

LEMMA LineDoneKeeps ==
  ASSUME PurchaseInv, NEW h \in Hands, hand[h].op = "receive", hand[h].at \in {"average", "writeCost"},
         hand' = LineDone(h, "status"), paid' \in Min(Paid)..Max(Paid),
         UNCHANGED <<receipt, stock, entered, sent, torn>>
  PROVE  PurchaseInv'
<1>1. PICK t \in Task :
        /\ Possible(t) /\ hand' = [hand EXCEPT ![h] = t] /\ hand'[h] = t /\ t.op = "receive"
        /\ t.at \in {"insert", "status"} /\ t.lines = hand[h].lines
        /\ Stored(t) = Stored(hand[h]) /\ (t.at = "status" => t.left = DOMAIN t.lines)
  BY LineDoneFacts
<1>2. /\ "edited" \notin torn => Holds(h)
      /\ torn \cap {"twice", "edited"} = {} => Shows(h)
  BY ReceptionFacts
<1>3. "edited" \notin torn => Holds(h)'
  BY <1>1, <1>2 DEF Holds
<1>4. torn \cap {"twice", "edited"} = {} => Shows(h)'
  BY <1>1, <1>2 DEF Shows
<1>5. sent' \subseteq Lines \cup {0} /\ t # Free
  BY <1>1, TaskNotFree DEF PurchaseInv, PurchaseTypes
<1> QED BY <1>1, <1>3, <1>4, <1>5, ReceptionTurns

LEMMA AverageKeeps == ASSUME PurchaseInv, NEW h \in Hands, Average(h) PROVE PurchaseInv'
<1> DEFINE line == hand[h].lines[Line(h)]
           cost == AverageCost(stock.level - line.qty, hand[h].value, line)
           t == [hand[h] EXCEPT !.value = cost, !.at = "writeCost"]
<1>1. /\ hand[h].op # "none" /\ hand[h].at = "average"
      /\ IF cost = hand[h].value THEN hand' = LineDone(h, "status")
         ELSE hand' = [hand EXCEPT ![h].value = cost, ![h].at = "writeCost"]
      /\ UNCHANGED <<receipt, stock, paid, entered, sent, torn>>
  BY DEF Average, At
<1>2. hand[h].op = "receive"
  BY <1>1, HandFacts DEF PurchaseInv, Possible, Stages, Task
<1>3. /\ hand[h] \in Task /\ Possible(hand[h]) /\ paid \in Min(Paid)..Max(Paid)
      /\ hand[h].value \in Min(Paid)..Max(Paid) /\ line \in Offers
      /\ "edited" \notin torn => Holds(h)
      /\ torn \cap {"twice", "edited"} = {} => Shows(h)
  BY <1>1, <1>2, ReceptionFacts
<1>4. cost \in Min(Paid)..Max(Paid) /\ cost \in Int
  <2> DEFINE lo == Min(Paid)  hi == Max(Paid)  now == stock.level - line.qty
  <2>1. lo \in Nat /\ hi \in Nat /\ \A x \in Paid : x \in lo..hi
    BY PaidRange DEF PurchaseInv, CostInv
  <2>2. line \in [qty : Nat \ {0}, cost : Nat] /\ line.cost \in Paid
    BY <1>3, PurchasingAssumption DEF Paid
  <2>3. line \in [qty : Nat \ {0}, cost : lo..hi]
    <3> HIDE DEF line, lo, hi
    <3> QED BY <2>1, <2>2
  <2>4. now \in Int
    BY <2>2 DEF PurchaseInv, PurchaseTypes
  <2>5. hand[h].value \in lo..hi
    BY <1>3
  <2> HIDE DEF lo, hi, line, now
  <2>6. AverageCost(now, hand[h].value, line) \in lo..hi
    BY <2>1, <2>3, <2>4, <2>5, AverageBetween
  <2>7. cost \in lo..hi
    BY <2>6 DEF now
  <2> HIDE DEF cost
  <2>8. cost \in Int
    BY <2>1, <2>7
  <2> QED BY <2>7, <2>8 DEF lo, hi
<1>5. CASE cost = hand[h].value
  BY <1>1, <1>2, <1>3, <1>5, LineDoneKeeps
<1>6. CASE cost # hand[h].value
  <2>1. hand' = [hand EXCEPT ![h].value = cost, ![h].at = "writeCost"]
    BY <1>1, <1>6
  <2> HIDE DEF cost, line
  <2>2. /\ t \in Task /\ t.op = "receive" /\ t.at = "writeCost" /\ t.value = cost
        /\ t.lines = hand[h].lines /\ t.left = hand[h].left
    BY <1>2, <1>3, <1>4 DEF Task
  <2>3. hand' = [hand EXCEPT ![h] = t] /\ hand'[h] = t
    BY <2>1 DEF PurchaseInv, PurchaseTypes
  <2> HIDE DEF t
  <2>4. Possible(t) /\ Stored(t) = Stored(hand[h]) /\ t # Free
    BY <1>1, <1>2, <1>3, <2>2, TaskNotFree DEF Possible, Stages, Stored
  <2>5. "edited" \notin torn => Holds(h)'
    BY <1>1, <1>3, <2>2, <2>3, <2>4 DEF Holds
  <2>6. torn \cap {"twice", "edited"} = {} => Shows(h)'
    BY <1>1, <1>3, <2>2, <2>3, <2>4 DEF Shows
  <2>7. sent' \subseteq Lines \cup {0}
    BY <1>1 DEF PurchaseInv, PurchaseTypes
  <2> QED BY <1>1, <1>2, <1>3, <1>4, <2>2, <2>3, <2>4, <2>5, <2>6, <2>7, ReceptionTurns
<1> QED BY <1>5, <1>6

LEMMA WriteCostKeeps == ASSUME PurchaseInv, NEW h \in Hands, WriteCost(h) PROVE PurchaseInv'
<1>1. /\ hand[h].op # "none" /\ hand[h].at = "writeCost" /\ paid' = hand[h].value
      /\ hand' = LineDone(h, "status") /\ UNCHANGED <<receipt, stock, entered, sent, torn>>
  BY DEF WriteCost, At
<1>2. hand[h].op = "receive"
  BY <1>1, HandFacts DEF PurchaseInv, Possible, Stages, Task
<1>3. hand[h].value \in Min(Paid)..Max(Paid)
  BY <1>1, <1>2, ReceptionFacts
<1> QED BY <1>1, <1>2, <1>3, LineDoneKeeps

LEMMA WriteStatusKeeps == ASSUME PurchaseInv, NEW h \in Hands, WriteStatus(h) PROVE PurchaseInv'
<1> DEFINE t == [hand[h] EXCEPT !.at = "queue"]
<1>1. /\ hand[h].op # "none" /\ hand[h].at = "status"
      /\ receipt' = [receipt EXCEPT !.status = "received"] /\ hand' = [hand EXCEPT ![h].at = "queue"]
      /\ UNCHANGED <<stock, paid, entered, sent, torn>>
  BY DEF WriteStatus, At, Turns
<1>2. hand[h].op = "receive"
  BY <1>1, HandFacts DEF PurchaseInv, Possible, Stages, Task
<1>3. /\ hand[h] \in Task /\ Possible(hand[h]) /\ paid \in Min(Paid)..Max(Paid)
      /\ "edited" \notin torn => Holds(h)
      /\ torn \cap {"twice", "edited"} = {} => Shows(h)
  BY <1>2, ReceptionFacts
<1>4. sent' \subseteq Lines \cup {0}
  BY <1>1 DEF PurchaseInv, PurchaseTypes
<1>5. /\ t \in Task /\ t.op = "receive" /\ t.at = "queue"
      /\ t.lines = hand[h].lines /\ t.left = hand[h].left
  BY <1>2, <1>3 DEF Task
<1>6. hand' = [hand EXCEPT ![h] = t] /\ hand'[h] = t
  BY <1>1 DEF PurchaseInv, PurchaseTypes
<1> HIDE DEF t
<1>7. Possible(t) /\ Stored(t) = DOMAIN t.lines /\ Stored(hand[h]) = DOMAIN hand[h].lines /\ t # Free
  BY <1>1, <1>2, <1>3, <1>5, TaskNotFree DEF Possible, Stages, Stored
<1>8. receipt'.lines = receipt.lines /\ receipt'.status = "received"
  BY <1>1 DEF PurchaseInv, PurchaseTypes
<1>9. "edited" \notin torn => Holds(h)' /\ \A l \in DOMAIN receipt.lines : entered[l] >= 1
  BY <1>1, <1>3, <1>5, <1>6, <1>7, <1>8 DEF Holds
<1>10. torn \cap {"twice", "edited"} = {} => Shows(h)'
  BY <1>1, <1>3, <1>5, <1>6, <1>7, <1>8 DEF Shows
<1> QED BY <1>1, <1>2, <1>3, <1>4, <1>5, <1>6, <1>7, <1>9, <1>10, ReceptionTurns

LEMMA EnqueueReceiptKeeps == ASSUME PurchaseInv, NEW h \in Hands, EnqueueReceipt(h) PROVE PurchaseInv'
<1> DEFINE t == [hand[h] EXCEPT !.at = "queueLines"]
<1>1. /\ hand[h].op # "none" /\ hand[h].at = "queue" /\ sent' = sent \cup {0}
      /\ hand' = [hand EXCEPT ![h].at = "queueLines"]
      /\ UNCHANGED <<receipt, stock, paid, entered, torn>>
  BY DEF EnqueueReceipt, At, Turns
<1>2. hand[h].op = "receive"
  BY <1>1, HandFacts DEF PurchaseInv, Possible, Stages, Task
<1>3. /\ hand[h] \in Task /\ Possible(hand[h]) /\ paid \in Min(Paid)..Max(Paid)
      /\ "edited" \notin torn => Holds(h)
      /\ torn \cap {"twice", "edited"} = {} => Shows(h)
  BY <1>2, ReceptionFacts
<1>4. sent' \subseteq Lines \cup {0}
  BY <1>1 DEF PurchaseInv, PurchaseTypes
<1>5. /\ t \in Task /\ t.op = "receive" /\ t.at = "queueLines"
      /\ t.lines = hand[h].lines /\ t.left = hand[h].left
  BY <1>2, <1>3 DEF Task
<1>6. hand' = [hand EXCEPT ![h] = t] /\ hand'[h] = t
  BY <1>1 DEF PurchaseInv, PurchaseTypes
<1> HIDE DEF t
<1>7. Possible(t) /\ Stored(t) = DOMAIN t.lines /\ Stored(hand[h]) = DOMAIN hand[h].lines /\ t # Free
  BY <1>1, <1>2, <1>3, <1>5, TaskNotFree DEF Possible, Stages, Stored
<1>8. "edited" \notin torn => Holds(h)'
  BY <1>1, <1>3, <1>5, <1>6, <1>7 DEF Holds
<1>9. torn \cap {"twice", "edited"} = {} => Shows(h)'
  BY <1>1, <1>3, <1>5, <1>6, <1>7 DEF Shows
<1> QED BY <1>1, <1>2, <1>3, <1>4, <1>5, <1>6, <1>7, <1>8, <1>9, ReceptionTurns

LEMMA EnqueueLineKeeps == ASSUME PurchaseInv, NEW h \in Hands, EnqueueLine(h) PROVE PurchaseInv'
<1>1. /\ hand[h].op # "none" /\ hand[h].at = "queueLines" /\ sent' = sent \cup {Line(h)}
      /\ IF hand[h].left = {Line(h)} THEN hand' = [hand EXCEPT ![h] = Free]
         ELSE hand' = [hand EXCEPT ![h].left = @ \ {Line(h)}]
      /\ UNCHANGED <<receipt, stock, paid, entered, torn>>
  BY DEF EnqueueLine, At, Frees
<1>2. hand[h].op = "receive"
  BY <1>1, HandFacts DEF PurchaseInv, Possible, Stages, Task
<1>3. /\ hand[h] \in Task /\ Possible(hand[h]) /\ paid \in Min(Paid)..Max(Paid)
      /\ "edited" \notin torn => Holds(h)
      /\ torn \cap {"twice", "edited"} = {} => Shows(h)
      /\ Line(h) \in hand[h].left /\ Line(h) \in Lines /\ Line(h) \in DOMAIN hand[h].lines
      /\ hand[h].left \subseteq DOMAIN hand[h].lines
  BY <1>1, <1>2, ReceptionFacts
<1>4. sent' \subseteq Lines \cup {0}
  BY <1>1, <1>3 DEF PurchaseInv, PurchaseTypes
<1>5. Stored(hand[h]) = DOMAIN hand[h].lines
  BY <1>1 DEF Stored
<1>6. torn \cap {"twice", "edited"} = {} =>
        sent' = (DOMAIN hand[h].lines \ (hand[h].left \ {Line(h)})) \cup {0}
  BY <1>1, <1>3 DEF Shows
<1>7. CASE hand[h].left = {Line(h)}
  <2>1. hand' = [hand EXCEPT ![h] = Free]
    BY <1>1, <1>7
  <2>2. torn \cap {"twice", "edited"} = {} => Settled'
    <3> SUFFICES ASSUME torn \cap {"twice", "edited"} = {} PROVE Settled'
      OBVIOUS
    <3>1. hand[h].lines = receipt.lines
      BY <1>1, <1>3 DEF Holds
    <3>2. sent' = DOMAIN receipt.lines \cup {0}
      BY <1>6, <1>7, <3>1
    <3>3. receipt.status = "received" /\ \A l \in Lines : entered[l] = IF l \in DOMAIN receipt.lines THEN 1 ELSE 0
      BY <1>1, <1>3, <1>5, <3>1 DEF Shows
    <3> QED BY <1>1, <3>2, <3>3 DEF Settled
  <2> QED BY <1>1, <1>2, <1>3, <1>4, <2>1, <2>2, ReceptionTurns
<1>8. CASE hand[h].left # {Line(h)}
  <2> DEFINE t == [hand[h] EXCEPT !.left = hand[h].left \ {Line(h)}]
  <2>1. hand' = [hand EXCEPT ![h] = t] /\ hand'[h] = t
    BY <1>1, <1>8 DEF PurchaseInv, PurchaseTypes
  <2>2. /\ t \in Task /\ t.op = "receive" /\ t.at = "queueLines"
        /\ t.lines = hand[h].lines /\ t.left = hand[h].left \ {Line(h)}
    BY <1>1, <1>2, <1>3 DEF Task
  <2>3. t.left # {}
    BY <1>3, <1>8, <2>2
  <2> HIDE DEF t
  <2>4. Possible(t) /\ Stored(t) = DOMAIN t.lines /\ t # Free
    BY <1>1, <1>2, <1>3, <2>2, <2>3, TaskNotFree DEF Possible, Stages, Stored
  <2>5. "edited" \notin torn => Holds(h)'
    BY <1>1, <1>3, <1>5, <2>1, <2>2, <2>4 DEF Holds
  <2>6. torn \cap {"twice", "edited"} = {} => Shows(h)'
    BY <1>1, <1>3, <1>5, <1>6, <2>1, <2>2, <2>4 DEF Shows
  <2> QED BY <1>1, <1>2, <1>3, <1>4, <2>1, <2>2, <2>4, <2>5, <2>6, ReceptionTurns
<1> QED BY <1>7, <1>8

----------------------------------------------------------------------------
(* The two statements of a movement.                                       *)

LEMMA InsertKeeps == ASSUME PurchaseInv, NEW h \in Hands, InsertMovement(h) PROVE PurchaseInv'
<1> DEFINE t == [hand[h] EXCEPT !.at = "level"]
<1>1. /\ hand[h].op \in {"receive", "move", "count"} /\ hand[h].at = "insert" /\ Moving(h)
      /\ stock' = [stock EXCEPT !.journal = @ + Delta(h)]
      /\ entered' = IF hand[h].op = "receive" THEN [entered EXCEPT ![Line(h)] = @ + 1] ELSE entered
      /\ hand' = Soiled(h, t) /\ UNCHANGED <<receipt, paid, sent, torn>>
  BY DEF InsertMovement, At, Moving
<1>2. /\ hand[h] \in Task /\ Possible(hand[h]) /\ Delta(h) \in Int
      /\ hand[h].op = "receive" => Line(h) \in hand[h].left /\ Line(h) \in Lines
  BY <1>1, MovementFacts
<1>3. /\ t \in Task /\ t.op = hand[h].op /\ t.at = "level" /\ t.lines = hand[h].lines
      /\ t.left = hand[h].left /\ t.value = hand[h].value
  BY <1>2 DEF Task
<1> HIDE DEF t
<1>4. Possible(t) /\ t # Free
  BY <1>1, <1>2, <1>3, TaskNotFree DEF Possible, Stages
<1>5. /\ hand' \in [Hands -> Task \cup {Free}] /\ hand'[h] = t
      /\ \A g \in Hands : hand'[g] # Free => Possible(hand'[g])
      /\ \A g \in Hands \ {h} :
           /\ hand[g].op # "rebuild" => hand'[g] = hand[g]
           /\ hand[g].op = "rebuild" => hand'[g].op = "rebuild" /\ ~hand'[g].clean
  BY <1>1, <1>3, <1>4, SoiledFacts DEF PurchaseInv
<1>6. /\ stock' \in [journal : Int, level : Int]
      /\ stock'.journal = stock.journal + Delta(h) /\ stock'.level = stock.level
  BY <1>1, <1>2 DEF PurchaseInv, PurchaseTypes
<1>7. h \in Adding' /\ Delta(h)' = Delta(h)
  BY <1>1, <1>3, <1>5 DEF Adding, Moving, Delta, Line
<1>8. LevelInv'
  BY <1>1, <1>2, <1>3, <1>5, <1>6, <1>7, LevelMoves
<1>9. \A g \in Hands \ {h} : Aside(g)
  BY <1>5 DEF Aside
<1>10. sent' \subseteq Lines \cup {0} /\ entered \in [Lines -> Nat] /\ paid \in Min(Paid)..Max(Paid)
  BY <1>1 DEF PurchaseInv, PurchaseTypes, CostInv
<1>11. CASE hand[h].op = "receive"
  <2>1. /\ h \in Receiving
        /\ "edited" \notin torn => Holds(h)
        /\ torn \cap {"twice", "edited"} = {} => Shows(h)
        /\ Line(h) \in DOMAIN hand[h].lines
    BY <1>1, <1>11, ReceptionFacts
  <2>2. /\ entered' \in [Lines -> Nat] /\ entered'[Line(h)] = entered[Line(h)] + 1
        /\ \A l \in Lines : l # Line(h) => entered'[l] = entered[l]
        /\ \A l \in Lines : entered[l] <= entered'[l]
    BY <1>1, <1>2, <1>10, <1>11
  <2>3. /\ Stored(hand[h]) = DOMAIN hand[h].lines \ hand[h].left
        /\ Stored(t) = Stored(hand[h]) \cup {Line(h)} /\ Line(h) \notin Stored(hand[h])
    BY <1>1, <1>2, <1>3, <1>11 DEF Stored, Line
  <2>4. Stored(hand[h]) \subseteq Lines
    BY <2>1, StoredIn DEF PurchaseInv
  <2>5. "edited" \notin torn => Holds(h)'
    <3>1. "edited" \notin torn => \A l \in Stored(t) : entered'[l] >= 1
      BY <1>2, <1>10, <1>11, <2>1, <2>2, <2>3, <2>4 DEF Holds
    <3> QED BY <1>1, <1>3, <1>5, <2>1, <3>1 DEF Holds
  <2>6. torn \cap {"twice", "edited"} = {} => Shows(h)'
    <3>1. torn \cap {"twice", "edited"} = {} => \A l \in Lines : entered'[l] = IF l \in Stored(t) THEN 1 ELSE 0
      BY <1>2, <1>11, <2>1, <2>2, <2>3 DEF Shows
    <3> QED BY <1>1, <1>3, <1>5, <2>1, <3>1 DEF Shows
  <2>7. receipt' = receipt /\ t.op = "receive" /\ paid' = paid /\ UNCHANGED torn
    BY <1>1, <1>3, <1>11
  <2> QED BY <1>3, <1>4, <1>5, <1>6, <1>8, <1>9, <1>10, <2>1, <2>2, <2>5, <2>6, <2>7, ReceptionStep
<1>12. CASE hand[h].op # "receive"
  <2>1. UNCHANGED <<receipt, entered, sent, torn, paid>> /\ t.op \in {"move", "count"}
    BY <1>1, <1>3, <1>12
  <2>2. PurchaseTypes'
    BY <1>5, <1>6, <2>1 DEF PurchaseInv, PurchaseTypes
  <2>3. CostInv'
    BY <1>5, <1>9, <1>10, <2>1, CostKeeps DEF PurchaseInv
  <2>4. EditInv' /\ OnceInv'
    BY <1>1, <1>5, <1>12, <2>1, StoryKeeps DEF PurchaseInv
  <2> QED BY <1>8, <2>2, <2>3, <2>4 DEF PurchaseInv
<1> QED BY <1>11, <1>12

LEMMA AddToLevelKeeps == ASSUME PurchaseInv, NEW h \in Hands, AddToLevel(h) PROVE PurchaseInv'
<1> DEFINE t == IF hand[h].op = "receive" THEN [hand[h] EXCEPT !.at = "cost"] ELSE Free
<1>1. /\ hand[h].op \in {"receive", "move", "count"} /\ hand[h].at = "level" /\ Moving(h)
      /\ stock' = [stock EXCEPT !.level = @ + Delta(h)]
      /\ hand' = Soiled(h, t) /\ UNCHANGED <<receipt, paid, entered, sent, torn>>
  BY DEF AddToLevel, At, Moving
<1>2. hand[h] \in Task /\ Possible(hand[h]) /\ Delta(h) \in Int
  BY <1>1, MovementFacts
<1>3. hand[h].op = "receive" =>
        /\ t \in Task /\ t.op = "receive" /\ t.at = "cost" /\ t.lines = hand[h].lines
        /\ t.left = hand[h].left
  BY <1>2 DEF Task
<1>4. hand[h].op # "receive" => t = Free
  OBVIOUS
<1> HIDE DEF t
<1>5. Free.op = "none"
  BY DEF Free
<1>6. hand[h].op = "receive" => Possible(t) /\ t # Free
  BY <1>1, <1>2, <1>3, TaskNotFree DEF Possible, Stages
<1>7. /\ hand' \in [Hands -> Task \cup {Free}] /\ hand'[h] = t
      /\ \A g \in Hands : hand'[g] # Free => Possible(hand'[g])
      /\ \A g \in Hands \ {h} :
           /\ hand[g].op # "rebuild" => hand'[g] = hand[g]
           /\ hand[g].op = "rebuild" => hand'[g].op = "rebuild" /\ ~hand'[g].clean
  BY <1>1, <1>3, <1>4, <1>6, SoiledFacts DEF PurchaseInv
<1>8. /\ stock' \in [journal : Int, level : Int]
      /\ stock'.journal = stock.journal /\ stock'.level = stock.level + Delta(h)
  BY <1>1, <1>2 DEF PurchaseInv, PurchaseTypes
<1>9. h \notin Adding' /\ t.op # "rebuild"
  BY <1>3, <1>4, <1>5, <1>7 DEF Adding, Moving
<1>10. LevelInv'
  BY <1>1, <1>2, <1>7, <1>8, <1>9, LevelMoves
<1>11. \A g \in Hands \ {h} : Aside(g)
  BY <1>7 DEF Aside
<1>12. sent' \subseteq Lines \cup {0} /\ entered' \in [Lines -> Nat] /\ paid \in Min(Paid)..Max(Paid)
       /\ \A l \in Lines : entered[l] <= entered'[l]
  BY <1>1 DEF PurchaseInv, PurchaseTypes, CostInv
<1>13. CASE hand[h].op = "receive"
  <2>1. /\ h \in Receiving
        /\ "edited" \notin torn => Holds(h)
        /\ torn \cap {"twice", "edited"} = {} => Shows(h)
    BY <1>13, ReceptionFacts
  <2>2. Stored(t) = Stored(hand[h])
    BY <1>1, <1>3, <1>13 DEF Stored
  <2>3. "edited" \notin torn => Holds(h)'
    BY <1>1, <1>3, <1>7, <1>13, <2>1, <2>2 DEF Holds
  <2>4. torn \cap {"twice", "edited"} = {} => Shows(h)'
    BY <1>1, <1>3, <1>7, <1>13, <2>1, <2>2 DEF Shows
  <2>5. /\ receipt' = receipt /\ paid' = paid /\ UNCHANGED torn /\ t.op = "receive" /\ t.at = "cost"
        /\ t \in Task /\ Possible(t) /\ t # Free
    BY <1>1, <1>3, <1>6, <1>13
  <2> QED BY <1>7, <1>8, <1>10, <1>11, <1>12, <2>1, <2>3, <2>4, <2>5, ReceptionStep
<1>14. CASE hand[h].op # "receive"
  <2>1. UNCHANGED <<receipt, entered, sent, torn, paid>> /\ hand'[h].op = "none"
    BY <1>1, <1>4, <1>5, <1>7, <1>14
  <2>2. PurchaseTypes'
    BY <1>7, <1>8, <2>1 DEF PurchaseInv, PurchaseTypes
  <2>3. CostInv'
    BY <1>11, <1>12, <2>1, CostKeeps DEF PurchaseInv
  <2>4. EditInv' /\ OnceInv'
    BY <1>1, <1>7, <1>14, <2>1, StoryKeeps DEF PurchaseInv
  <2> QED BY <1>10, <2>2, <2>3, <2>4 DEF PurchaseInv
<1> QED BY <1>13, <1>14

----------------------------------------------------------------------------
(* The edits of a draft.                                                   *)

LEMMA BeginEditKeeps ==
  ASSUME PurchaseInv, NEW h \in Hands, NEW t \in Task, Possible(t), t.op \in {"add", "remove"},
         t.at = "write", hand[h] = Free, hand' = [hand EXCEPT ![h] = t], torn' = Crossed,
         receipt.status = "draft", UNCHANGED <<receipt, stock, paid, entered, sent>>
  PROVE  PurchaseInv'
<1>1. /\ hand' \in [Hands -> Task \cup {Free}] /\ hand'[h] = t
      /\ \A g \in Hands \ {h} : hand'[g] = hand[g]
      /\ \A g \in Hands : hand'[g] # Free => Possible(hand'[g])
  BY Moved DEF PurchaseInv
<1>2. Free.op = "none" /\ hand[h].op = "none"
  BY DEF Free
<1>3. torn' = torn \/ torn' = torn \cup {"edited"}
  BY DEF Crossed
<1>4. PurchaseTypes'
  BY <1>1, <1>3 DEF PurchaseInv, PurchaseTypes
<1>5. LevelInv'
  BY <1>1, <1>2, <1>3, LevelKeeps DEF PurchaseInv, Moving
<1>6. CostInv'
  BY <1>1, CostKeeps DEF PurchaseInv, CostInv, Aside
<1>7. Receiving' = Receiving /\ Editing' = Editing \cup {h} /\ h \notin Receiving
  BY <1>1, <1>2 DEF Receiving, Editing
<1>8. "edited" \notin torn' => "edited" \notin torn /\ Receiving = {} /\ Editing = {}
  BY DEF Crossed
<1>9. EditInv'
  BY <1>1, <1>7, <1>8 DEF PurchaseInv, EditInv, ReceivedIsIn
<1>10. OnceInv'
  BY <1>3, <1>7, <1>8 DEF PurchaseInv, OnceInv, Settled
<1> QED BY <1>4, <1>5, <1>6, <1>9, <1>10 DEF PurchaseInv

LEMMA BeginAddKeeps ==
  ASSUME PurchaseInv, NEW h \in Hands, NEW offer \in Offers, BeginAdd(h, offer)
  PROVE  PurchaseInv'
<1>1. PICK l \in Lines : hand' = [hand EXCEPT ![h] = [Hand("add", "write") EXCEPT !.lines = [x \in {l} |-> offer]]]
  BY DEF BeginAdd
<1> DEFINE L == [x \in {l} |-> offer]
           t == [Hand("add", "write") EXCEPT !.lines = L]
<1>2. L \in Orders
  <2>1. L \in [{l} -> Offers]
    OBVIOUS
  <2> HIDE DEF L
  <2> QED BY <2>1 DEF Orders
<1>3. t \in Task /\ t.op = "add" /\ t.at = "write" /\ t.left = {}
  <2> DEFINE u == Hand("add", "write")
  <2>1. u \in Task /\ u.op = "add" /\ u.at = "write" /\ u.left = {}
    BY HandTask
  <2>2. t = [u EXCEPT !.lines = L]
    OBVIOUS
  <2> HIDE DEF u, L, t
  <2> QED BY <1>2, <2>1, <2>2 DEF Task
<1>4. /\ receipt.status = "draft" /\ hand[h] = Free /\ torn' = Crossed
      /\ UNCHANGED <<receipt, stock, paid, entered, sent>>
  BY DEF BeginAdd
<1> HIDE DEF t
<1>5. Possible(t)
  BY <1>3 DEF Possible, Stages
<1> QED BY <1>1, <1>3, <1>4, <1>5, BeginEditKeeps DEF t

LEMMA BeginRemoveKeeps ==
  ASSUME PurchaseInv, NEW h \in Hands, NEW l \in Lines, BeginRemove(h, l)
  PROVE  PurchaseInv'
<1> DEFINE t == [Hand("remove", "write") EXCEPT !.value = l]
<1>1. /\ receipt.status = "draft" /\ hand[h] = Free /\ torn' = Crossed
      /\ hand' = [hand EXCEPT ![h] = t] /\ UNCHANGED <<receipt, stock, paid, entered, sent>>
  BY DEF BeginRemove
<1>2. l \in Int
  BY DEF Lines
<1>3. t \in Task /\ t.op = "remove" /\ t.at = "write" /\ t.left = {}
  BY <1>2, NewTask
<1> HIDE DEF t
<1>4. Possible(t)
  BY <1>3 DEF Possible, Stages
<1> QED BY <1>1, <1>3, <1>4, BeginEditKeeps

\* A step of an edit: it leaves the total to write, or writes it.
LEMMA EditStep ==
  ASSUME PurchaseInv, NEW h \in Editing, NEW t, (t \in Task /\ Possible(t)) \/ t = Free,
         hand' = [hand EXCEPT ![h] = t], UNCHANGED <<stock, paid, entered, sent, torn>>,
         t # Free => t.op \in {"add", "remove"}, receipt'.status = receipt.status,
         receipt' \in [status : {"none", "draft", "received"}, total : Nat, lines : Orders],
         "edited" \notin torn =>
           \/ t # Free /\ (t.at = "total" => t.value = ReceiptTotal(receipt'.lines))
           \/ t = Free /\ receipt'.total = ReceiptTotal(receipt'.lines)
  PROVE  PurchaseInv'
<1>0. h \in Hands /\ hand[h].op \in {"add", "remove"}
  BY DEF Editing
<1>1. /\ hand' \in [Hands -> Task \cup {Free}] /\ hand'[h] = t
      /\ \A g \in Hands \ {h} : hand'[g] = hand[g]
      /\ \A g \in Hands : hand'[g] # Free => Possible(hand'[g])
  BY <1>0, Moved DEF PurchaseInv
<1>2. Free.op = "none" /\ t.op \in {"add", "remove", "none"}
  BY DEF Free
<1>3. PurchaseTypes'
  BY <1>1 DEF PurchaseInv, PurchaseTypes
<1>4. LevelInv'
  BY <1>0, <1>1, <1>2, LevelKeeps DEF PurchaseInv, Moving
<1>5. CostInv'
  BY <1>0, <1>1, <1>2, CostKeeps DEF PurchaseInv, CostInv, Aside
<1>6. Receiving' = Receiving
  BY <1>0, <1>1, <1>2 DEF Receiving
<1>7. Editing' = IF t = Free THEN Editing \ {h} ELSE Editing
  BY <1>0, <1>1, <1>2 DEF Editing
<1>8. "edited" \notin torn => Receiving = {} /\ Editing = {h} /\ receipt.status = "draft"
  BY DEF PurchaseInv, EditInv
<1>9. EditInv'
  <2> SUFFICES ASSUME "edited" \notin torn PROVE EditInv'
    BY DEF EditInv
  <2>1. Receiving' = {} /\ receipt'.status = "draft"
    BY <1>6, <1>8
  <2>2. CASE t = Free
    <3>1. Editing' = {}
      BY <1>7, <1>8, <2>2
    <3> QED BY <2>1, <2>2, <3>1 DEF EditInv, ReceivedIsIn
  <2>3. CASE t # Free
    <3>1. Editing' = {h}
      BY <1>7, <1>8, <2>3
    <3> QED BY <1>1, <2>1, <2>3, <3>1 DEF EditInv, ReceivedIsIn
  <2> QED BY <2>2, <2>3
<1>10. OnceInv'
  <2> SUFFICES ASSUME torn \cap {"twice", "edited"} = {} PROVE OnceInv'
    BY DEF OnceInv
  <2>1. Receiving = {} /\ receipt.status = "draft" /\ receipt'.status = "draft"
    BY <1>8
  <2>2. Settled'
    BY <2>1 DEF PurchaseInv, OnceInv, Settled
  <2> QED BY <1>6, <2>1, <2>2 DEF OnceInv
<1> QED BY <1>3, <1>4, <1>5, <1>9, <1>10 DEF PurchaseInv

LEMMA EditKeeps ==
  ASSUME PurchaseInv, NEW h \in Hands, WriteLine(h) \/ DeleteLine(h) \/ AddUp(h) \/ WriteTotal(h)
  PROVE  PurchaseInv'
<1>0. receipt \in [status : {"none", "draft", "received"}, total : Nat, lines : Orders]
  BY DEF PurchaseInv, PurchaseTypes
<1>1. hand[h].op \in {"add", "remove"} /\ h \in Editing
  <2>1. hand[h].op # "none" /\ (hand[h].at = "total" \/ hand[h].op \in {"add", "remove"})
    BY DEF WriteLine, DeleteLine, AddUp, WriteTotal, At, Editing
  <2>2. hand[h] \in Task /\ Possible(hand[h])
    BY <2>1, HandFacts DEF PurchaseInv
  <2>3. hand[h].op \in {"add", "remove"}
    BY <2>1, <2>2 DEF Possible, Stages, Task
  <2> QED BY <2>3 DEF Editing
<1>2. hand[h] \in Task /\ Possible(hand[h]) /\ hand \in [Hands -> Task \cup {Free}]
  BY <1>1, HandFacts DEF PurchaseInv, PurchaseTypes
<1>3. ASSUME NEW L \in Orders, receipt' = [receipt EXCEPT !.lines = L], Turns(h, "items"),
             UNCHANGED <<stock, paid, entered, sent, torn>>
      PROVE  PurchaseInv'
  <2> DEFINE t == [hand[h] EXCEPT !.at = "items"]
  <2>1. t \in Task /\ t.op = hand[h].op /\ t.at = "items" /\ t.left = hand[h].left /\ t.lines = hand[h].lines
    BY <1>2 DEF Task
  <2>2. hand' = [hand EXCEPT ![h] = t]
    BY <1>2, <1>3 DEF Turns
  <2> HIDE DEF t
  <2>3. Possible(t) /\ t # Free
    BY <1>1, <1>2, <2>1, TaskNotFree DEF Possible, Stages
  <2>4. /\ receipt'.status = receipt.status
        /\ receipt' \in [status : {"none", "draft", "received"}, total : Nat, lines : Orders]
    BY <1>0, <1>3
  <2> QED BY <1>1, <1>3, <2>1, <2>2, <2>3, <2>4, EditStep
<1>4. DOMAIN receipt.lines \subseteq Lines /\ \A l \in DOMAIN receipt.lines : receipt.lines[l] \in Offers
  BY <1>0, OrderFacts
<1>5. CASE WriteLine(h)
  <2> DEFINE L == Joined(receipt.lines, hand[h].lines)
  <2>1. DOMAIN hand[h].lines \subseteq Lines /\ \A l \in DOMAIN hand[h].lines : hand[h].lines[l] \in Offers
    BY <1>2, OrderFacts DEF Task
  <2>2. L \in [DOMAIN receipt.lines \cup DOMAIN hand[h].lines -> Offers]
    BY <1>4, <2>1 DEF Joined
  <2>3. L \in Orders
    BY <1>4, <2>1, <2>2 DEF Orders
  <2> QED BY <1>3, <1>5, <2>3 DEF WriteLine
<1>6. CASE DeleteLine(h)
  <2> DEFINE L == Restrict(receipt.lines, DOMAIN receipt.lines \ {hand[h].value})
  <2>1. L \in [DOMAIN receipt.lines \ {hand[h].value} -> Offers]
    BY <1>4 DEF Restrict
  <2>2. L \in Orders
    BY <1>4, <2>1 DEF Orders
  <2> QED BY <1>3, <1>6, <2>2 DEF DeleteLine
<1>7. CASE AddUp(h)
  <2> DEFINE n == ReceiptTotal(receipt.lines)
             t == [hand[h] EXCEPT !.at = "total", !.value = n]
  <2>1. n \in Nat
    BY <1>0, TotalType
  <2>2. hand' = [hand EXCEPT ![h].at = "total", ![h].value = n]
        /\ UNCHANGED <<receipt, stock, paid, entered, sent, torn>>
    BY <1>7 DEF AddUp
  <2>3. n \in Int
    BY <2>1
  <2> HIDE DEF n
  <2>4. /\ t \in Task /\ t.op = hand[h].op /\ t.at = "total" /\ t.value = n
        /\ t.left = hand[h].left /\ t.lines = hand[h].lines
    BY <1>2, <2>3 DEF Task
  <2>5. hand' = [hand EXCEPT ![h] = t]
    BY <1>2, <2>2
  <2> HIDE DEF t
  <2>6. Possible(t) /\ t # Free
    BY <1>1, <1>2, <2>1, <2>4, TaskNotFree DEF Possible, Stages
  <2>7. t.value = ReceiptTotal(receipt'.lines) /\ receipt' = receipt
    BY <2>2, <2>4 DEF n
  <2>8. /\ receipt'.status = receipt.status
        /\ receipt' \in [status : {"none", "draft", "received"}, total : Nat, lines : Orders]
    BY <1>0, <2>7
  <2> QED BY <1>1, <2>2, <2>4, <2>5, <2>6, <2>7, <2>8, EditStep
<1>8. CASE WriteTotal(h)
  <2>1. /\ hand[h].at = "total" /\ receipt' = [receipt EXCEPT !.total = hand[h].value]
        /\ hand' = [hand EXCEPT ![h] = Free] /\ UNCHANGED <<stock, paid, entered, sent, torn>>
    BY <1>8 DEF WriteTotal, At, Frees
  <2>2. hand[h].value \in Nat
    BY <1>1, <1>2, <2>1 DEF Possible
  <2>3. /\ receipt'.status = receipt.status /\ receipt'.lines = receipt.lines
        /\ receipt'.total = hand[h].value
        /\ receipt' \in [status : {"none", "draft", "received"}, total : Nat, lines : Orders]
    BY <1>0, <2>1, <2>2
  <2>4. "edited" \notin torn => hand[h].value = ReceiptTotal(receipt.lines)
    BY <1>1, <2>1 DEF PurchaseInv, EditInv
  <2>5. "edited" \notin torn => receipt'.total = ReceiptTotal(receipt'.lines)
    BY <2>3, <2>4
  <2> QED BY <1>1, <2>1, <2>3, <2>5, EditStep
<1> QED BY <1>5, <1>6, <1>7, <1>8

LEMMA PurchaseSteps == PurchaseInv /\ [PurchaseNext]_purchaseVars => PurchaseInv'
<1> SUFFICES ASSUME PurchaseInv, [PurchaseNext]_purchaseVars PROVE PurchaseInv'
  OBVIOUS
<1>1. CASE UNCHANGED purchaseVars
  BY <1>1 DEF purchaseVars, PurchaseInv, PurchaseTypes, LevelInv, RebuildInv, LevelIsSum, OnTheWay,
              Adding, Moving, Delta, Line, CostInv, EditInv, Holds, Stored, ReceivedIsIn, OnceInv,
              Shows, Settled, Receiving, Editing
<1>2. CASE CreateReceipt
  BY <1>2, CreateKeeps
<1>3. ASSUME NEW h \in Hands,
             \/ \E offer \in Offers : BeginAdd(h, offer)
             \/ \E l \in Lines : BeginRemove(h, l)
             \/ WriteLine(h) \/ DeleteLine(h) \/ AddUp(h) \/ WriteTotal(h)
      PROVE  PurchaseInv'
  BY <1>3, BeginAddKeeps, BeginRemoveKeeps, EditKeeps
<1>4. ASSUME NEW h \in Hands,
             \/ \E d \in Deltas : BeginMove(h, d)
             \/ \E counted \in Counts : BeginCount(h, counted)
             \/ InsertMovement(h) \/ AddToLevel(h) \/ BeginRebuild(h) \/ WriteLevel(h)
      PROVE  PurchaseInv'
  BY <1>4, BeginOtherKeeps, InsertKeeps, AddToLevelKeeps, WriteLevelKeeps
<1>5. ASSUME NEW h \in Hands,
             \/ BeginReceive(h) \/ ReadItems(h) \/ ReadCost(h) \/ Average(h) \/ WriteCost(h)
             \/ WriteStatus(h) \/ EnqueueReceipt(h) \/ EnqueueLine(h)
      PROVE  PurchaseInv'
  BY <1>5, BeginReceiveKeeps, ReadItemsKeeps, ReadCostKeeps, AverageKeeps, WriteCostKeeps,
     WriteStatusKeeps, EnqueueReceiptKeeps, EnqueueLineKeeps
<1>6. CASE (\E cost \in Costs : PullCost(cost)) \/ Die
  BY <1>6, PullKeeps, DieKeeps
<1> QED BY <1>1, <1>2, <1>3, <1>4, <1>5, <1>6 DEF PurchaseNext

----------------------------------------------------------------------------
(* The dates a key may end on.                                             *)

LEMMA DatesAre ==
  ASSUME NEW years, NEW date
  PROVE  date \in Dates(years) <=>
           \E y \in years, m \in 1..12 : date \in [year : {y}, month : {m}, day : 1..LastDay(y, m)]
<1> DEFINE D(y, m) == [year : {y}, month : {m}, day : 1..LastDay(y, m)]
<1>1. Dates(years) = UNION {D(y, m) : y \in years, m \in 1..12}
  BY DEF Dates
<1> HIDE DEF D
<1>2. date \in Dates(years) <=> \E y \in years, m \in 1..12 : date \in D(y, m)
  BY <1>1
<1> QED BY <1>2 DEF D

\* Whatever the date and however many months, no day is given away and none is lost but those
\* the month has not (addMonths).
THEOREM MonthsLand ==
  ASSUME NEW date \in Dates(Nat), NEW months \in Nat
  PROVE  LandsInMonth(date, months)
<1>1. PICK y \in Nat, m \in 1..12 : date \in [year : {y}, month : {m}, day : 1..LastDay(y, m)]
  BY DatesAre
<1> DEFINE i == 12 * date.year + date.month - 1 + months
           last == LastDay(i \div 12, (i % 12) + 1)
           end == AddMonths(date, months)
<1>2. i \in Nat /\ date.year = y /\ date.month = m
  BY <1>1
<1>3. date.day \in Int
  BY <1>1
<1>4. last \in Int
  BY DEF LastDay
<1>5. 12 * (i \div 12) + (i % 12) = i
  <2> HIDE DEF i
  <2> QED BY <1>2
<1>6. /\ end.year = i \div 12 /\ end.month = (i % 12) + 1
      /\ end.day = IF date.day <= last THEN date.day ELSE last
  BY DEF AddMonths
<1>7. i = 12 * date.year + date.month - 1 + months
  OBVIOUS
<1>8. last = LastDay(end.year, end.month)
  BY <1>6
<1>9. i \div 12 \in Int /\ i % 12 \in Int
  BY <1>2
<1> HIDE DEF i, last, end
<1>10. 12 * end.year + end.month = 12 * date.year + date.month + months
  BY <1>1, <1>2, <1>5, <1>6, <1>7, <1>9
<1>11. end.day = date.day \/ (end.day < date.day /\ end.day = LastDay(end.year, end.month))
  BY <1>3, <1>4, <1>6, <1>8
<1> QED BY <1>10, <1>11 DEF LandsInMonth, end

\* A key that is sold ends where its months lead (addMonths).
THEOREM SalesLandCorrect == Spec => []SalesLand
<1> DEFINE Sold == sold.date \in Dates(Nat) /\ sold.months \in Nat
<1>1. Init => Sold
  <2>1. ASSUME NEW s \in [date : Dates(2023..2024), months : 1..13]
        PROVE  s.date \in Dates(Nat) /\ s.months \in Nat
    <3>1. s.date \in Dates(2023..2024) /\ s.months \in 1..13
      OBVIOUS
    <3>2. s.date \in Dates(Nat)
      BY <3>1, DatesAre
    <3> QED BY <3>1, <3>2
  <2>2. [year |-> 2024, month |-> 1, day |-> 31] \in Dates(Nat)
    <3>1. LastDay(2024, 1) = 31
      BY DEF LastDay
    <3>2. [year |-> 2024, month |-> 1, day |-> 31] \in [year : {2024}, month : {1}, day : 1..LastDay(2024, 1)]
      BY <3>1
    <3> QED BY <3>2, DatesAre
  <2> QED BY <2>1, <2>2 DEF Init
<1>2. Sold /\ [Next]_vars => Sold'
  BY DEF Next, vars
<1>3. Sold => SalesLand
  BY MonthsLand DEF SalesLand
<1> QED BY <1>1, <1>2, <1>3, PTL DEF Spec

----------------------------------------------------------------------------
(* The receipt, among the systems behind the counter.                      *)

\* What is proved of receipts, whatever dies, is clicked twice or crosses: level and journal
\* agree, a reception is whole or did not happen, and the cost is among those paid (receive,
\* recordMovement, rebuildLevels, updateCost).
THEOREM ShelvesAgreeCorrect == Spec => []ShelvesAgree
<1>1. Init => PurchaseInv
  BY PurchaseStarts DEF Init
<1>2. PurchaseInv /\ [Next]_vars => PurchaseInv'
  <2>1. [Next]_vars => [PurchaseNext]_purchaseVars
    BY DEF Next, vars
  <2> QED BY <2>1, PurchaseSteps
<1>3. PurchaseInv => ShelvesAgree
  BY ShelvesAre
<1> QED BY <1>1, <1>2, <1>3, PTL DEF Spec

----------------------------------------------------------------------------
(* The import of a catalogue.                                              *)

Writing == {"check", "codes", "write"}
Steps == {"categories", "category", "record", "stock", "minimum"} \cup Writing
Results == [as : {"none", "skipped", "created", "updated"}, on : 0..MaxProducts]
Imports ==
  [at : Steps, row : Nat, rows : Seq(SheetLines), seen : [Ids -> Articles], cats : [Names -> Nat],
   target : 0..MaxProducts, cat : Nat, old : Articles]

CategoryRows == [name : Names, live : BOOLEAN]
ShelfTypes ==
  /\ products \in [Ids -> Articles] /\ level \in [Ids -> Int] /\ posted \in [Ids -> Nat]
  /\ cats \in Seq(CategoryRows)
  /\ touched \subseteq Ids /\ disturbed \in BOOLEAN /\ passes \in Nat /\ apart \subseteq Names

\* A row is kept, was put aside, or was taken.
SheetTypes ==
  /\ sheet \in Seq(SheetLines)
  /\ outcome \in [DOMAIN outcome -> Results] /\ DOMAIN outcome \subseteq DOMAIN Rows(sheet)
  /\ before \in [DOMAIN before -> Results] /\ DOMAIN before \subseteq DOMAIN Rows(sheet)

ImportTypes ==
  IF Stands("none") THEN import = Resting
  ELSE /\ import \in Imports
       /\ import.rows = Rows(sheet) /\ import.row \in DOMAIN Rows(sheet)
       /\ DOMAIN outcome = DOMAIN Rows(sheet)
       /\ passes > 0

OwnCodes(of) ==
  \A p, q \in Ids : of[p].live /\ of[q].live /\ p # q =>
    /\ of[p].sku # None => of[p].sku # of[q].sku
    /\ of[p].barcode # None => of[p].barcode # of[q].barcode

ShelfInv ==
  /\ \A p \in Ids : products[p].cat <= Len(cats)
  /\ OwnCodes(products)
  /\ \A p \in Ids : products[p].version = 0 => ~products[p].live /\ posted[p] = 0
  /\ StockSetOnce
  /\ OneCategoryPerName
  /\ HandPriceKept

\* A category that is there is known to the import by its name, unless that name is apart or
\* the one the row has just made.
IsKnown(c) ==
  \/ import.cats[cats[c].name] # 0 \/ cats[c].name \in apart
  \/ Stands("record") /\ cats[c].name = Row.cat

CategoriesInv ==
  ~Stands("none") =>
    /\ import.cat <= Len(cats) /\ \A name \in Names : import.cats[name] <= Len(cats)
    /\ ~Stands("categories") => \A c \in DOMAIN cats : cats[c].live => IsKnown(c)
    /\ import.at \in Writing => (import.cat = 0 <=> Row.cat = None)
    /\ Stands("record") => import.cat # 0 /\ Row.cat # None

SeenInv ==
  ~Stands("none") =>
    /\ OwnCodes(import.seen)
    /\ \A p \in Ids : /\ import.seen[p].version <= products[p].version
                      /\ p \in touched => import.seen[p].version < products[p].version
                      /\ import.seen[p].live => import.seen[p].version # 0

Coming(i) == i > import.row \/ (i = import.row /\ import.at \notin {"stock", "minimum"})
Taken(i) == outcome[i].as \in {"created", "updated"}

RowInv ==
  ~Stands("none") =>
    /\ \A i \in DOMAIN outcome : Coming(i) =>
         outcome[i] = [as |-> IF Duplicate(Rows(sheet), i) THEN "skipped" ELSE "none", on |-> 0]
    /\ import.at \in Writing \cup {"record"} => ~Duplicate(Rows(sheet), import.row)
    /\ import.at = "check" => import.target # 0
    /\ import.at \in Writing =>
         IF import.target = 0 THEN MatchExisting(Row, import.seen) = {}
         ELSE import.target \in MatchExisting(Row, import.seen)
    /\ import.at \in {"codes", "write"} => import.target \notin touched
    /\ import.at \in {"stock", "minimum"} => Taken(import.row) /\ outcome[import.row].on = import.target
    /\ Stands("stock") => /\ outcome[import.row].as = "created" /\ posted[import.target] = 0
                          /\ Row.qty # 0 /\ products[import.target].version > 0

TakenInv ==
  \A i \in DOMAIN outcome : Taken(i) => outcome[i].on \in Ids /\ ~Duplicate(Rows(sheet), i)

\* p is as the row says.
Bears(p, row) == p.live /\ p.sku = row.sku /\ p.barcode = row.barcode

IsWritten(p, row) == Bears(p, row) /\ p.price = row.price /\ (p.cat = 0 <=> row.cat = None)

\* And its threshold and its stock at first are settled, whatever was said of the row.
IsSettled(said, row, p, n) ==
  /\ said = "updated" \/ (CodesOf(row) # {} /\ row.min >= 0) => p.min = row.min
  /\ said = "created" /\ row.qty # 0 => n = 1

WroteInv ==
  \A i \in DOMAIN outcome : Taken(i) =>
    /\ IsWritten(products[outcome[i].on], Rows(sheet)[i])
    /\ Stands("none") \/ i < import.row =>
         IsSettled(outcome[i].as, Rows(sheet)[i], products[outcome[i].on], posted[outcome[i].on])
    /\ \A j \in DOMAIN outcome \ {i} : Taken(j) => outcome[j].on # outcome[i].on

CurrentInv ==
  /\ import.at \in {"stock", "minimum"} /\ outcome[import.row].as = "created" =>
       products[import.target].min = 0
  /\ Stands("minimum") /\ outcome[import.row].as = "created" /\ Row.qty # 0 =>
       posted[import.target] = 1
  /\ import.at \in {"codes", "write"} /\ import.target # 0 =>
       products[import.target].version = import.seen[import.target].version

ReadInv ==
  ~Stands("none") =>
    /\ \A p \in Ids : products[p].version = import.seen[p].version =>
         /\ products[p].live = import.seen[p].live
         /\ products[p].sku = import.seen[p].sku /\ products[p].barcode = import.seen[p].barcode
    /\ \A i \in DOMAIN outcome :
         /\ outcome[i].as = "updated" =>
              products[outcome[i].on].version > import.seen[outcome[i].on].version
         /\ outcome[i].as = "created" => Bears(import.seen[outcome[i].on], Rows(sheet)[i])

Known(i) == before[i].as \in {"created", "updated"} /\ CodesOf(Rows(sheet)[i]) # {}
AgainInv ==
  /\ SameAgain
  /\ passes = 0 => outcome = <<>> /\ \A i \in DOMAIN before : Known(i) =>
       /\ before[i].on \in Ids /\ ~Duplicate(Rows(sheet), i)
       /\ Bears(products[before[i].on], Rows(sheet)[i])
  /\ ~Stands("none") => \A i \in DOMAIN before : Known(i) /\ Coming(i) =>
       /\ before[i].on \in Ids /\ ~Duplicate(Rows(sheet), i)
       /\ Bears(import.seen[before[i].on], Rows(sheet)[i])
       /\ products[before[i].on].version = import.seen[before[i].on].version
       /\ i = import.row /\ import.at \in Writing => import.target = before[i].on

TransferInv ==
  /\ ShelfTypes /\ SheetTypes /\ ImportTypes
  /\ ShelfInv /\ CategoriesInv /\ SeenInv /\ RowInv /\ TakenInv
  /\ passes = 0 => outcome = <<>>
  /\ ~disturbed => WroteInv /\ CurrentInv /\ ReadInv /\ AgainInv

\* The rows of a sheet are lines of it.
LEMMA RowsAre ==
  ASSUME NEW lines \in Seq(SheetLines)
  PROVE  Rows(lines) \in Seq(SheetLines) /\ DOMAIN Rows(lines) = 1..Cardinality(Read(lines))
<1> DEFINE S == Read(lines)
           earlier[x \in S] == {j \in S : j < x}
<1>1. IsFiniteSet(S) /\ S \subseteq DOMAIN lines /\ S \subseteq Int
  <2>1. IsFiniteSet(1..Len(lines))
    BY FS_Interval
  <2> QED BY <2>1, FS_Subset DEF Read
<1>2. Cardinality(S) \in Nat
  BY <1>1, FS_CardinalityType
<1>3. IsOrder(earlier, S)
  <2>1. \A x \in S : earlier[x] = {j \in S : j < x}
    OBVIOUS
  <2> HIDE DEF earlier
  <2>2. earlier \in [S -> SUBSET S]
    BY DEF earlier
  <2> QED BY <1>1, <2>1, <2>2 DEF IsOrder
<1>4. ASSUME NEW n \in 1..Cardinality(S)
      PROVE  Rows(lines)[n] \in SheetLines
  <2>0. n - 1 \in 0..(Cardinality(S) - 1)
    BY <1>2
  <2>1. PICK x \in S : Cardinality(earlier[x]) = n - 1
    <3> HIDE DEF earlier, S
    <3> QED BY <1>1, <1>3, <2>0, RanksGiven
  <2>2. Cardinality({j \in S : j < x}) = n - 1
    BY <2>1
  <2>3. Rows(lines)[n] = lines[CHOOSE i \in S : Cardinality({j \in S : j < i}) = n - 1]
    BY DEF Rows
  <2>4. (CHOOSE i \in S : Cardinality({j \in S : j < i}) = n - 1) \in S
    BY <2>2
  <2> QED BY <1>1, <2>3, <2>4
<1>5. Rows(lines) = [n \in 1..Cardinality(S) |-> Rows(lines)[n]]
  BY DEF Rows
<1> HIDE DEF S
<1>6. Rows(lines) \in [1..Cardinality(S) -> SheetLines]
  BY <1>4, <1>5
<1> QED BY <1>2, <1>6 DEF S

\* A sheet of which every line reads is its own rows.
LEMMA AllRead ==
  ASSUME NEW n \in Nat, NEW lines \in [1..n -> SheetLines], \A i \in 1..n : lines[i].reads
  PROVE  Rows(lines) = lines
<1>1. Read(lines) = 1..n
  BY DEF Read
<1>2. Cardinality(1..n) = n
  BY FS_Interval
<1>3. ASSUME NEW m \in 1..n
      PROVE  lines[CHOOSE i \in 1..n : Cardinality({j \in 1..n : j < i}) = m - 1] = lines[m]
  <2>1. \A i \in 1..n : Cardinality({j \in 1..n : j < i}) = i - 1
    <3> TAKE i \in 1..n
    <3>1. {j \in 1..n : j < i} = 1..(i - 1)
      OBVIOUS
    <3>2. Cardinality(1..(i - 1)) = i - 1
      BY FS_Interval
    <3> QED BY <3>1, <3>2
  <2>2. \A i \in 1..n : Cardinality({j \in 1..n : j < i}) = m - 1 <=> i = m
    BY <2>1
  <2> QED BY <2>2
<1>4. lines = [m \in 1..n |-> lines[m]]
  OBVIOUS
<1>5. Rows(lines) = [m \in 1..n |->
         lines[CHOOSE i \in 1..n : Cardinality({j \in 1..n : j < i}) = m - 1]]
  BY <1>1, <1>2 DEF Rows
<1> QED BY <1>3, <1>4, <1>5

\* Rows that are not put aside share no code.
LEMMA CodesApart ==
  ASSUME NEW rows, NEW n \in Nat, DOMAIN rows = 1..n, NEW i \in 1..n, NEW j \in 1..n, i # j,
         ~Duplicate(rows, i), ~Duplicate(rows, j)
  PROVE  CodesOf(rows[i]) \cap CodesOf(rows[j]) = {}
<1>1. j \in 1..(i - 1) \/ i \in 1..(j - 1)
  OBVIOUS
<1> QED BY <1>1 DEF Duplicate

\* What a row is matched with has one of its codes.
LEMMA MatchHas ==
  ASSUME NEW row, NEW of, NEW p \in MatchExisting(row, of)
  PROVE  /\ p \in Ids /\ of[p].live
         /\ \/ row.sku # None /\ of[p].sku = row.sku
            \/ row.barcode # None /\ of[p].barcode = row.barcode
BY DEF MatchExisting, BySku, ByBarcode

\* What nothing was found for shares no code with any article that is there (matchExisting).
LEMMA MatchNone ==
  ASSUME NEW row, NEW of, MatchExisting(row, of) = {}, NEW p \in Ids, of[p].live
  PROVE  /\ row.sku # None => of[p].sku # row.sku
         /\ row.barcode # None => of[p].barcode # row.barcode
BY DEF MatchExisting, BySku, ByBarcode

\* An article that bears what a row says is the one it is matched with.
LEMMA MatchAgain ==
  ASSUME NEW row, NEW of, OwnCodes(of), NEW p \in Ids, Bears(of[p], row), CodesOf(row) # {}
  PROVE  MatchExisting(row, of) = {p} /\ BySku(of, row.sku) \cup ByBarcode(of, row.barcode) \subseteq {p}
<1>1. \A q \in BySku(of, row.sku) : q = p
  BY DEF BySku, OwnCodes, Bears
<1>2. \A q \in ByBarcode(of, row.barcode) : q = p
  BY DEF ByBarcode, OwnCodes, Bears
<1>3. CASE row.sku # None
  <2>1. p \in BySku(of, row.sku)
    BY <1>3 DEF BySku, Bears
  <2> QED BY <1>1, <1>2, <2>1 DEF MatchExisting
<1>4. CASE row.sku = None
  <2>1. row.barcode # None
    BY <1>4 DEF CodesOf
  <2>2. p \in ByBarcode(of, row.barcode) /\ BySku(of, row.sku) = {}
    BY <1>4, <2>1 DEF ByBarcode, BySku, Bears
  <2> QED BY <1>1, <1>2, <2>2 DEF MatchExisting
<1> QED BY <1>3, <1>4

\* The next identifier is one no article has.
LEMMA NewIdIs ==
  ASSUME \E p \in Ids : products[p].version = 0
  PROVE  NewId \in Ids /\ products[NewId].version = 0
<1> DEFINE T == {p \in Ids : products[p].version = 0}
<1>1. MaxProducts \in Nat
  BY TransferAssumption
<1>2. T \in SUBSET Nat /\ T # {}
  BY <1>1 DEF Ids
<1>3. PICK p \in T : \A q \in T : p <= q
  BY <1>2, NatMin
<1>4. \A q \in 1..(p - 1) : products[q].version # 0
  BY <1>1, <1>3 DEF Ids
<1>5. \E r \in Ids : products[r].version = 0 /\ \A q \in 1..(r - 1) : products[q].version # 0
  BY <1>3, <1>4
<1> QED BY <1>5 DEF NewId

----------------------------------------------------------------------------
\* Everything at its place, by name.
RestInv == ShelfInv /\ CategoriesInv /\ SeenInv /\ RowInv /\ TakenInv
ClearInv == WroteInv /\ CurrentInv /\ ReadInv /\ AgainInv

\* A sale takes from the stock alone.
LEMMA SellKeeps == ASSUME TransferInv, NEW p \in Ids, Sell(p) PROVE TransferInv'
<1>1. /\ products' = products /\ posted' = posted /\ cats' = cats /\ apart' = apart /\ sheet' = sheet
      /\ import' = import /\ outcome' = outcome /\ before' = before /\ passes' = passes
      /\ touched' = touched /\ disturbed' = disturbed
      /\ level' = [level EXCEPT ![p] = level[p] - 1]
  BY DEF Sell
<1>2. ShelfTypes'
  BY <1>1 DEF TransferInv, ShelfTypes
<1>3. SheetTypes' /\ ImportTypes'
  BY <1>1 DEF TransferInv, SheetTypes, ImportTypes, Stands
<1>4. ShelfInv' /\ CategoriesInv' /\ SeenInv'
  BY <1>1 DEF TransferInv, ShelfInv, CategoriesInv, IsKnown, SeenInv, Stands, Row, StockSetOnce,
              OneCategoryPerName, HandPriceKept, OwnCodes
<1>5. RowInv' /\ TakenInv'
  BY <1>1 DEF TransferInv, RowInv, TakenInv, Stands, Row, Coming, Taken, Target, BySku, ByBarcode
<1>6. ~disturbed' => WroteInv' /\ CurrentInv' /\ ReadInv'
  BY <1>1 DEF TransferInv, WroteInv, CurrentInv, ReadInv, Stands, Row, Taken
<1>7. ~disturbed' => AgainInv'
  BY <1>1 DEF TransferInv, AgainInv, SameAgain, Stands, Known, Coming
<1> QED BY <1>1, <1>2, <1>3, <1>4, <1>5, <1>6, <1>7 DEF TransferInv

\* What an import under way is made of.
LEMMA Going ==
  ASSUME TransferInv, import.at # "none"
  PROVE  /\ import \in Imports /\ import.row \in DOMAIN Rows(sheet) /\ import.rows = Rows(sheet)
         /\ DOMAIN outcome = DOMAIN Rows(sheet) /\ Row = Rows(sheet)[import.row]
         /\ Row \in SheetLines /\ import.row \in Nat /\ import.seen \in [Ids -> Articles]
         /\ import.target \in 0..MaxProducts /\ import.cats \in [Names -> Nat] /\ import.cat \in Nat
         /\ import.old \in Articles /\ import.at \in Steps
         /\ Rows(sheet) \in Seq(SheetLines) /\ Len(Rows(sheet)) \in Nat
         /\ DOMAIN Rows(sheet) = 1..Len(Rows(sheet)) /\ passes > 0
         /\ outcome \in [DOMAIN Rows(sheet) -> Results]
<1>1. sheet \in Seq(SheetLines) /\ ImportTypes /\ outcome \in [DOMAIN outcome -> Results]
  BY DEF TransferInv, SheetTypes
<1>2. Rows(sheet) \in Seq(SheetLines)
  BY <1>1, RowsAre
<1>3. /\ import \in Imports /\ import.row \in DOMAIN Rows(sheet) /\ import.rows = Rows(sheet)
      /\ DOMAIN outcome = DOMAIN Rows(sheet) /\ passes > 0
  BY <1>1 DEF ImportTypes, Stands
<1>4. Len(Rows(sheet)) \in Nat /\ DOMAIN Rows(sheet) = 1..Len(Rows(sheet))
  BY <1>2
<1>5. Row = Rows(sheet)[import.row] /\ Row \in SheetLines
  BY <1>2, <1>3, <1>4 DEF Row
<1> QED BY <1>1, <1>2, <1>3, <1>4, <1>5 DEF Imports

\* The article whose stock is about to be set.
LEMMA StockTarget == TransferInv /\ import.at = "stock" => import.target \in Ids
<1> SUFFICES ASSUME TransferInv, import.at = "stock" PROVE import.target \in Ids
  OBVIOUS
<1>1. ImportTypes /\ RowInv /\ TakenInv
  BY DEF TransferInv
<1>2. import.row \in DOMAIN outcome
  BY <1>1 DEF ImportTypes, Stands
<1> QED BY <1>1, <1>2 DEF RowInv, TakenInv, Stands

\* What an article is changed into is known of no other.
LEMMA Changed ==
  ASSUME NEW of \in [Ids -> Articles], NEW p \in Ids, NEW new \in Articles
  PROVE  /\ [of EXCEPT ![p] = new] \in [Ids -> Articles] /\ [of EXCEPT ![p] = new][p] = new
         /\ \A q \in Ids \ {p} : [of EXCEPT ![p] = new][q] = of[q]
OBVIOUS

\* The form changes a price, the codes to some no other article has, and the version.
LEMMA EditProductKeeps ==
  ASSUME TransferInv, NEW p \in Ids, NEW codes \in Given(p), EditProduct(p, codes) PROVE TransferInv'
<1> DEFINE new == [products[p] EXCEPT !.price = HandPrice, !.sku = codes.sku,
                                      !.barcode = codes.barcode, !.version = products[p].version + 1]
<1>1. /\ products[p].live /\ posted' = posted /\ cats' = cats /\ apart' = apart /\ sheet' = sheet
      /\ import' = import /\ outcome' = outcome /\ before' = before /\ passes' = passes
      /\ disturbed' = TRUE /\ level' = level /\ products' = [products EXCEPT ![p] = new]
      /\ Unused(codes, {p})
  BY DEF EditProduct
<1>2. touched' = IF import.at \in {"codes", "write"} /\ import.target = p THEN touched
                 ELSE touched \cup {p}
  BY DEF EditProduct
<1>3. products \in [Ids -> Articles] /\ products[p] \in Articles
  BY DEF TransferInv, ShelfTypes
<1>a. codes.sku \in Cells /\ codes.barcode \in Cells
  <2>1. products[p].sku \in Cells /\ products[p].barcode \in Cells
    BY <1>3 DEF Articles
  <2> QED BY <2>1, TransferAssumption DEF Given
<1>4. /\ new \in Articles /\ new.price = HandPrice /\ new.version = products[p].version + 1
      /\ new.live = products[p].live /\ new.sku = codes.sku /\ new.cat = products[p].cat
      /\ new.barcode = codes.barcode /\ new.min = products[p].min
  <2>1. products[p].version + 1 \in Nat /\ HandPrice \in Int
    BY <1>3, TransferAssumption DEF Articles
  <2> QED BY ONLY <1>3, <1>a, <2>1 DEF Articles, new
<1> HIDE DEF new
<1>5. /\ products' \in [Ids -> Articles] /\ products'[p] = new
      /\ \A q \in Ids \ {p} : products'[q] = products[q]
  BY <1>1, <1>2, <1>3, <1>4, Changed
<1>6. \A q \in Ids : /\ products'[q].live = products[q].live /\ products'[q].cat = products[q].cat
                     /\ products[q].version \in Nat /\ products'[q].version \in Nat
                     /\ products'[q].version >= products[q].version
                     /\ q = p => products'[q].version > products[q].version
  <2>1. \A q \in Ids : products[q].version \in Nat /\ products'[q].version \in Nat
    BY <1>3, <1>5 DEF Articles
  <2> QED BY <1>4, <1>5, <2>1
<1>7. ShelfTypes'
  BY <1>1, <1>2, <1>5 DEF TransferInv, ShelfTypes
<1>8. SheetTypes' /\ ImportTypes'
  BY <1>1 DEF TransferInv, SheetTypes, ImportTypes, Stands
<1>9. ShelfInv'
  <2>1. OwnCodes(products)'
    <3>1. OwnCodes(products)
      BY DEF TransferInv, ShelfInv
    <3>2. \A q \in Ids \ {p} : products[q].live =>
            /\ codes.sku # None => products[q].sku # codes.sku
            /\ codes.barcode # None => products[q].barcode # codes.barcode
      BY <1>1 DEF Unused, BySku, ByBarcode
    <3> QED BY <1>1, <1>4, <1>5, <3>1, <3>2 DEF OwnCodes
  <2>2. HandPriceKept'
    BY <1>2, <1>4, <1>5 DEF TransferInv, ShelfTypes, ShelfInv, HandPriceKept
  <2>3. \A q \in Ids : products'[q].version = 0 => ~products'[q].live /\ posted'[q] = 0
    BY <1>1, <1>6 DEF TransferInv, ShelfInv
  <2> QED BY <1>1, <1>6, <2>1, <2>2, <2>3 DEF TransferInv, ShelfInv, StockSetOnce, OneCategoryPerName
<1>10. CategoriesInv'
  BY <1>1 DEF TransferInv, CategoriesInv, IsKnown, Stands, Row
<1>11. SeenInv'
  <2>1. SUFFICES ASSUME ~Stands("none") PROVE SeenInv'
    BY <1>1 DEF SeenInv, Stands
  <2>2. import.seen \in [Ids -> Articles]
    BY <2>1 DEF TransferInv, ImportTypes, Imports
  <2>3. \A q \in Ids : import.seen[q].version \in Nat
    BY <2>2 DEF Articles
  <2>4. SeenInv
    BY DEF TransferInv
  <2> QED BY <1>1, <1>2, <1>6, <2>1, <2>3, <2>4 DEF SeenInv, Stands, OwnCodes
<1>12. RowInv'
  <2>1. RowInv
    BY DEF TransferInv
  <2>3. import.at \in {"codes", "write"} /\ import.target \notin touched => import.target \notin touched'
    BY <1>2
  <2>4. import.at = "stock" => products'[import.target].version > 0
    BY <1>6, <2>1, StockTarget DEF RowInv, Stands
  <2> QED BY <1>1, <2>1, <2>3, <2>4 DEF RowInv, Stands, Row, Coming, Taken
<1>13. TakenInv'
  BY <1>1 DEF TransferInv, TakenInv, Taken
<1> QED BY <1>1, <1>7, <1>8, <1>9, <1>10, <1>11, <1>12, <1>13 DEF TransferInv

\* The form makes an article, of codes that none has.
LEMMA CreateProductKeeps ==
  ASSUME TransferInv, NEW codes \in HandCodes, CreateProduct(codes) PROVE TransferInv'
<1> DEFINE t == NewId  new == NewByHand(codes)
<1>1. /\ Unused(codes, {}) /\ \E p \in Ids : products[p].version = 0
      /\ products' = [products EXCEPT ![t] = new]
      /\ level' = [level EXCEPT ![t] = 1] /\ posted' = [posted EXCEPT ![t] = 1]
      /\ touched' = touched \cup {t} /\ disturbed' = TRUE /\ cats' = cats /\ apart' = apart
      /\ sheet' = sheet /\ import' = import /\ outcome' = outcome /\ before' = before /\ passes' = passes
  BY DEF CreateProduct
<1>2. t \in Ids /\ products[t].version = 0
  BY <1>1, NewIdIs
<1>3. products \in [Ids -> Articles] /\ level \in [Ids -> Int] /\ posted \in [Ids -> Nat]
  BY DEF TransferInv, ShelfTypes
<1> HIDE DEF t
<1>4. /\ new \in Articles /\ new.live = TRUE /\ new.sku = codes.sku /\ new.barcode = codes.barcode
      /\ new.cat = 0 /\ new.price = HandPrice /\ new.version = 1
  <2>1. NoProduct \in Articles /\ HandPrice \in Int /\ codes.sku \in Cells /\ codes.barcode \in Cells
    BY TransferAssumption DEF NoProduct, Articles
  <2> QED BY ONLY <2>1 DEF Articles, NewByHand, NoProduct
<1> HIDE DEF new
<1>5. /\ products' \in [Ids -> Articles] /\ products'[t] = new
      /\ \A q \in Ids \ {t} : products'[q] = products[q]
  BY <1>1, <1>2, <1>3, <1>4, Changed
<1>6. /\ level' \in [Ids -> Int] /\ posted' \in [Ids -> Nat] /\ posted'[t] = 1
      /\ \A q \in Ids \ {t} : posted'[q] = posted[q]
  BY <1>1, <1>2, <1>3
<1>7. ShelfTypes' /\ SheetTypes' /\ ImportTypes'
  BY <1>1, <1>2, <1>5, <1>6 DEF TransferInv, ShelfTypes, SheetTypes, ImportTypes, Stands
<1>8. ShelfInv'
  <2>1. OwnCodes(products')
    <3>1. OwnCodes(products)
      BY DEF TransferInv, ShelfInv
    <3>2. \A q \in Ids \ {t} : products[q].live =>
            /\ codes.sku # None => products[q].sku # codes.sku
            /\ codes.barcode # None => products[q].barcode # codes.barcode
      BY <1>1 DEF Unused, BySku, ByBarcode
    <3> QED BY <1>4, <1>5, <3>1, <3>2 DEF OwnCodes
  <2>2. HandPriceKept'
    BY <1>1, <1>4, <1>5 DEF TransferInv, ShelfTypes, ShelfInv, HandPriceKept
  <2>3. StockSetOnce'
    BY <1>6 DEF TransferInv, ShelfInv, StockSetOnce
  <2>4. \A q \in Ids : products'[q].version = 0 => ~products'[q].live /\ posted'[q] = 0
    BY <1>4, <1>5, <1>6 DEF TransferInv, ShelfInv
  <2>5. \A q \in Ids : products'[q].cat <= Len(cats)
    <3>1. Len(cats) \in Nat
      BY DEF TransferInv, ShelfTypes
    <3> QED BY <1>4, <1>5, <3>1 DEF TransferInv, ShelfInv
  <2>6. OneCategoryPerName'
    BY <1>1 DEF TransferInv, ShelfInv, OneCategoryPerName
  <2> QED BY <1>1, <2>1, <2>2, <2>3, <2>4, <2>5, <2>6 DEF ShelfInv
<1>9. CategoriesInv'
  BY <1>1 DEF TransferInv, CategoriesInv, IsKnown, Stands, Row
<1>10. ASSUME import.at # "none"
       PROVE  /\ import.seen[t].version = 0 /\ ~import.seen[t].live
              /\ import.target = t => import.at \notin {"codes", "write", "stock"}
  <2>1. import.seen[t].version = 0 /\ ~import.seen[t].live
    <3>1. import.seen \in [Ids -> Articles]
      BY <1>10, Going
    <3>2. import.seen[t].version \in Nat
      BY <1>2, <3>1 DEF Articles
    <3> QED BY <1>2, <1>10, <3>2 DEF TransferInv, SeenInv, Stands
  <2>2. import.at \in {"codes", "write"} => import.target # t
    <3>1. t # 0
      BY <1>2 DEF Ids
    <3> QED BY <1>10, <2>1, <3>1, MatchHas DEF TransferInv, RowInv, Stands, Writing
  <2>3. import.at = "stock" => import.target # t
    BY <1>2, <1>10 DEF TransferInv, RowInv, Stands
  <2> QED BY <2>1, <2>2, <2>3
<1>11. SeenInv'
  <2>1. SUFFICES ASSUME import.at # "none" PROVE SeenInv'
    BY <1>1 DEF SeenInv, Stands
  <2>2. SeenInv
    BY DEF TransferInv
  <2> QED BY <1>1, <1>4, <1>5, <1>10, <2>1, <2>2 DEF SeenInv, Stands, OwnCodes
<1>12. RowInv'
  <2>1. SUFFICES ASSUME import.at # "none" PROVE RowInv'
    BY <1>1 DEF RowInv, Stands
  <2>2. RowInv
    BY DEF TransferInv
  <2>3. import.at = "stock" => /\ products'[import.target].version = products[import.target].version
                              /\ posted'[import.target] = posted[import.target]
    BY <1>5, <1>6, <1>10, <2>1, StockTarget
  <2>4. import.at \in {"codes", "write"} /\ import.target \notin touched => import.target \notin touched'
    BY <1>1, <1>10, <2>1
  <2> QED BY <1>1, <2>1, <2>2, <2>3, <2>4 DEF RowInv, Stands, Row, Coming, Taken
<1>13. TakenInv'
  BY <1>1 DEF TransferInv, TakenInv, Taken
<1> QED BY <1>1, <1>7, <1>8, <1>9, <1>11, <1>12, <1>13 DEF TransferInv

\* A deletion frees the codes and changes the version.
LEMMA DeleteProductKeeps == ASSUME TransferInv, NEW p \in Ids, DeleteProduct(p) PROVE TransferInv'
<1> DEFINE new == [products[p] EXCEPT !.live = FALSE, !.sku = None, !.barcode = None,
                                      !.version = products[p].version + 1]
<1>1. /\ products[p].live /\ posted' = posted /\ cats' = cats /\ apart' = apart /\ sheet' = sheet
      /\ import' = import /\ outcome' = outcome /\ before' = before /\ passes' = passes
      /\ disturbed' = TRUE /\ level' = level /\ touched' = touched \ {p}
  BY DEF DeleteProduct
<1>2. products' = [products EXCEPT ![p] = new]
  BY DEF DeleteProduct
<1>3. products \in [Ids -> Articles] /\ products[p] \in Articles
  BY DEF TransferInv, ShelfTypes
<1>4. /\ new \in Articles /\ new.price = products[p].price /\ new.version = products[p].version + 1
      /\ ~new.live /\ new.sku = None /\ new.cat = products[p].cat
      /\ new.barcode = None /\ new.min = products[p].min
  <2>1. products[p].version + 1 \in Nat /\ None \in Cells
    BY <1>3, TransferAssumption DEF Articles
  <2> QED BY ONLY <1>3, <2>1 DEF Articles, new
<1> HIDE DEF new
<1>5. /\ products' \in [Ids -> Articles] /\ products'[p] = new
      /\ \A q \in Ids \ {p} : products'[q] = products[q]
  BY <1>1, <1>2, <1>3, <1>4, Changed
<1>6. \A q \in Ids : /\ products[q].version \in Nat /\ products'[q].version \in Nat
                     /\ products'[q].version >= products[q].version
                     /\ products'[q].cat = products[q].cat /\ products'[q].price = products[q].price
                     /\ products'[q].live => q # p
  <2>1. \A q \in Ids : products[q].version \in Nat /\ products'[q].version \in Nat
    BY <1>3, <1>5 DEF Articles
  <2> QED BY <1>4, <1>5, <2>1
<1>7. ShelfTypes'
  BY <1>1, <1>5 DEF TransferInv, ShelfTypes
<1>8. SheetTypes' /\ ImportTypes'
  BY <1>1 DEF TransferInv, SheetTypes, ImportTypes, Stands
<1>9. ShelfInv'
  <2>1. OwnCodes(products)'
    BY <1>5, <1>6 DEF TransferInv, ShelfInv, OwnCodes
  <2>2. HandPriceKept'
    BY <1>1, <1>6 DEF TransferInv, ShelfTypes, ShelfInv, HandPriceKept
  <2>3. \A q \in Ids : products'[q].version = 0 => ~products'[q].live /\ posted'[q] = 0
    BY <1>1, <1>3, <1>4, <1>5, <1>6 DEF TransferInv, ShelfInv
  <2> QED BY <1>1, <1>6, <2>1, <2>2, <2>3 DEF TransferInv, ShelfInv, StockSetOnce, OneCategoryPerName
<1>10. CategoriesInv'
  BY <1>1 DEF TransferInv, CategoriesInv, IsKnown, Stands, Row
<1>11. SeenInv'
  <2>1. SUFFICES ASSUME ~Stands("none") PROVE SeenInv'
    BY <1>1 DEF SeenInv, Stands
  <2>2. import.seen \in [Ids -> Articles]
    BY <2>1 DEF TransferInv, ImportTypes, Imports
  <2>3. \A q \in Ids : import.seen[q].version \in Nat
    BY <2>2 DEF Articles
  <2>4. SeenInv
    BY DEF TransferInv
  <2> QED BY <1>1, <1>6, <2>1, <2>3, <2>4 DEF SeenInv, Stands, OwnCodes
<1>12. RowInv'
  <2>1. RowInv
    BY DEF TransferInv
  <2>4. import.at = "stock" => products'[import.target].version > 0
    BY <1>6, <2>1, StockTarget DEF RowInv, Stands
  <2> QED BY <1>1, <2>1, <2>4 DEF RowInv, Stands, Row, Coming, Taken
<1>13. TakenInv'
  BY <1>1 DEF TransferInv, TakenInv, Taken
<1> QED BY <1>1, <1>7, <1>8, <1>9, <1>10, <1>11, <1>12, <1>13 DEF TransferInv

\* The articles of a deleted category have none, and no screen says the catalogue is undisturbed.
LEMMA DeleteCategoryKeeps ==
  ASSUME TransferInv, NEW c \in DOMAIN cats, DeleteCategory(c) PROVE TransferInv'
<1> DEFINE bare(p) == [products[p] EXCEPT !.cat = 0]
<1>1. /\ cats[c].live /\ posted' = posted /\ sheet' = sheet /\ touched' = touched
      /\ import' = import /\ outcome' = outcome /\ before' = before /\ passes' = passes
      /\ disturbed' = TRUE /\ level' = level /\ apart' = apart
      /\ cats' = [cats EXCEPT ![c].live = FALSE]
      /\ products' = [p \in Ids |-> IF products[p].cat = c THEN bare(p) ELSE products[p]]
  BY DEF DeleteCategory
<1>2. products \in [Ids -> Articles] /\ cats \in Seq(CategoryRows)
  BY DEF TransferInv, ShelfTypes
<1>3. ASSUME NEW p \in Ids
      PROVE  /\ bare(p) \in Articles /\ bare(p).live = products[p].live /\ bare(p).sku = products[p].sku
             /\ bare(p).barcode = products[p].barcode /\ bare(p).price = products[p].price
             /\ bare(p).min = products[p].min /\ bare(p).version = products[p].version /\ bare(p).cat = 0
  <2>1. products[p] \in Articles
    BY <1>2
  <2> QED BY ONLY <2>1 DEF Articles
<1> HIDE DEF bare
<1>4. /\ cats' \in Seq(CategoryRows) /\ Len(cats') = Len(cats) /\ DOMAIN cats' = DOMAIN cats
      /\ \A d \in DOMAIN cats : cats'[d].name = cats[d].name /\ (cats'[d].live => cats[d].live)
  <2>1. cats[c] \in CategoryRows
    BY <1>2
  <2> DEFINE off == [cats[c] EXCEPT !.live = FALSE]
  <2>2. off \in CategoryRows /\ off.name = cats[c].name /\ ~off.live
    BY <2>1 DEF CategoryRows
  <2>3. cats' = [cats EXCEPT ![c] = off]
    BY <1>1
  <2> HIDE DEF off
  <2> QED BY <1>2, <2>2, <2>3
<1>5. /\ products' \in [Ids -> Articles]
      /\ \A q \in Ids : /\ products'[q].live = products[q].live /\ products'[q].sku = products[q].sku
                        /\ products'[q].barcode = products[q].barcode
                        /\ products'[q].price = products[q].price
                        /\ products'[q].version = products[q].version
                        /\ products'[q].cat \in {0, products[q].cat}
  BY <1>1, <1>2, <1>3
<1>7. ShelfTypes'
  BY <1>1, <1>4, <1>5 DEF TransferInv, ShelfTypes
<1>8. SheetTypes' /\ ImportTypes'
  BY <1>1 DEF TransferInv, SheetTypes, ImportTypes, Stands
<1>9. ShelfInv'
  <2>1. OwnCodes(products)'
    BY <1>5 DEF TransferInv, ShelfInv, OwnCodes
  <2>2. HandPriceKept' /\ StockSetOnce'
    BY <1>1, <1>5 DEF TransferInv, ShelfTypes, ShelfInv, HandPriceKept, StockSetOnce
  <2>3. \A q \in Ids : products'[q].version = 0 => ~products'[q].live /\ posted'[q] = 0
    BY <1>1, <1>5 DEF TransferInv, ShelfInv
  <2>4. OneCategoryPerName'
    BY <1>1, <1>4 DEF TransferInv, ShelfInv, OneCategoryPerName
  <2>5. \A q \in Ids : products'[q].cat <= Len(cats')
    <3>1. Len(cats) \in Nat
      BY <1>2
    <3> QED BY <1>4, <1>5, <3>1 DEF TransferInv, ShelfInv
  <2> QED BY <2>1, <2>2, <2>3, <2>4, <2>5 DEF ShelfInv
<1>10. CategoriesInv'
  BY <1>1, <1>4 DEF TransferInv, CategoriesInv, IsKnown, Stands, Row
<1>11. SeenInv'
  BY <1>1, <1>5 DEF TransferInv, SeenInv, Stands, OwnCodes
<1>12. RowInv'
  <2>1. RowInv
    BY DEF TransferInv
  <2>4. import.at = "stock" => products'[import.target].version > 0
    BY <1>5, <2>1, StockTarget DEF RowInv, Stands
  <2> QED BY <1>1, <2>1, <2>4 DEF RowInv, Stands, Row, Coming, Taken
<1>13. TakenInv'
  BY <1>1 DEF TransferInv, TakenInv, Taken
<1> QED BY <1>1, <1>7, <1>8, <1>9, <1>10, <1>11, <1>12, <1>13 DEF TransferInv

\* The program stops: what was done stays.
LEMMA AbandonKeeps == ASSUME TransferInv, Abandon PROVE TransferInv'
<1>1. /\ products' = products /\ posted' = posted /\ cats' = cats /\ apart' = apart /\ sheet' = sheet
      /\ import' = Resting /\ outcome' = outcome /\ before' = before /\ passes' = passes
      /\ touched' = touched /\ disturbed' = TRUE /\ level' = level
  BY DEF Abandon
<1>2. import'.at = "none"
  BY <1>1 DEF Resting
<1>3. ShelfTypes' /\ SheetTypes' /\ ImportTypes'
  BY <1>1, <1>2 DEF TransferInv, ShelfTypes, SheetTypes, ImportTypes, Stands, Resting
<1>4. ShelfInv' /\ CategoriesInv' /\ SeenInv' /\ RowInv' /\ TakenInv'
  BY <1>1, <1>2 DEF TransferInv, ShelfInv, CategoriesInv, IsKnown, SeenInv, RowInv, TakenInv, Stands, Taken,
                    StockSetOnce, OneCategoryPerName, HandPriceKept, OwnCodes
<1> QED BY <1>1, <1>3, <1>4 DEF TransferInv

\* The sheet that is written has a line for each article, which is known.
LEMMA ExportKeeps == ASSUME TransferInv, Export PROVE TransferInv'
<1> DEFINE Shown(order) == [i \in DOMAIN order |->
            [sku |-> products[order[i]].sku, barcode |-> products[order[i]].barcode,
             cat |-> IF products[order[i]].cat = 0 THEN None ELSE cats[products[order[i]].cat].name,
             price |-> products[order[i]].price, qty |-> level[order[i]],
             min |-> products[order[i]].min, reads |-> TRUE]]
<1>1. PICK order \in [1..Cardinality(Listed) -> Listed] :
        /\ sheet' = Shown(order)
        /\ before' = [i \in DOMAIN order |->
            [as |-> IF Duplicate(sheet', i) THEN "skipped" ELSE "updated", on |-> order[i]]]
  BY DEF Export
<1>2. /\ passes = 0 /\ import.at = "none" /\ before = <<>> /\ disturbed' = FALSE
      /\ products' = products /\ posted' = posted /\ cats' = cats /\ apart' = apart /\ level' = level
      /\ import' = import /\ outcome' = outcome /\ passes' = passes /\ touched' = touched
  BY DEF Export
<1>3. Cardinality(Listed) \in Nat
  <2>1. IsFiniteSet(Ids)
    BY TransferAssumption, FS_Interval DEF Ids
  <2> QED BY <2>1, FS_Subset, FS_CardinalityType DEF Listed
<1> DEFINE n == Cardinality(Listed)
<1>4. ASSUME NEW i \in 1..n
      PROVE  /\ order[i] \in Ids /\ products[order[i]].live
             /\ Shown(order)[i] \in SheetLines /\ Shown(order)[i].reads
             /\ Shown(order)[i].sku = products[order[i]].sku
             /\ Shown(order)[i].barcode = products[order[i]].barcode
  <2>1. order[i] \in Ids /\ products[order[i]].live
    BY DEF Listed
  <2>2. products[order[i]] \in Articles /\ level[order[i]] \in Int
    BY <2>1 DEF TransferInv, ShelfTypes
  <2>3. products[order[i]].cat # 0 => cats[products[order[i]].cat].name \in Cells
    <3>1. products[order[i]].cat \in Nat /\ products[order[i]].cat <= Len(cats)
      BY <2>1, <2>2 DEF TransferInv, ShelfInv, Articles
    <3>2. cats \in Seq(CategoryRows)
      BY DEF TransferInv, ShelfTypes
    <3>3. products[order[i]].cat # 0 => cats[products[order[i]].cat] \in CategoryRows
      BY <3>1, <3>2
    <3> QED BY <3>3 DEF CategoryRows, Names
  <2>4. None \in Cells
    BY TransferAssumption
  <2> QED BY <2>1, <2>2, <2>3, <2>4 DEF Articles, SheetLines
<1>5. sheet' \in [1..n -> SheetLines] /\ \A i \in 1..n : sheet'[i].reads
  BY <1>1, <1>4
<1>6. Rows(sheet') = sheet' /\ sheet' \in Seq(SheetLines) /\ DOMAIN sheet' = 1..n
  BY <1>3, <1>5, AllRead
<1>7. /\ DOMAIN before' = 1..n
      /\ \A i \in 1..n : /\ before'[i].as = IF Duplicate(sheet', i) THEN "skipped" ELSE "updated"
                         /\ before'[i].on = order[i] /\ before'[i] \in Results
  <2>1. \A i \in 1..n : order[i] \in 0..MaxProducts
    <3>1. MaxProducts \in Nat /\ \A i \in 1..n : order[i] \in Ids
      BY <1>4, TransferAssumption
    <3> QED BY ONLY <3>1 DEF Ids
  <2>2. DOMAIN order = 1..n
    OBVIOUS
  <2> HIDE DEF n, Shown
  <2>3. DOMAIN before' = 1..n /\ \A i \in 1..n : before'[i] =
            [as |-> IF Duplicate(sheet', i) THEN "skipped" ELSE "updated", on |-> order[i]]
    BY <1>1, <2>2
  <2> QED BY <2>1, <2>3 DEF Results
<1> HIDE DEF n, Shown
<1>8. outcome = <<>>
  BY <1>2 DEF TransferInv
<1>9. ShelfTypes'
  BY <1>2 DEF TransferInv, ShelfTypes
<1>10. SheetTypes'
  <2>1. before' \in [1..n -> Results]
    <3>1. before' = [i \in DOMAIN before' |-> before'[i]]
      BY <1>1
    <3> QED BY <1>7, <3>1
  <2>2. outcome' = <<>> /\ DOMAIN <<>> = {}
    BY <1>2, <1>8
  <2>3. outcome' \in [DOMAIN outcome' -> Results]
    BY <1>2 DEF TransferInv, SheetTypes
  <2> QED BY <1>6, <1>7, <2>1, <2>2, <2>3 DEF SheetTypes
<1>11. ImportTypes'
  BY <1>2 DEF TransferInv, ImportTypes, Stands
<1>12. ShelfInv' /\ CategoriesInv' /\ SeenInv' /\ RowInv'
  BY <1>2 DEF TransferInv, ShelfInv, CategoriesInv, IsKnown, SeenInv, RowInv, Stands,
                    StockSetOnce, OneCategoryPerName, HandPriceKept, OwnCodes
<1>13. DOMAIN outcome' = {}
  BY <1>2, <1>8
<1>14. TakenInv' /\ WroteInv' /\ ReadInv' /\ SameAgain'
  BY <1>2, <1>13 DEF TakenInv, WroteInv, ReadInv, SameAgain, Stands
<1>15. CurrentInv'
  BY <1>2 DEF CurrentInv, Stands
<1>16. AgainInv'
  <2>1. ASSUME NEW i \in DOMAIN before', before'[i].as \in {"created", "updated"}
        PROVE  /\ before'[i].on \in Ids /\ ~Duplicate(Rows(sheet'), i)
               /\ Bears(products'[before'[i].on], Rows(sheet')[i])
    <3>1. i \in 1..n /\ before'[i].on = order[i] /\ ~Duplicate(sheet', i)
      BY <1>7, <2>1
    <3>2. Rows(sheet')[i] = Shown(order)[i] /\ products' = products
      BY <1>1, <1>2, <1>6
    <3> QED BY <1>4, <1>6, <3>1, <3>2 DEF Bears
  <2> QED BY <1>2, <1>8, <1>14, <2>1 DEF AgainInv, Known, Stands
<1> QED BY <1>2, <1>8, <1>9, <1>10, <1>11, <1>12, <1>14, <1>15, <1>16 DEF TransferInv

\* The catalogue is listed: what the pass before, or the export, said of the rows is so.
LEMMA ApplyKeeps == ASSUME TransferInv, Apply PROVE TransferInv'
<1> DEFINE rows == Rows(sheet)
<1>1. /\ import.at = "none" /\ rows # <<>>
      /\ products' = products /\ posted' = posted /\ cats' = cats /\ apart' = apart /\ level' = level /\ sheet' = sheet
      /\ disturbed' = disturbed /\ touched' = {} /\ passes' = passes + 1
      /\ before' = IF passes = 0 THEN before ELSE outcome
      /\ outcome' = [i \in DOMAIN rows |->
            [as |-> IF Duplicate(rows, i) THEN "skipped" ELSE "none", on |-> 0]]
  BY DEF Apply, Stands
<1>2. import' = [Resting EXCEPT !.at = "categories", !.rows = rows, !.seen = products]
  BY DEF Apply
<1>3. /\ import'.at = "categories" /\ import'.row = 1 /\ import'.rows = rows
      /\ import'.seen = products /\ import'.cats = [name \in Names |-> 0] /\ import'.target = 0 /\ import'.cat = 0
      /\ import' = [at |-> "categories", row |-> 1, rows |-> rows, seen |-> products,
                    cats |-> [name \in Names |-> 0], target |-> 0, cat |-> 0, old |-> NoProduct]
  BY <1>2 DEF Resting
<1>4. /\ rows \in Seq(SheetLines) /\ 1 \in DOMAIN rows /\ \A i \in DOMAIN rows : i \in Int /\ i >= 1
  <2>1. sheet \in Seq(SheetLines)
    BY DEF TransferInv, SheetTypes
  <2>2. rows \in Seq(SheetLines)
    BY <2>1, RowsAre
  <2> HIDE DEF rows
  <2> QED BY <1>1, <2>2
<1> HIDE DEF rows
<1>5. products \in [Ids -> Articles] /\ \A p \in Ids : products[p].version \in Nat
  <2>1. products \in [Ids -> Articles]
    BY DEF TransferInv, ShelfTypes
  <2> QED BY <2>1 DEF Articles
<1>6. passes \in Nat /\ passes' > 0 /\ passes' \in Nat
  BY <1>1 DEF TransferInv, ShelfTypes
<1>7. import' \in Imports
  <2>1. NoProduct \in Articles
    BY TransferAssumption DEF NoProduct, Articles
  <2>2. 0 \in 0..MaxProducts /\ [name \in Names |-> 0] \in [Names -> Nat]
    BY TransferAssumption
  <2>3. "categories" \in Steps
    BY DEF Steps
  <2> QED BY <1>3, <1>4, <1>5, <2>1, <2>2, <2>3 DEF Imports
<1>8. /\ DOMAIN outcome' = DOMAIN rows
      /\ \A i \in DOMAIN rows : outcome'[i] = [as |-> IF Duplicate(rows, i) THEN "skipped" ELSE "none", on |-> 0]
  BY <1>1
<1>9. \A i \in DOMAIN rows : /\ outcome'[i].as = IF Duplicate(rows, i) THEN "skipped" ELSE "none"
                             /\ outcome'[i].on = 0 /\ outcome'[i] \in Results
  <2>1. 0 \in 0..MaxProducts
    BY TransferAssumption
  <2> QED BY <1>8, <2>1 DEF Results
<1>10. ShelfTypes'
  BY <1>1, <1>6 DEF TransferInv, ShelfTypes
<1>11. SheetTypes'
  <2>1. outcome' \in [DOMAIN outcome' -> Results]
    BY <1>1, <1>9
  <2>2. before' \in [DOMAIN before' -> Results] /\ DOMAIN before' \subseteq DOMAIN rows
    BY <1>1 DEF TransferInv, SheetTypes, rows
  <2> QED BY <1>1, <1>8, <2>1, <2>2 DEF TransferInv, SheetTypes, rows
<1>12. ImportTypes'
  BY <1>1, <1>3, <1>4, <1>6, <1>7, <1>8 DEF ImportTypes, Stands, rows
<1>13. ShelfInv'
  BY <1>1 DEF TransferInv, ShelfInv, OwnCodes, StockSetOnce, OneCategoryPerName, HandPriceKept
<1>14. CategoriesInv'
  <2>1. Len(cats) \in Nat
    BY DEF TransferInv, ShelfTypes
  <2> QED BY <1>1, <1>3, <2>1 DEF CategoriesInv, IsKnown, Stands, Writing
<1>15. SeenInv'
  BY <1>1, <1>3, <1>5 DEF TransferInv, ShelfInv, SeenInv, OwnCodes, Stands
<1>16. RowInv'
  BY <1>1, <1>3, <1>8 DEF RowInv, Stands, Writing, rows
<1>17. TakenInv'
  BY <1>8, <1>9 DEF TakenInv, Taken
<1>18. ASSUME ~disturbed
       PROVE  ClearInv'
  <2>1. WroteInv' /\ ReadInv'
    BY <1>1, <1>3, <1>8, <1>9 DEF WroteInv, ReadInv, Taken
  <2>2. CurrentInv'
    BY <1>3 DEF CurrentInv, Stands
  <2>3. ASSUME NEW i \in DOMAIN before', before'[i].as \in {"created", "updated"},
               CodesOf(rows[i]) # {}
        PROVE  /\ before'[i].on \in Ids /\ ~Duplicate(rows, i) /\ i \in DOMAIN rows
               /\ Bears(products[before'[i].on], rows[i])
    <3>1. CASE passes = 0
      <4>1. AgainInv
        BY <1>18 DEF TransferInv
      <4>2. before' = before /\ DOMAIN before \subseteq DOMAIN rows
        BY <1>1, <3>1 DEF TransferInv, SheetTypes, rows
      <4> QED BY <2>3, <3>1, <4>1, <4>2 DEF AgainInv, Known, rows
    <3>2. CASE passes # 0
      <4>1. before' = outcome /\ DOMAIN outcome \subseteq DOMAIN rows
        BY <1>1, <3>2 DEF TransferInv, SheetTypes, rows
      <4>2. i \in DOMAIN outcome /\ Taken(i)
        BY <2>3, <4>1 DEF Taken
      <4>3. WroteInv /\ TakenInv
        BY <1>18 DEF TransferInv
      <4> QED BY <4>1, <4>2, <4>3 DEF WroteInv, TakenInv, IsWritten, rows
    <3> QED BY <3>1, <3>2
  <2>4. AgainInv'
    <3>1. SameAgain'
      BY <1>1, <1>8, <1>9, <2>3 DEF SameAgain, NotYet, rows
    <3>2. passes' # 0
      BY <1>6
    <3> QED BY <1>1, <1>3, <2>3, <3>1, <3>2 DEF AgainInv, Known, Writing, rows
  <2> QED BY <2>1, <2>2, <2>4 DEF ClearInv
<1> QED BY <1>1, <1>6, <1>10, <1>11, <1>12, <1>13, <1>14, <1>15, <1>16, <1>17, <1>18
           DEF TransferInv, ClearInv

\* The categories that are there are those read.
LEMMA ReadCategoriesKeeps == ASSUME TransferInv, ReadCategories PROVE TransferInv'
<1>0. PICK known \in [Names -> 0..Len(cats)] :
        /\ \A name \in Names : IF Named(name) = {} THEN known[name] = 0
                               ELSE known[name] \in Named(name)
        /\ import' = [import EXCEPT !.at = "category", !.cats = known]
  BY DEF ReadCategories
<1>1. /\ import.at = "categories"
      /\ products' = products /\ posted' = posted /\ cats' = cats /\ level' = level /\ sheet' = sheet
      /\ disturbed' = disturbed /\ touched' = touched /\ passes' = passes /\ before' = before
      /\ outcome' = outcome /\ apart' = apart
  BY DEF ReadCategories, Stands
<1>2. import \in Imports /\ import.cat \in Nat
  BY <1>1, Going
<1>3. /\ cats \in Seq(CategoryRows) /\ Len(cats) \in Nat /\ known \in [Names -> Nat]
      /\ \A name \in Names : known[name] \in Nat /\ known[name] <= Len(cats)
  BY DEF TransferInv, ShelfTypes
<1>4. /\ import' \in Imports /\ import'.at = "category" /\ import'.cats = known
      /\ import'.row = import.row /\ import'.rows = import.rows /\ import'.seen = import.seen
      /\ import'.target = import.target /\ import'.cat = import.cat
  <2>1. "category" \in Steps
    BY DEF Steps
  <2> QED BY ONLY <1>0, <1>2, <1>3, <2>1 DEF Imports
<1>5. ShelfTypes' /\ SheetTypes'
  BY <1>1 DEF TransferInv, ShelfTypes, SheetTypes
<1>6. ImportTypes'
  BY <1>1, <1>4 DEF TransferInv, ImportTypes, Stands
<1>7. ShelfInv' /\ SeenInv' /\ TakenInv'
  BY <1>1, <1>4 DEF TransferInv, ShelfInv, SeenInv, TakenInv, Taken, Stands, OwnCodes, StockSetOnce,
                    OneCategoryPerName, HandPriceKept
<1>8. CategoriesInv'
  <2>1. \A c \in DOMAIN cats : cats[c].live => known[cats[c].name] # 0
    <3>1. ASSUME NEW c \in DOMAIN cats, cats[c].live PROVE known[cats[c].name] # 0
      <4>1. c \in Named(cats[c].name) /\ cats[c].name \in Names
        <5>1. cats[c] \in CategoryRows
          BY <1>3
        <5> QED BY <3>1, <5>1 DEF Named, CategoryRows
      <4>2. \A d \in DOMAIN cats : d # 0
        BY <1>3
      <4> QED BY <1>0, <4>1, <4>2 DEF Named
    <3> QED BY <3>1
  <2>2. import.cat <= Len(cats)
    BY <1>1 DEF TransferInv, CategoriesInv, Stands
  <2> QED BY <1>1, <1>3, <1>4, <2>1, <2>2 DEF CategoriesInv, IsKnown, Stands, Writing
<1>9. RowInv'
  BY <1>1, <1>4 DEF TransferInv, RowInv, Stands, Writing, Coming
<1>10. ~disturbed => ClearInv'
  <2>1. SUFFICES ASSUME ~disturbed PROVE ClearInv'
    OBVIOUS
  <2>2. WroteInv'
    BY <1>1, <1>4, <2>1 DEF TransferInv, WroteInv, Taken, Stands
  <2>3. CurrentInv' /\ ReadInv'
    BY <1>1, <1>4, <2>1 DEF TransferInv, CurrentInv, ReadInv, Stands
  <2>a. AgainInv /\ SameAgain'
    BY <1>1, <2>1 DEF TransferInv, AgainInv, SameAgain
  <2>4. AgainInv'
    <3>1. passes # 0
      BY <1>1, Going
    <3>2. \A i \in DOMAIN before : (Known(i)' <=> Known(i)) /\ (Coming(i)' <=> Coming(i))
      BY <1>1, <1>4 DEF Known, Coming
    <3> QED BY <1>1, <1>4, <2>a, <3>1, <3>2 DEF AgainInv, Stands, Writing
  <2> QED BY <2>2, <2>3, <2>4 DEF ClearInv
<1> QED BY <1>1, <1>5, <1>6, <1>7, <1>8, <1>9, <1>10 DEF TransferInv, ClearInv

\* The row is matched with what the catalogue listed.
LEMMA FiledKeeps ==
  ASSUME TransferInv, import.at \in {"category", "record"}, outcome[import.row].as # "skipped",
         NEW known \in [Names -> Nat], NEW c \in Nat, Filed(known, c),
         c <= Len(cats), \A name \in Names : known[name] <= Len(cats),
         c = 0 <=> Row.cat = None,
         \A d \in DOMAIN cats : cats[d].live => known[cats[d].name] # 0 \/ cats[d].name \in apart,
         UNCHANGED <<products, level, posted, cats, sheet, outcome, before, passes, touched, disturbed,
                     apart>>
  PROVE  TransferInv'
<1> DEFINE M == MatchExisting(Row, import.seen)
           at == IF M = {} THEN "codes" ELSE "check"
           target == IF M = {} THEN 0 ELSE CHOOSE p \in M : TRUE
<1>1. import' = [import EXCEPT !.at = at, !.cats = known, !.cat = c, !.target = target]
  BY DEF Filed
<1>2. /\ products' = products /\ posted' = posted /\ level' = level /\ sheet' = sheet
      /\ disturbed' = disturbed /\ touched' = touched /\ passes' = passes /\ before' = before
      /\ outcome' = outcome /\ cats' = cats /\ apart' = apart
  OBVIOUS
<1>3. /\ M = {} => target = 0 /\ at = "codes"
      /\ M # {} => target \in M /\ target \in Ids /\ at = "check" /\ target # 0
      /\ target \in 0..MaxProducts /\ at \in Steps
  <2>1. M \subseteq Ids
    BY MatchHas
  <2> HIDE DEF M
  <2>2. M # {} => target \in M
    OBVIOUS
  <2>3. 0 \notin Ids /\ Ids \subseteq 0..MaxProducts /\ 0 \in 0..MaxProducts
    BY TransferAssumption DEF Ids
  <2> HIDE DEF target
  <2>4. M = {} => target = 0
    BY DEF target
  <2> QED BY <2>1, <2>2, <2>3, <2>4 DEF Steps, Writing
<1>4. /\ import \in Imports /\ Row = Rows(sheet)[import.row] /\ import.row \in DOMAIN outcome
      /\ import.row \in Nat /\ import.rows = Rows(sheet)
  BY Going
<1> HIDE DEF M, at, target
<1>5. /\ import' \in Imports /\ import'.at = at /\ import'.cats = known /\ import'.cat = c
      /\ import'.target = target /\ import'.row = import.row /\ import'.rows = import.rows
      /\ import'.seen = import.seen
  BY <1>1, <1>3, <1>4 DEF Imports
<1>6. Row' = Row /\ at \in {"codes", "check"}
  BY <1>5 DEF Row, at
<1>7. ShelfTypes' /\ SheetTypes'
  BY <1>2 DEF TransferInv, ShelfTypes, SheetTypes
<1>8. ImportTypes'
  BY <1>2, <1>5, <1>6 DEF TransferInv, ImportTypes, Stands
<1>9. ShelfInv'
  BY <1>2 DEF TransferInv, ShelfInv, OwnCodes, StockSetOnce, OneCategoryPerName, HandPriceKept
<1>10. CategoriesInv'
  BY <1>2, <1>5, <1>6 DEF CategoriesInv, IsKnown, Stands
<1>11. SeenInv' /\ TakenInv'
  BY <1>2, <1>5, <1>6 DEF TransferInv, SeenInv, TakenInv, Taken, Stands, OwnCodes
<1>12. outcome[import.row] = [as |-> "none", on |-> 0] /\ ~Duplicate(Rows(sheet), import.row)
  <2>1. outcome[import.row] = [as |-> IF Duplicate(Rows(sheet), import.row) THEN "skipped" ELSE "none", on |-> 0]
    BY <1>4 DEF TransferInv, RowInv, Stands, Coming
  <2> QED BY <2>1
<1>13. RowInv'
  <2>1. \A i \in DOMAIN outcome' : Coming(i)' <=> Coming(i)
    BY <1>2, <1>5, <1>6 DEF Coming
  <2>2. RowInv
    BY DEF TransferInv
  <2>3. IF import'.target = 0 THEN MatchExisting(Row', import'.seen) = {}
        ELSE import'.target \in MatchExisting(Row', import'.seen)
    BY <1>3, <1>5, <1>6 DEF M
  <2>4. at = "check" => import'.target # 0
    BY <1>3, <1>5
  <2>5. at = "codes" => import'.target = 0
    <3>1. M # {} => at = "check"
      BY <1>3
    <3> QED BY <1>3, <1>5, <3>1
  <2>6. 0 \notin touched
    BY DEF TransferInv, ShelfTypes, Ids
  <2> QED BY <1>2, <1>5, <1>6, <1>12, <2>1, <2>2, <2>3, <2>4, <2>5, <2>6 DEF RowInv, Stands
<1>14. ASSUME ~disturbed
       PROVE  ClearInv'
  <2>1. WroteInv'
    <3>1. WroteInv /\ import'.at # "none" /\ import.at # "none"
      BY <1>5, <1>6, <1>14 DEF TransferInv
    <3> QED BY <1>2, <1>5, <3>1 DEF WroteInv, Taken, Stands
  <2>2. CurrentInv'
    <3>1. at = "codes" => import'.target = 0
      <4>1. M # {} => at = "check"
        BY <1>3
      <4> QED BY <1>3, <1>5, <4>1
    <3> QED BY <1>5, <1>6, <3>1 DEF CurrentInv, Stands
  <2>3. ReadInv'
    BY <1>2, <1>5, <1>6, <1>14 DEF TransferInv, ReadInv, Stands
  <2>4. AgainInv'
    <3>1. AgainInv /\ ImportTypes /\ SeenInv
      BY <1>14 DEF TransferInv
    <3>2. ASSUME NEW i \in DOMAIN before, Known(i), i = import.row
          PROVE  target = before[i].on
      <4>1. before[i].on \in Ids /\ Bears(import.seen[before[i].on], Row) /\ CodesOf(Row) # {}
        BY <1>4, <3>1, <3>2 DEF AgainInv, Stands, Coming, Known
      <4>2. OwnCodes(import.seen)
        BY <3>1 DEF SeenInv, Stands
      <4>3. M = {before[i].on}
        BY <4>1, <4>2, MatchAgain DEF M
      <4> QED BY <1>3, <4>3
    <3>3. \A i \in DOMAIN before : (Coming(i)' <=> Coming(i)) /\ (Known(i)' <=> Known(i))
      BY <1>2, <1>5, <1>6 DEF Coming, Known
    <3>4. passes # 0
      BY Going
    <3>5. SameAgain'
      BY <1>2, <3>1 DEF AgainInv, SameAgain
    <3>6. ASSUME NEW i \in DOMAIN before', Known(i)', Coming(i)'
          PROVE  /\ before'[i].on \in Ids /\ ~Duplicate(Rows(sheet'), i)
                 /\ Bears(import'.seen[before'[i].on], Rows(sheet')[i])
                 /\ products'[before'[i].on].version = import'.seen[before'[i].on].version
                 /\ i = import'.row /\ import'.at \in Writing => import'.target = before'[i].on
      <4>1. i \in DOMAIN before /\ Known(i) /\ Coming(i)
        BY <1>2, <3>3, <3>6
      <4>2. i = import.row => target = before[i].on
        BY <3>2, <4>1
      <4> QED BY <1>2, <1>5, <3>1, <4>1, <4>2 DEF AgainInv, Stands
    <3> QED BY <1>2, <3>4, <3>5, <3>6 DEF AgainInv
  <2> QED BY <2>1, <2>2, <2>3, <2>4 DEF ClearInv
<1> QED BY <1>2, <1>7, <1>8, <1>9, <1>10, <1>11, <1>13, <1>14 DEF TransferInv, ClearInv

\* The category is known, or none is asked for.
LEMMA FindCategoryKeeps == ASSUME TransferInv, FindCategory PROVE TransferInv'
<1>1. /\ import.at = "category" /\ outcome[import.row].as # "skipped"
      /\ UNCHANGED <<products, level, posted, cats, sheet, outcome, before, passes, touched, disturbed,
                     apart>>
  BY DEF FindCategory, Stands
<1>2. /\ Len(cats) \in Nat /\ import.cats \in [Names -> Nat] /\ Row.cat \in Cells
      /\ \A name \in Names : import.cats[name] <= Len(cats)
      /\ \A d \in DOMAIN cats : cats[d].live =>
           import.cats[cats[d].name] # 0 \/ cats[d].name \in apart
  <2>1. Len(cats) \in Nat /\ import.cats \in [Names -> Nat] /\ Row.cat \in Cells
    <3>1. Row \in SheetLines /\ import.cats \in [Names -> Nat]
      BY <1>1, Going
    <3>2. Len(cats) \in Nat
      BY DEF TransferInv, ShelfTypes
    <3> QED BY <3>1, <3>2 DEF SheetLines
  <2> QED BY <1>1, <2>1 DEF TransferInv, CategoriesInv, IsKnown, Stands
<1>3. CASE Row.cat = None /\ Filed(import.cats, 0)
  BY <1>1, <1>2, <1>3, FiledKeeps
<1>4. CASE Row.cat # None /\ import.cats[Row.cat] # 0 /\ Filed(import.cats, import.cats[Row.cat])
  <2>1. Row.cat \in Names
    BY <1>2, <1>4 DEF Names
  <2>2. import.cats[Row.cat] \in Nat /\ import.cats[Row.cat] <= Len(cats)
    BY <1>2, <2>1
  <2> QED BY <1>1, <1>2, <1>4, <2>2, FiledKeeps
<1> QED BY <1>3, <1>4 DEF FindCategory

\* What the import made is recorded, and is known from then on.
LEMMA RecordCategoryKeeps == ASSUME TransferInv, RecordCategory PROVE TransferInv'
<1> DEFINE known == [import.cats EXCEPT ![Row.cat] = import.cat]
<1>1. /\ import.at = "record" /\ Filed(known, import.cat)
      /\ UNCHANGED <<products, level, posted, cats, sheet, outcome, before, passes, touched, disturbed,
                     apart>>
  BY DEF RecordCategory, Stands
<1>2. /\ import.cats \in [Names -> Nat] /\ Row.cat \in Cells /\ import.cat \in Nat
      /\ import.row \in DOMAIN outcome /\ Row = Rows(sheet)[import.row]
  BY <1>1, Going DEF SheetLines
<1>3. /\ import.cat # 0 /\ Row.cat # None /\ import.cat <= Len(cats)
      /\ \A name \in Names : import.cats[name] <= Len(cats)
      /\ \A d \in DOMAIN cats : cats[d].live =>
           import.cats[cats[d].name] # 0 \/ cats[d].name \in apart \/ cats[d].name = Row.cat
  BY <1>1 DEF TransferInv, CategoriesInv, IsKnown, Stands
<1>4. Row.cat \in Names
  BY <1>2, <1>3 DEF Names
<1>5. /\ known \in [Names -> Nat] /\ known[Row.cat] = import.cat
      /\ \A name \in Names \ {Row.cat} : known[name] = import.cats[name]
  BY <1>2, <1>4
<1> HIDE DEF known
<1>6. outcome[import.row].as # "skipped"
  <2>1. RowInv /\ Coming(import.row)
    BY <1>1 DEF TransferInv, Coming
  <2> QED BY <1>1, <1>2, <2>1 DEF RowInv, Stands
<1>7. \A d \in DOMAIN cats : cats[d].name \in Names
  <2>1. \A d \in DOMAIN cats : cats[d] \in CategoryRows
    BY DEF TransferInv, ShelfTypes
  <2> QED BY <2>1 DEF CategoryRows
<1>8. \A d \in DOMAIN cats : cats[d].live => known[cats[d].name] # 0 \/ cats[d].name \in apart
  BY <1>3, <1>5, <1>7
<1>9. \A name \in Names : known[name] <= Len(cats)
  BY <1>3, <1>5
<1> QED BY <1>1, <1>2, <1>3, <1>5, <1>6, <1>8, <1>9, FiledKeeps

\* Nothing changes but a category and the names apart.
LEMMA CatsKeep ==
  ASSUME TransferInv, UNCHANGED <<products, level, posted, sheet, outcome, before, passes, touched,
                                  disturbed>>,
         cats' \in Seq(CategoryRows), Len(cats) <= Len(cats'), apart' \subseteq Names,
         OneCategoryPerName', CategoriesInv',
         \/ import' = import
         \/ /\ import.at = "category" /\ import'.at = "record" /\ import' \in Imports
            /\ outcome[import.row].as # "skipped"
            /\ import'.row = import.row /\ import'.rows = import.rows /\ import'.seen = import.seen
            /\ import'.target = import.target
  PROVE  TransferInv'
<1>1. /\ products' = products /\ posted' = posted /\ level' = level /\ sheet' = sheet
      /\ disturbed' = disturbed /\ touched' = touched /\ passes' = passes /\ before' = before
      /\ outcome' = outcome
  OBVIOUS
<1>2. /\ import'.row = import.row /\ import'.rows = import.rows /\ import'.seen = import.seen
      /\ import'.target = import.target
      /\ import'.at = import.at \/ (import.at = "category" /\ import'.at = "record")
  OBVIOUS
<1>3. Row' = Row /\ Target' = Target
  BY <1>2 DEF Row, Target
<1>4. ShelfTypes' /\ SheetTypes'
  BY <1>1 DEF TransferInv, ShelfTypes, SheetTypes
<1>5. ImportTypes'
  BY <1>1, <1>2 DEF TransferInv, ImportTypes, Stands
<1>6. ShelfInv'
  <2>1. \A p \in Ids : products[p].cat <= Len(cats')
    <3>1. \A p \in Ids : products[p].cat \in Nat /\ products[p].cat <= Len(cats)
      BY DEF TransferInv, ShelfTypes, ShelfInv, Articles
    <3>2. Len(cats) \in Nat /\ Len(cats') \in Nat
      BY DEF TransferInv, ShelfTypes
    <3> QED BY <3>1, <3>2
  <2> QED BY <1>1, <2>1 DEF TransferInv, ShelfInv, OwnCodes, StockSetOnce, HandPriceKept
<1>7. SeenInv' /\ TakenInv'
  BY <1>1, <1>2 DEF TransferInv, SeenInv, TakenInv, Taken, Stands, OwnCodes
<1>8. \A i \in DOMAIN outcome : Coming(i)' <=> Coming(i)
  BY <1>2 DEF Coming
<1>9. RowInv'
  <2>1. RowInv
    BY DEF TransferInv
  <2>2. \A i \in DOMAIN outcome : Taken(i)' <=> Taken(i)
    BY <1>1 DEF Taken
  <2>3. CASE import'.at = import.at
    BY <1>1, <1>2, <1>3, <1>8, <2>1, <2>2, <2>3, Going DEF RowInv, Stands
  <2>4. CASE import.at = "category" /\ import'.at = "record"
    <3>1. import.row \in DOMAIN outcome /\ outcome[import.row].as # "skipped" /\ Coming(import.row)
      BY <2>4, Going DEF Coming
    <3>2. ~Duplicate(Rows(sheet), import.row)
      BY <2>1, <2>4, <3>1 DEF RowInv, Stands
    <3> QED BY <1>1, <1>2, <1>3, <1>8, <2>1, <2>4, <3>2 DEF RowInv, Stands, Writing
  <2> QED BY <1>2, <2>3, <2>4
<1>10. ASSUME ~disturbed PROVE ClearInv'
  <2>0. WroteInv /\ CurrentInv /\ ReadInv /\ AgainInv
    BY <1>10 DEF TransferInv
  <2>1. WroteInv' /\ ReadInv'
    BY <1>1, <1>2, <2>0 DEF WroteInv, ReadInv, Taken, Stands
  <2>2. CurrentInv'
    <3>1. CASE import'.at = import.at
      <4>1. /\ import.at \in {"stock", "minimum"} /\ outcome[import.row].as = "created" =>
                 products[import.target].min = 0
            /\ import.at = "minimum" /\ outcome[import.row].as = "created" /\ Row.qty # 0 =>
                 posted[import.target] = 1
            /\ import.at \in {"codes", "write"} /\ import.target # 0 =>
                 products[import.target].version = import.seen[import.target].version
        BY <2>0 DEF CurrentInv, Stands
      <4>2. /\ import'.at \in {"stock", "minimum"} /\ outcome'[import'.row].as = "created" =>
                 products'[import'.target].min = 0
            /\ import'.at = "minimum" /\ outcome'[import'.row].as = "created" /\ Row'.qty # 0 =>
                 posted'[import'.target] = 1
            /\ import'.at \in {"codes", "write"} /\ import'.target # 0 =>
                 products'[import'.target].version = import'.seen[import'.target].version
        BY ONLY <1>1, <1>2, <1>3, <3>1, <4>1
      <4> QED BY <4>2 DEF CurrentInv, Stands
    <3>2. CASE import'.at = "record"
      BY <3>2 DEF CurrentInv, Stands
    <3> QED BY <1>2, <3>1, <3>2
  <2>3. AgainInv'
    <3>1. SameAgain'
      <4>1. \A i \in DOMAIN outcome \cap DOMAIN before : Known(i) =>
              outcome[i] \in {NotYet, [as |-> "updated", on |-> before[i].on]}
        BY <1>10, <2>0 DEF AgainInv, SameAgain, Known
      <4> QED BY <1>1, <4>1 DEF SameAgain, Known
    <3>2. \A i \in DOMAIN before : Known(i)' <=> Known(i)
      BY <1>1 DEF Known
    <3>3. ASSUME passes' = 0 PROVE outcome' = <<>> /\ \A i \in DOMAIN before' : Known(i)' =>
                   /\ before'[i].on \in Ids /\ ~Duplicate(Rows(sheet'), i)
                   /\ Bears(products'[before'[i].on], Rows(sheet')[i])
      BY <1>1, <2>0, <3>2, <3>3 DEF AgainInv
    <3>4. ASSUME import'.at # "none", NEW i \in DOMAIN before', Known(i)', Coming(i)'
          PROVE  /\ before'[i].on \in Ids /\ ~Duplicate(Rows(sheet'), i)
                 /\ Bears(import'.seen[before'[i].on], Rows(sheet')[i])
                 /\ products'[before'[i].on].version = import'.seen[before'[i].on].version
                 /\ i = import'.row /\ import'.at \in Writing => import'.target = before'[i].on
      <4>1. Known(i) /\ Coming(i) /\ i \in DOMAIN before /\ import.at # "none"
        BY <1>1, <1>2, <3>2, <3>4 DEF Coming
      <4> QED BY <1>1, <1>2, <2>0, <4>1 DEF AgainInv, Stands, Writing
    <3> QED BY <1>1, <3>1, <3>3, <3>4 DEF AgainInv, Stands
  <2> QED BY <2>1, <2>2, <2>3 DEF ClearInv
<1> QED BY <1>1, <1>4, <1>5, <1>6, <1>7, <1>9, <1>10 DEF TransferInv, ClearInv

\* One more category, at the end.
LEMMA OneMore ==
  ASSUME TransferInv, NEW name \in Names, cats' = Append(cats, [name |-> name, live |-> TRUE])
  PROVE  /\ Len(cats) \in Nat /\ cats' \in Seq(CategoryRows) /\ Len(cats') = Len(cats) + 1
         /\ DOMAIN cats' = DOMAIN cats \cup {Len(cats) + 1} /\ DOMAIN cats = 1..Len(cats)
         /\ cats'[Len(cats) + 1].name = name /\ \A d \in DOMAIN cats : cats'[d] = cats[d]
         /\ \A d \in DOMAIN cats : cats[d].name \in Names
<1> DEFINE new == [name |-> name, live |-> TRUE]
<1>1. cats \in Seq(CategoryRows) /\ Len(cats) \in Nat /\ DOMAIN cats = 1..Len(cats)
  BY DEF TransferInv, ShelfTypes
<1>2. new \in CategoryRows /\ new.name = name
  BY DEF CategoryRows
<1>3. cats' = Append(cats, new)
  OBVIOUS
<1> HIDE DEF new
<1>4. /\ cats' \in Seq(CategoryRows) /\ Len(cats') = Len(cats) + 1 /\ DOMAIN cats' = 1..(Len(cats) + 1)
      /\ cats'[Len(cats) + 1] = new /\ \A d \in DOMAIN cats : cats'[d] = cats[d]
  BY <1>1, <1>2, <1>3
<1>5. \A d \in DOMAIN cats : cats[d] \in CategoryRows
  BY <1>1
<1> QED BY <1>1, <1>2, <1>4, <1>5 DEF CategoryRows

\* The row makes a category of a name it does not know: none has it, or the name is apart.
LEMMA CreateCategoryKeeps == ASSUME TransferInv, CreateCategory PROVE TransferInv'
<1>1. /\ import.at = "category" /\ outcome[import.row].as # "skipped"
      /\ Row.cat # None /\ import.cats[Row.cat] = 0
      /\ cats' = Append(cats, [name |-> Row.cat, live |-> TRUE])
      /\ import' = [import EXCEPT !.at = "record", !.cat = Len(cats) + 1] /\ apart' = apart
      /\ UNCHANGED <<products, level, posted, sheet, outcome, before, passes, touched, disturbed>>
  BY DEF CreateCategory, Stands
<1>2. import \in Imports /\ Row \in SheetLines /\ import.cats \in [Names -> Nat]
  BY <1>1, Going
<1>3. Row.cat \in Names
  BY <1>1, <1>2 DEF SheetLines, Names
<1>4. /\ Len(cats) \in Nat /\ cats' \in Seq(CategoryRows) /\ Len(cats') = Len(cats) + 1
      /\ DOMAIN cats' = DOMAIN cats \cup {Len(cats) + 1} /\ DOMAIN cats = 1..Len(cats)
      /\ cats'[Len(cats) + 1].name = Row.cat /\ \A d \in DOMAIN cats : cats'[d] = cats[d]
  BY <1>1, <1>3, OneMore
<1>5. /\ import' \in Imports /\ import'.at = "record" /\ import'.cat = Len(cats) + 1
      /\ import'.row = import.row /\ import'.rows = import.rows /\ import'.seen = import.seen
      /\ import'.cats = import.cats /\ import'.target = import.target
  <2>1. "record" \in Steps /\ Len(cats) + 1 \in Nat
    BY <1>4 DEF Steps
  <2> QED BY ONLY <1>1, <1>2, <2>1 DEF Imports
<1>6. /\ \A d \in DOMAIN cats : cats[d].live => import.cats[cats[d].name] # 0 \/ cats[d].name \in apart
      /\ \A name \in Names : import.cats[name] <= Len(cats) /\ import.cats[name] \in Nat
  BY <1>1, <1>2 DEF TransferInv, CategoriesInv, IsKnown, Stands
<1>7. OneCategoryPerName'
  <2>1. OneCategoryPerName
    BY DEF TransferInv, ShelfInv
  <2>2. \A d \in DOMAIN cats : cats[d].live /\ cats[d].name = Row.cat => Row.cat \in apart
    BY <1>1, <1>6
  <2> QED BY <1>1, <1>4, <2>1, <2>2 DEF OneCategoryPerName
<1>8. CategoriesInv'
  <2>1. Row' = Row
    BY <1>5 DEF Row
  <2>2. \A c \in DOMAIN cats' : cats'[c].live => IsKnown(c)'
    BY <1>1, <1>4, <1>5, <1>6, <2>1 DEF IsKnown, Stands
  <2>3. \A name \in Names : import'.cats[name] <= Len(cats')
    BY <1>4, <1>5, <1>6
  <2>4. Len(cats) + 1 # 0 /\ Len(cats) + 1 <= Len(cats')
    BY <1>4
  <2> QED BY <1>1, <1>5, <2>1, <2>2, <2>3, <2>4 DEF CategoriesInv, Stands, Writing
<1>9. apart' \subseteq Names /\ Len(cats) <= Len(cats')
  BY <1>1, <1>4 DEF TransferInv, ShelfTypes
<1> QED BY <1>1, <1>4, <1>5, <1>7, <1>8, <1>9, CatsKeep

\* A category is given a name elsewhere: if another has it, or the import under way does not
\* know it, the name is apart.
LEMMA NamedElsewhere ==
  ASSUME TransferInv, NEW name \in Names, NEW c \in Nat, Noted(name, c),
         UNCHANGED <<products, level, posted, sheet, import, outcome, before, passes, touched, disturbed>>,
         cats' \in Seq(CategoryRows), Len(cats) <= Len(cats'), c \notin DOMAIN cats => c = 0,
         \A d \in DOMAIN cats' :
           \/ d \in DOMAIN cats \ {c} /\ cats'[d] = cats[d]
           \/ (d = c \/ d \notin DOMAIN cats) /\ cats'[d].name = name,
         \A d, e \in DOMAIN cats' : (d = c \/ d \notin DOMAIN cats) /\ (e = c \/ e \notin DOMAIN cats) => d = e
  PROVE  TransferInv'
<1>1. /\ apart \subseteq apart' /\ apart' \subseteq apart \cup {name}
      /\ Clashes(name, c) => name \in apart'
  BY DEF Noted
<1>2. /\ apart \subseteq Names /\ Len(cats) \in Nat /\ Len(cats') \in Nat /\ OneCategoryPerName
      /\ CategoriesInv
  BY DEF TransferInv, ShelfTypes, ShelfInv
<1>3. OneCategoryPerName'
  <2>1. \A d \in DOMAIN cats \ {c} : cats[d].live /\ cats[d].name = name => name \in apart'
    BY <1>1 DEF Clashes, Named
  <2>2. SUFFICES ASSUME NEW d \in DOMAIN cats', NEW e \in DOMAIN cats', cats'[d].live, cats'[e].live,
                        cats'[d].name = cats'[e].name, d # e
                 PROVE  cats'[d].name \in apart'
    BY DEF OneCategoryPerName
  <2>3. CASE d \in DOMAIN cats \ {c} /\ cats'[d] = cats[d]
    <3>1. CASE e \in DOMAIN cats \ {c} /\ cats'[e] = cats[e]
      BY <1>1, <1>2, <2>2, <2>3, <3>1 DEF OneCategoryPerName
    <3>2. CASE ~(e \in DOMAIN cats \ {c} /\ cats'[e] = cats[e])
      BY <2>1, <2>2, <2>3, <3>2
    <3> QED BY <3>1, <3>2
  <2>4. CASE ~(d \in DOMAIN cats \ {c} /\ cats'[d] = cats[d])
    BY <2>1, <2>2, <2>4
  <2> QED BY <2>3, <2>4
<1>4. CategoriesInv'
  <2>1. SUFFICES ASSUME import.at # "none" PROVE CategoriesInv'
    BY DEF CategoriesInv, Stands
  <2>2. Row' = Row /\ import' = import
    BY DEF Row
  <2>3. ASSUME import.at # "categories", NEW d \in DOMAIN cats', cats'[d].live PROVE IsKnown(d)'
    <3>1. CASE d \in DOMAIN cats \ {c} /\ cats'[d] = cats[d]
      BY <1>1, <1>2, <2>1, <2>2, <2>3, <3>1 DEF CategoriesInv, IsKnown, Stands
    <3>2. CASE cats'[d].name = name
      BY <1>1, <2>1, <2>2, <2>3, <3>2 DEF IsKnown, Clashes
    <3> QED BY <3>1, <3>2
  <2>4. import.cat \in Nat /\ \A n \in Names : import.cats[n] \in Nat
    BY <2>1, Going
  <2> QED BY <1>2, <2>1, <2>2, <2>3, <2>4 DEF CategoriesInv, Stands
<1> QED BY <1>1, <1>2, <1>3, <1>4, CatsKeep

LEMMA AddCategoryKeeps ==
  ASSUME TransferInv, NEW name \in HandNames, AddCategory(name) PROVE TransferInv'
<1>1. /\ cats' = Append(cats, [name |-> name, live |-> TRUE]) /\ Noted(name, 0)
      /\ UNCHANGED <<products, level, posted, sheet, import, outcome, before, passes, touched, disturbed>>
  BY DEF AddCategory
<1>2. name \in Names
  BY TransferAssumption DEF Names
<1>3. /\ Len(cats) \in Nat /\ cats' \in Seq(CategoryRows) /\ Len(cats') = Len(cats) + 1
      /\ DOMAIN cats' = DOMAIN cats \cup {Len(cats) + 1} /\ DOMAIN cats = 1..Len(cats)
      /\ cats'[Len(cats) + 1].name = name /\ \A d \in DOMAIN cats : cats'[d] = cats[d]
  BY <1>1, <1>2, OneMore
<1>4. Len(cats) <= Len(cats') /\ 0 \notin DOMAIN cats /\ 0 \notin DOMAIN cats' /\ 0 \in Nat
  BY <1>3
<1> QED BY <1>1, <1>2, <1>3, <1>4, NamedElsewhere

LEMMA RenameCategoryKeeps ==
  ASSUME TransferInv, NEW c \in DOMAIN cats, NEW name \in HandNames, RenameCategory(c, name)
  PROVE  TransferInv'
<1> DEFINE new == [cats[c] EXCEPT !.name = name]
<1>1. /\ cats' = [cats EXCEPT ![c] = new] /\ Noted(name, c)
      /\ UNCHANGED <<products, level, posted, sheet, import, outcome, before, passes, touched, disturbed>>
  BY DEF RenameCategory
<1>2. name \in Names
  BY TransferAssumption DEF Names
<1>3. cats \in Seq(CategoryRows) /\ cats[c] \in CategoryRows
  BY DEF TransferInv, ShelfTypes
<1>4. new \in CategoryRows /\ new.name = name
  BY ONLY <1>2, <1>3 DEF CategoryRows
<1> HIDE DEF new
<1>5. /\ cats' \in Seq(CategoryRows) /\ Len(cats') = Len(cats) /\ DOMAIN cats' = DOMAIN cats
      /\ cats'[c] = new /\ \A d \in DOMAIN cats \ {c} : cats'[d] = cats[d] /\ c \in Nat
  BY <1>1, <1>3, <1>4
<1>6. c \in Nat /\ Len(cats) <= Len(cats')
  BY <1>3, <1>5
<1> QED BY <1>1, <1>2, <1>4, <1>5, <1>6, NamedElsewhere

\* The next row, or the end.
LEMMA OnwardIs ==
  ASSUME TransferInv, import.at # "none", import' = Onward
  PROVE  \/ import' = Resting /\ import'.at = "none"
         \/ /\ import' \in Imports /\ import'.at = "category" /\ import'.row = import.row + 1
            /\ import'.row \in DOMAIN Rows(sheet) /\ import'.target = 0 /\ import'.cat = 0
            /\ import'.rows = import.rows /\ import'.seen = import.seen /\ import'.cats = import.cats
<1>1. /\ import \in Imports /\ import.rows = Rows(sheet) /\ import.row \in Nat
      /\ import.row \in DOMAIN Rows(sheet) /\ DOMAIN Rows(sheet) = 1..Len(Rows(sheet))
      /\ Len(Rows(sheet)) \in Nat
  BY Going
<1>2. CASE import.row < Len(import.rows)
  <2>1. import' = [import EXCEPT !.at = "category", !.row = import.row + 1, !.target = 0, !.cat = 0]
    BY <1>2 DEF Onward
  <2>2. import.row + 1 \in Nat /\ 0 \in 0..MaxProducts /\ "category" \in Steps
    BY <1>1, TransferAssumption DEF Steps
  <2>3. /\ import' \in Imports /\ import'.at = "category" /\ import'.row = import.row + 1
        /\ import'.target = 0 /\ import'.cat = 0
        /\ import'.rows = import.rows /\ import'.seen = import.seen /\ import'.cats = import.cats
    BY ONLY <1>1, <2>1, <2>2 DEF Imports
  <2>4. import.row + 1 \in DOMAIN Rows(sheet)
    BY <1>1, <1>2
  <2> QED BY <2>3, <2>4
<1>3. CASE ~(import.row < Len(import.rows))
  BY <1>3 DEF Onward, Resting
<1> QED BY <1>2, <1>3

\* A row is done with: what was said of it stays, or it is said to be skipped.
LEMMA MovesOn ==
  ASSUME TransferInv, import.at \notin {"none", "categories"}, import' = Onward,
         UNCHANGED <<level, posted, cats, sheet, before, passes, touched>>, disturbed' \in BOOLEAN,
         disturbed => disturbed', apart \subseteq apart', apart' \subseteq Names,
         import.at = "record" => Row.cat \in apart',
         products' \in [Ids -> Articles],
         \A p \in Ids : /\ products'[p].live = products[p].live /\ products'[p].sku = products[p].sku
                        /\ products'[p].barcode = products[p].barcode
                        /\ products'[p].cat = products[p].cat /\ products'[p].price = products[p].price
                        /\ products'[p].version = products[p].version,
         outcome' \in [DOMAIN outcome -> Results],
         \A i \in DOMAIN outcome \ {import.row} : outcome'[i] = outcome[i],
         outcome'[import.row].as = "skipped" \/ outcome'[import.row] = outcome[import.row],
         ~disturbed' =>
           /\ \A p \in Ids : ~(outcome'[import.row].as \in {"created", "updated"} /\ p = outcome'[import.row].on) =>
                products'[p].min = products[p].min
           /\ outcome'[import.row].as \in {"created", "updated"} =>
                IsSettled(outcome[import.row].as, Rows(sheet)[import.row],
                          products'[outcome[import.row].on], posted[outcome[import.row].on])
           /\ import.row \in DOMAIN before /\ Known(import.row) =>
                outcome'[import.row] \in {NotYet, [as |-> "updated", on |-> before[import.row].on]}
  PROVE  TransferInv'
<1>1. /\ level' = level /\ posted' = posted /\ cats' = cats /\ sheet' = sheet /\ before' = before
      /\ passes' = passes /\ touched' = touched
  OBVIOUS
<1>2. /\ import \in Imports /\ import.rows = Rows(sheet) /\ import.row \in Nat
      /\ import.row \in DOMAIN outcome /\ DOMAIN outcome = DOMAIN Rows(sheet)
      /\ DOMAIN Rows(sheet) = 1..Len(Rows(sheet)) /\ Len(Rows(sheet)) \in Nat /\ passes > 0
  BY Going
<1>3. \/ import' = Resting /\ import'.at = "none"
      \/ /\ import' \in Imports /\ import'.at = "category" /\ import'.row = import.row + 1
         /\ import'.row \in DOMAIN Rows(sheet) /\ import'.target = 0 /\ import'.cat = 0
         /\ import'.rows = import.rows /\ import'.seen = import.seen /\ import'.cats = import.cats
  BY OnwardIs
<1>4. DOMAIN outcome' = DOMAIN outcome
  OBVIOUS
<1>5. ShelfTypes' /\ SheetTypes'
  BY <1>1, <1>4 DEF TransferInv, ShelfTypes, SheetTypes
<1>6. ImportTypes'
  BY <1>1, <1>2, <1>3, <1>4 DEF ImportTypes, Stands
<1>7. ShelfInv'
  <2>1. OwnCodes(products')
    BY DEF TransferInv, ShelfInv, OwnCodes
  <2>2. HandPriceKept'
    BY <1>1 DEF TransferInv, ShelfTypes, ShelfInv, HandPriceKept
  <2>3. OneCategoryPerName'
    BY <1>1 DEF TransferInv, ShelfInv, OneCategoryPerName
  <2> QED BY <1>1, <2>1, <2>2, <2>3 DEF TransferInv, ShelfInv, StockSetOnce
<1>8. CategoriesInv'
  <2>1. CategoriesInv /\ Len(cats) \in Nat
    BY DEF TransferInv, ShelfTypes
  <2> QED BY <1>1, <1>3, <2>1 DEF CategoriesInv, IsKnown, Stands, Writing
<1>9. SeenInv'
  BY <1>1, <1>3 DEF TransferInv, SeenInv, Stands, OwnCodes
<1>10. \A i \in DOMAIN outcome : Taken(i)' => Taken(i) /\ outcome'[i] = outcome[i]
  BY DEF Taken
<1>11. TakenInv'
  BY <1>1, <1>4, <1>10 DEF TransferInv, TakenInv
<1>12. RowInv'
  <2>1. SUFFICES ASSUME import'.at # "none" PROVE RowInv'
    BY DEF RowInv, Stands
  <2>2. \A i \in DOMAIN outcome' : Coming(i)' => Coming(i) /\ i # import.row
    BY <1>2, <1>3, <1>4, <2>1 DEF Coming
  <2> QED BY <1>1, <1>3, <1>4, <2>1, <2>2 DEF TransferInv, RowInv, Stands, Writing
<1>13. ASSUME ~disturbed'
       PROVE  ClearInv'
  <2>0. WroteInv /\ CurrentInv /\ ReadInv /\ AgainInv /\ TakenInv
    BY <1>13 DEF TransferInv
  <2>1. WroteInv'
    <3>1. ASSUME NEW i \in DOMAIN outcome', Taken(i)'
          PROVE  /\ IsWritten(products'[outcome[i].on], Rows(sheet)[i])
                 /\ IsSettled(outcome[i].as, Rows(sheet)[i], products'[outcome[i].on], posted[outcome[i].on])
                 /\ \A j \in DOMAIN outcome \ {i} : Taken(j) => outcome[j].on # outcome[i].on
      <4> DEFINE p == outcome[i].on
      <4>1. i \in DOMAIN outcome /\ Taken(i) /\ p \in Ids /\ outcome'[i] = outcome[i]
        BY <1>4, <1>10, <2>0, <3>1 DEF TakenInv
      <4>a. /\ IsWritten(products[p], Rows(sheet)[i])
            /\ i < import.row => IsSettled(outcome[i].as, Rows(sheet)[i], products[p], posted[p])
            /\ \A j \in DOMAIN outcome \ {i} : Taken(j) => outcome[j].on # p
        BY <2>0, <4>1 DEF WroteInv
      <4>b. IsWritten(products'[p], Rows(sheet)[i])
        BY <4>1, <4>a DEF IsWritten, Bears
      <4>2. CASE i = import.row
        BY <1>13, <3>1, <4>1, <4>2, <4>a, <4>b DEF Taken
      <4>3. CASE i # import.row
        <5>1. i < import.row \/ i > import.row
          BY <1>2, <4>1, <4>3
        <5>2. i > import.row => ~Taken(i)
          BY <4>1 DEF TransferInv, RowInv, Stands, Coming, Taken
        <5>3. products'[p].min = products[p].min
          <6>1. outcome'[import.row].as \in {"created", "updated"} => outcome'[import.row].on # p
            BY <1>2, <4>3, <4>a DEF Taken
          <6> QED BY <1>13, <4>1, <6>1
        <5>4. i < import.row
          BY <4>1, <5>1, <5>2
        <5>5. IsSettled(outcome[i].as, Rows(sheet)[i], products'[p], posted[p])
          BY <4>a, <5>3, <5>4 DEF IsSettled
        <5> QED BY <4>a, <4>b, <5>5
      <4> QED BY <4>2, <4>3
    <3> QED BY <1>1, <1>4, <1>10, <3>1 DEF WroteInv
  <2>2. CurrentInv'
    BY <1>3 DEF CurrentInv, Stands
  <2>3. ReadInv'
    BY <1>1, <1>3, <1>4, <1>10, <2>0 DEF ReadInv, Stands, Bears, Taken, TakenInv
  <2>4. AgainInv'
    <3>1. SameAgain'
      BY <1>1, <1>4, <1>13, <2>0 DEF AgainInv, SameAgain, Known
    <3>2. passes # 0
      BY <1>2
    <3>3. ASSUME import'.at # "none", NEW i \in DOMAIN before', Known(i)', Coming(i)'
          PROVE  /\ before'[i].on \in Ids /\ ~Duplicate(Rows(sheet'), i)
                 /\ Bears(import'.seen[before'[i].on], Rows(sheet')[i])
                 /\ products'[before'[i].on].version = import'.seen[before'[i].on].version
                 /\ i = import'.row /\ import'.at \in Writing => import'.target = before'[i].on
      <4>1. Known(i) /\ Coming(i) /\ i \in DOMAIN before
        <5>1. i \in Nat
          BY <1>1, <1>2, <3>3 DEF TransferInv, SheetTypes
        <5> QED BY <1>1, <1>2, <1>3, <3>3, <5>1 DEF Known, Coming
      <4> QED BY <1>1, <1>3, <2>0, <3>3, <4>1 DEF AgainInv, Stands, Writing
    <3> QED BY <1>1, <3>1, <3>2, <3>3 DEF AgainInv, Stands
  <2> QED BY <2>1, <2>2, <2>3, <2>4 DEF ClearInv
<1> QED BY <1>1, <1>2, <1>5, <1>6, <1>7, <1>8, <1>9, <1>11, <1>12, <1>13 DEF TransferInv, ClearInv

\* A row in double stays aside.
LEMMA SkipDuplicateKeeps == ASSUME TransferInv, SkipDuplicate PROVE TransferInv'
<1>1. /\ import.at = "category" /\ outcome[import.row].as = "skipped" /\ import' = Onward
      /\ UNCHANGED <<level, posted, cats, sheet, before, passes, touched>>
      /\ products' = products /\ outcome' = outcome /\ disturbed' = disturbed /\ apart' = apart
  BY DEF SkipDuplicate, Stands
<1>2. /\ products \in [Ids -> Articles] /\ outcome \in [DOMAIN outcome -> Results] /\ disturbed \in BOOLEAN
      /\ apart \subseteq Names
  BY DEF TransferInv, ShelfTypes, SheetTypes
<1>3. import.row \in DOMAIN outcome
  BY <1>1, Going
<1>4. ~disturbed /\ import.row \in DOMAIN before /\ Known(import.row) =>
        outcome[import.row] \in {NotYet, [as |-> "updated", on |-> before[import.row].on]}
  BY <1>3 DEF TransferInv, AgainInv, SameAgain, Known
<1> QED BY <1>1, <1>2, <1>4, MovesOn

\* A row is given up: it was not written of, or the pass is disturbed.
LEMMA GiveUpKeeps ==
  ASSUME TransferInv, import.at \notin {"none", "categories"}, GiveUp,
         UNCHANGED <<products, level, posted, cats, sheet, before, passes, touched>>,
         disturbed' \in BOOLEAN, disturbed => disturbed', apart \subseteq apart',
         apart' \subseteq Names, import.at = "record" => Row.cat \in apart',
         ~disturbed' => ~(import.row \in DOMAIN before /\ Known(import.row))
  PROVE  TransferInv'
<1>1. /\ import' = Onward /\ products' = products
      /\ outcome' = [outcome EXCEPT ![import.row] = [as |-> "skipped", on |-> import.target]]
  BY DEF GiveUp, Say
<1>2. /\ products \in [Ids -> Articles] /\ outcome \in [DOMAIN outcome -> Results]
  BY DEF TransferInv, ShelfTypes, SheetTypes
<1>3. import.row \in DOMAIN outcome /\ import.target \in 0..MaxProducts
  BY Going
<1>4. /\ outcome' \in [DOMAIN outcome -> Results] /\ outcome'[import.row].as = "skipped"
      /\ \A i \in DOMAIN outcome \ {import.row} : outcome'[i] = outcome[i]
  <2>1. [as |-> "skipped", on |-> import.target] \in Results
    BY <1>3 DEF Results
  <2> QED BY <1>1, <1>2, <1>3, <2>1
<1> QED BY <1>1, <1>2, <1>4, MovesOn

\* A statement that fails gives the row up.
LEMMA FailKeeps == ASSUME TransferInv, Fail PROVE TransferInv'
<1>1. /\ import.at \notin {"none", "categories"} /\ GiveUp /\ disturbed' = TRUE
      /\ apart' = IF import.at = "record" THEN apart \cup {Row.cat} ELSE apart
      /\ UNCHANGED <<products, level, posted, cats, sheet, before, passes, touched>>
  BY DEF Fail, Stands
<1>2. apart \subseteq Names
  BY DEF TransferInv, ShelfTypes
<1>3. import.at = "record" => Row.cat \in Names
  BY Going DEF TransferInv, CategoriesInv, Stands, SheetLines, Names
<1> QED BY <1>1, <1>2, <1>3, GiveUpKeeps

\* A row that went through once passes every check: its article is the one that was listed.
LEMMA KnownStands ==
  ASSUME TransferInv, ~disturbed, import.at \in Writing, import.row \in DOMAIN before, Known(import.row)
  PROVE  /\ import.target = before[import.row].on /\ import.target \in Ids
         /\ products[import.target].version = import.seen[import.target].version
         /\ Bears(products[import.target], Row) /\ CodesOf(Row) # {}
<1>1. import.at \notin {"none", "stock", "minimum"}
  BY DEF Writing
<1>2. Row = Rows(sheet)[import.row] /\ Coming(import.row)
  BY <1>1, Going DEF Coming
<1>3. /\ before[import.row].on \in Ids /\ Bears(import.seen[before[import.row].on], Row)
      /\ products[before[import.row].on].version = import.seen[before[import.row].on].version
      /\ import.target = before[import.row].on
  BY <1>1, <1>2 DEF TransferInv, AgainInv, Stands
<1>4. Bears(products[import.target], Row)
  BY <1>1, <1>3 DEF TransferInv, ReadInv, Stands, Bears
<1> QED BY <1>2, <1>3, <1>4 DEF Known

\* The import takes one more step in the row.
LEMMA StepKeeps ==
  ASSUME TransferInv, import.at \in Writing, import' \in Imports, import'.at \in {"codes", "write"},
         import'.row = import.row, import'.rows = import.rows, import'.seen = import.seen,
         import'.cats = import.cats, import'.target = import.target, import'.cat = import.cat,
         UNCHANGED <<products, level, posted, cats, sheet, outcome, before, passes, touched, disturbed, apart>>,
         import.target \notin touched,
         ~disturbed /\ import.target # 0 =>
           products[import.target].version = import.seen[import.target].version
  PROVE  TransferInv'
<1>1. /\ products' = products /\ level' = level /\ posted' = posted /\ cats' = cats /\ apart' = apart /\ sheet' = sheet
      /\ outcome' = outcome /\ before' = before /\ passes' = passes /\ touched' = touched
      /\ disturbed' = disturbed
  OBVIOUS
<1>2. import.at \notin {"none", "categories", "record", "stock", "minimum"} /\ import'.at \in Writing
      /\ import'.at \notin {"none", "categories", "record", "check", "stock", "minimum"}
  BY DEF Writing
<1>3. Row' = Row /\ Target' = Target
  BY DEF Row, Target
<1>4. ShelfTypes' /\ SheetTypes' /\ ImportTypes'
  BY <1>1, <1>2 DEF TransferInv, ShelfTypes, SheetTypes, ImportTypes, Stands
<1>5. ShelfInv' /\ SeenInv' /\ TakenInv'
  BY <1>1, <1>2 DEF TransferInv, ShelfInv, SeenInv, TakenInv, Taken, Stands, OwnCodes, StockSetOnce,
                    OneCategoryPerName, HandPriceKept
<1>6. CategoriesInv'
  BY <1>1, <1>2, <1>3 DEF TransferInv, CategoriesInv, IsKnown, Stands
<1>7. RowInv'
  <2>1. \A i \in DOMAIN outcome : Coming(i)' <=> Coming(i)
    BY <1>2 DEF Coming
  <2>2. RowInv
    BY DEF TransferInv
  <2> QED BY <1>1, <1>2, <1>3, <2>1, <2>2 DEF RowInv, Stands, Target, BySku, ByBarcode
<1>8. ASSUME ~disturbed
      PROVE  ClearInv'
  <2>0. WroteInv /\ CurrentInv /\ ReadInv /\ AgainInv
    BY <1>8 DEF TransferInv
  <2>1. WroteInv'
    BY <1>1, <1>2, <2>0 DEF WroteInv, Taken, Stands
  <2>2. CurrentInv'
    BY <1>1, <1>2, <1>8 DEF CurrentInv, Stands
  <2>3. ReadInv'
    BY <1>1, <1>2, <2>0 DEF ReadInv, Stands
  <2>4. AgainInv'
    <3>0. passes # 0
      BY <1>2, Going
    <3>a. SameAgain
      BY <2>0 DEF AgainInv
    <3>1. SameAgain'
      BY ONLY <1>1, <3>a DEF SameAgain
    <3>2. \A i \in DOMAIN before : (Coming(i)' <=> Coming(i)) /\ (Known(i)' <=> Known(i))
      BY <1>1, <1>2 DEF Coming, Known
    <3> QED BY <1>1, <1>2, <2>0, <3>0, <3>1, <3>2 DEF AgainInv, Stands
  <2> QED BY <2>1, <2>2, <2>3, <2>4 DEF ClearInv
<1> QED BY <1>1, <1>4, <1>5, <1>6, <1>7, <1>8, Going DEF TransferInv, ClearInv

\* The version that was listed is the one that is there, or the row is given up.
LEMMA CheckVersionKeeps == ASSUME TransferInv, CheckVersion PROVE TransferInv'
<1>1. /\ import.at = "check" /\ import.at \in Writing
      /\ UNCHANGED <<products, level, posted, cats, sheet, before, passes, touched, disturbed, apart>>
  BY DEF CheckVersion, Stands, Writing
<1>2. disturbed \in BOOLEAN /\ apart \subseteq Names /\ import.at # "record"
  BY <1>1 DEF TransferInv, ShelfTypes
<1>3. import.target \in Ids
  BY <1>1, MatchHas DEF TransferInv, RowInv, Stands
<1>4. CASE products[import.target].version # import.seen[import.target].version
  <2>1. GiveUp
    BY <1>4 DEF CheckVersion
  <2>2. ~disturbed => ~(import.row \in DOMAIN before /\ Known(import.row))
    BY <1>1, <1>4, KnownStands
  <2> QED BY <1>1, <1>2, <2>1, <2>2, GiveUpKeeps
<1>5. CASE products[import.target].version = import.seen[import.target].version
  <2>1. /\ import' = [import EXCEPT !.at = "codes", !.old = products[import.target]]
        /\ outcome' = outcome
    BY <1>5 DEF CheckVersion
  <2>2. import \in Imports /\ products[import.target] \in Articles /\ "codes" \in Steps
    BY <1>1, <1>3, Going DEF TransferInv, ShelfTypes, Steps, Writing
  <2>3. /\ import' \in Imports /\ import'.at = "codes"
        /\ import'.row = import.row /\ import'.rows = import.rows /\ import'.seen = import.seen
        /\ import'.cats = import.cats /\ import'.target = import.target /\ import'.cat = import.cat
    BY ONLY <2>1, <2>2 DEF Imports
  <2>4. import.target \notin touched
    <3>1. \A p \in Ids : p \in touched => import.seen[p].version < products[p].version
      BY <1>1 DEF TransferInv, SeenInv, Stands
    <3>2. products[import.target].version \in Nat
      BY <2>2 DEF Articles
    <3> QED BY <1>3, <1>5, <3>1, <3>2
  <2> QED BY <1>1, <1>5, <2>1, <2>3, <2>4, StepKeeps
<1> QED BY <1>4, <1>5

\* The codes are taken: the row went through never, or the pass is disturbed.
LEMMA TakenCodes ==
  ASSUME TransferInv, import.at \in Writing, ~Unused(Row, Target), GiveUp,
         UNCHANGED <<products, level, posted, cats, sheet, before, passes, touched, disturbed, apart>>
  PROVE  TransferInv'
<1>1. disturbed \in BOOLEAN /\ apart \subseteq Names
  BY DEF TransferInv, ShelfTypes
<1>2. import.at \notin {"none", "categories", "record"}
  BY DEF Writing
<1>3. ~disturbed => ~(import.row \in DOMAIN before /\ Known(import.row))
  <2>1. SUFFICES ASSUME ~disturbed, import.row \in DOMAIN before, Known(import.row) PROVE FALSE
    OBVIOUS
  <2>2. import.target \in Ids /\ Bears(products[import.target], Row) /\ CodesOf(Row) # {}
    BY <2>1, KnownStands
  <2>3. OwnCodes(products)
    BY DEF TransferInv, ShelfInv
  <2>4. BySku(products, Row.sku) \cup ByBarcode(products, Row.barcode) \subseteq {import.target}
    BY <2>2, <2>3, MatchAgain
  <2>5. Target = {import.target}
    BY <2>2 DEF Target, Ids
  <2> QED BY <2>4, <2>5 DEF Unused
<1> QED BY <1>1, <1>2, <1>3, GiveUpKeeps

\* No other article has the codes, or the row is given up.
LEMMA CheckCodesKeeps == ASSUME TransferInv, CheckCodes PROVE TransferInv'
<1>1. /\ import.at = "codes" /\ import.at \in Writing
      /\ UNCHANGED <<products, level, posted, cats, sheet, before, passes, touched, disturbed, apart>>
  BY DEF CheckCodes, Stands, Writing
<1>4. CASE ~Unused(Row, Target)
  BY <1>1, <1>4, TakenCodes DEF CheckCodes
<1>5. CASE Unused(Row, Target)
  <2>1. import' = [import EXCEPT !.at = "write"] /\ outcome' = outcome
    BY <1>5 DEF CheckCodes
  <2>2. import \in Imports /\ "write" \in Steps
    BY <1>1, Going DEF Steps, Writing
  <2>3. /\ import' \in Imports /\ import'.at = "write"
        /\ import'.row = import.row /\ import'.rows = import.rows /\ import'.seen = import.seen
        /\ import'.cats = import.cats /\ import'.target = import.target /\ import'.cat = import.cat
    BY ONLY <2>1, <2>2 DEF Imports
  <2>4. import.target \notin touched
    BY <1>1 DEF TransferInv, RowInv, Stands
  <2>5. ~disturbed /\ import.target # 0 =>
           products[import.target].version = import.seen[import.target].version
    BY <1>1 DEF TransferInv, CurrentInv
  <2> QED BY <1>1, <1>5, <2>1, <2>3, <2>4, <2>5, StepKeeps
<1> QED BY <1>4, <1>5

\* The index refuses codes taken since.
LEMMA RefuseWriteKeeps == ASSUME TransferInv, RefuseWrite PROVE TransferInv'
<1>1. /\ import.at \in Writing /\ ~Unused(Row, Target) /\ GiveUp
      /\ UNCHANGED <<products, level, posted, cats, sheet, before, passes, touched, disturbed, apart>>
  BY DEF RefuseWrite, Refused, Stands, Writing
<1> QED BY <1>1, TakenCodes

\* The row under way is not taken yet, and no row that was taken has its article.
LEMMA Alone ==
  ASSUME TransferInv, ~disturbed, import.at \in {"codes", "write"}, import.target # 0,
         NEW j \in DOMAIN outcome, Taken(j)
  PROVE  outcome[j].on # import.target
<1>1. /\ import.at \notin {"none", "stock", "minimum"} /\ import.at \in Writing
  BY DEF Writing
<1>2. /\ Row = Rows(sheet)[import.row] /\ import.row \in DOMAIN outcome /\ DOMAIN outcome = 1..Len(Rows(sheet))
      /\ DOMAIN Rows(sheet) = 1..Len(Rows(sheet)) /\ Len(Rows(sheet)) \in Nat
  BY <1>1, Going
<1>3. outcome[import.row].as \in {"skipped", "none"}
  BY <1>1, <1>2 DEF TransferInv, RowInv, Stands, Coming
<1>4. j # import.row
  BY <1>3 DEF Taken
<1>5. /\ products[import.target].version = import.seen[import.target].version
      /\ import.target \in MatchExisting(Row, import.seen) /\ ~Duplicate(Rows(sheet), import.row)
  BY <1>1 DEF TransferInv, CurrentInv, RowInv, Stands
<1>6. import.target \in Ids /\ products[import.target].version \in Nat
  <2>1. import.target \in Ids
    BY <1>5, MatchHas
  <2> QED BY <2>1 DEF TransferInv, ShelfTypes, Articles
<1>7. CASE outcome[j].as = "updated"
  <2>1. products[outcome[j].on].version > import.seen[outcome[j].on].version
    BY <1>1, <1>7 DEF TransferInv, ReadInv, Stands
  <2> QED BY <1>5, <1>6, <2>1
<1>8. CASE outcome[j].as = "created"
  <2>1. Bears(import.seen[outcome[j].on], Rows(sheet)[j]) /\ ~Duplicate(Rows(sheet), j)
    BY <1>1, <1>8 DEF TransferInv, ReadInv, TakenInv, Stands
  <2>2. CodesOf(Rows(sheet)[j]) \cap CodesOf(Rows(sheet)[import.row]) = {}
    BY <1>2, <1>4, <1>5, <2>1, CodesApart
  <2>3. SUFFICES ASSUME outcome[j].on = import.target PROVE FALSE
    OBVIOUS
  <2>4. \/ Row.sku # None /\ import.seen[import.target].sku = Row.sku
        \/ Row.barcode # None /\ import.seen[import.target].barcode = Row.barcode
    BY <1>5, MatchHas
  <2> QED BY <1>2, <2>1, <2>2, <2>3, <2>4 DEF Bears, CodesOf
<1> QED BY <1>7, <1>8 DEF Taken

\* The article of the row is written over; no other has its codes.
LEMMA WriteUpdateKeeps == ASSUME TransferInv, WriteUpdate PROVE TransferInv'
<1> DEFINE t == import.target
           v == products[t].version + 1
           new == [Written(import.old, v) EXCEPT !.live = products[t].live, !.min = products[t].min]
<1>1. /\ import.at = "write" /\ import.target # 0
      /\ level' = level /\ posted' = posted /\ cats' = cats /\ apart' = apart /\ sheet' = sheet
      /\ before' = before /\ passes' = passes /\ touched' = touched /\ disturbed' = disturbed
      /\ import' = [import EXCEPT !.at = "minimum"]
      /\ outcome' = [outcome EXCEPT ![import.row] = [as |-> "updated", on |-> t]]
  BY DEF WriteUpdate, Stands, Say
<1>2. products' = [products EXCEPT ![t] = new]
  BY DEF WriteUpdate
<1>3. /\ import \in Imports /\ import.row \in DOMAIN outcome /\ import.row \in Nat
      /\ Row = Rows(sheet)[import.row] /\ Row \in SheetLines /\ import.old \in Articles
      /\ import.cat \in Nat /\ DOMAIN outcome = DOMAIN Rows(sheet) /\ DOMAIN outcome = 1..Len(Rows(sheet))
      /\ DOMAIN Rows(sheet) = 1..Len(Rows(sheet)) /\ Len(Rows(sheet)) \in Nat /\ t \in 0..MaxProducts
      /\ import.rows = Rows(sheet) /\ passes # 0
  BY <1>1, Going
<1>4. RowInv /\ import.at \in Writing
  BY <1>1 DEF TransferInv, Writing
<1>5. /\ t \in MatchExisting(Row, import.seen) /\ t \notin touched /\ ~Duplicate(Rows(sheet), import.row)
  BY <1>1, <1>4 DEF RowInv, Stands
<1>6. t \in Ids
  BY <1>5, MatchHas
<1>a. products[t].live => BySku(products, Row.sku) \cup ByBarcode(products, Row.barcode) \subseteq {t}
  BY <1>1, <1>6 DEF WriteUpdate, Refused, Unused, Target, Listed
<1>7. products \in [Ids -> Articles] /\ products[t] \in Articles /\ v \in Nat /\ v = products[t].version + 1
  <2>1. products \in [Ids -> Articles] /\ products[t] \in Articles
    BY <1>6 DEF TransferInv, ShelfTypes
  <2> QED BY <2>1 DEF Articles
<1> HIDE DEF t, v
<1>8. /\ new \in Articles /\ new.live = products[t].live /\ new.sku = Row.sku /\ new.barcode = Row.barcode
      /\ new.cat = import.cat /\ new.price = Row.price /\ new.min = products[t].min /\ new.version = v
  BY ONLY <1>3, <1>7 DEF Articles, SheetLines, Written
<1> HIDE DEF new
<1>9. /\ products' \in [Ids -> Articles] /\ products'[t] = new
      /\ \A q \in Ids \ {t} : products'[q] = products[q]
  BY <1>2, <1>6, <1>7, <1>8, Changed
<1>10. /\ import' \in Imports /\ import'.at = "minimum"
       /\ import'.row = import.row /\ import'.rows = import.rows /\ import'.seen = import.seen
       /\ import'.cats = import.cats /\ import'.target = t /\ import'.cat = import.cat
  <2>1. "minimum" \in Steps
    BY DEF Steps
  <2> QED BY ONLY <1>1, <1>3, <2>1 DEF Imports, t
<1>11. /\ outcome' \in [DOMAIN outcome -> Results] /\ DOMAIN outcome' = DOMAIN outcome
       /\ outcome'[import.row] = [as |-> "updated", on |-> t]
       /\ \A i \in DOMAIN outcome \ {import.row} : outcome'[i] = outcome[i]
  <2>1. [as |-> "updated", on |-> t] \in Results /\ outcome \in [DOMAIN outcome -> Results]
    BY <1>3 DEF Results, TransferInv, SheetTypes
  <2> QED BY <1>1, <1>3, <2>1
<1>12. \A q \in Ids : products[q].version \in Nat /\ products'[q].version \in Nat
                      /\ products[q].version <= products'[q].version
  <2>1. \A q \in Ids : products[q].version \in Nat /\ products'[q].version \in Nat
    BY <1>7, <1>9 DEF Articles
  <2> QED BY <1>7, <1>8, <1>9, <2>1
<1>13. ShelfTypes' /\ SheetTypes'
  BY <1>1, <1>9, <1>11 DEF TransferInv, ShelfTypes, SheetTypes
<1>14. ImportTypes'
  BY <1>1, <1>3, <1>10, <1>11 DEF TransferInv, ImportTypes, Stands
<1>15. ShelfInv'
  <2>1. OwnCodes(products')
    <3>1. OwnCodes(products)
      BY DEF TransferInv, ShelfInv
    <3>2. products[t].live => \A q \in Ids \ {t} : products[q].live =>
            /\ Row.sku # None => products[q].sku # Row.sku
            /\ Row.barcode # None => products[q].barcode # Row.barcode
      BY <1>a DEF BySku, ByBarcode
    <3> QED BY <1>8, <1>9, <3>1, <3>2 DEF OwnCodes
  <2>2. HandPriceKept'
    BY <1>1, <1>5, <1>9 DEF TransferInv, ShelfTypes, ShelfInv, HandPriceKept
  <2>3. \A q \in Ids : products'[q].version = 0 => ~products'[q].live /\ posted'[q] = 0
    <3>1. \A q \in Ids : products[q].version = 0 => ~products[q].live /\ posted[q] = 0
      BY DEF TransferInv, ShelfInv
    <3>2. v # 0
      BY <1>7 DEF Articles
    <3> QED BY <1>1, <1>8, <1>9, <3>1, <3>2
  <2>4. \A q \in Ids : products'[q].cat <= Len(cats)
    <3>1. import.cat <= Len(cats)
      BY <1>1 DEF TransferInv, CategoriesInv, IsKnown, Stands
    <3> QED BY <1>8, <1>9, <3>1 DEF TransferInv, ShelfInv
  <2> QED BY <1>1, <2>1, <2>2, <2>3, <2>4 DEF TransferInv, ShelfInv, StockSetOnce, OneCategoryPerName
<1>16. CategoriesInv'
  BY <1>1, <1>10 DEF TransferInv, CategoriesInv, IsKnown, Stands, Writing
<1>17. SeenInv'
  <2>1. import.seen \in [Ids -> Articles] /\ SeenInv
    BY <1>1, Going DEF TransferInv
  <2>2. \A q \in Ids : import.seen[q].version \in Nat
    BY <2>1 DEF Articles
  <2> QED BY <1>1, <1>10, <1>12, <2>1, <2>2 DEF SeenInv, Stands
<1>18. RowInv'
  <2>1. \A i \in DOMAIN outcome : Coming(i)' => Coming(i) /\ i # import.row
    BY <1>3, <1>10 DEF Coming
  <2> QED BY <1>1, <1>3, <1>4, <1>10, <1>11, <2>1 DEF RowInv, Stands, Writing, Taken
<1>19. TakenInv'
  BY <1>1, <1>5, <1>6, <1>11 DEF TransferInv, TakenInv, Taken
<1>20. ASSUME ~disturbed
       PROVE  ClearInv'
  <2>0. WroteInv /\ CurrentInv /\ ReadInv /\ AgainInv /\ TakenInv
    BY <1>20 DEF TransferInv
  <2>1. \A j \in DOMAIN outcome : Taken(j) => outcome[j].on # t /\ outcome[j].on \in Ids
    BY <1>1, <1>20, <2>0, Alone DEF TakenInv, t
  <2>2. \A i \in DOMAIN outcome \ {import.row} : Taken(i)' <=> Taken(i)
    BY <1>11 DEF Taken
  <2>3. WroteInv'
    <3>1. IsWritten(new, Row)
      <4>1. products[t].live
        <5>1. /\ products[t].version = import.seen[t].version
          BY <1>1, <2>0 DEF CurrentInv, t
        <5> QED BY <1>1, <1>5, <1>6, <2>0, <5>1, MatchHas DEF ReadInv, Stands
      <4>2. import.cat = 0 <=> Row.cat = None
        BY <1>1, <1>4 DEF TransferInv, CategoriesInv, IsKnown, Stands
      <4> QED BY <1>8, <4>1, <4>2 DEF IsWritten, Bears
    <3>2. ~(import.row < import.row)
      BY <1>3
    <3>3. ASSUME NEW i \in DOMAIN outcome \ {import.row}, Taken(i)
          PROVE  /\ IsWritten(products'[outcome[i].on], Rows(sheet)[i])
                 /\ i < import.row =>
                      IsSettled(outcome[i].as, Rows(sheet)[i], products'[outcome[i].on], posted[outcome[i].on])
                 /\ \A j \in DOMAIN outcome \ {i} : Taken(j) => outcome[j].on # outcome[i].on
                 /\ outcome[i].on # t
      <4>1. products'[outcome[i].on] = products[outcome[i].on]
        BY <1>9, <2>1, <3>3
      <4> QED BY <2>0, <2>1, <3>3, <4>1 DEF WroteInv
    <3>4. outcome'[import.row].on = t /\ outcome'[import.row].as = "updated"
      BY <1>11
    <3> QED BY <1>1, <1>3, <1>9, <1>10, <1>11, <2>2, <3>1, <3>2, <3>3, <3>4 DEF WroteInv, Stands
  <2>4. CurrentInv'
    BY <1>10, <1>11 DEF CurrentInv, Stands
  <2>5. ReadInv'
    <3>1. import.seen[t].version <= products[t].version /\ import.seen[t].version \in Nat
      <4>1. import.seen \in [Ids -> Articles]
        BY <1>1, Going
      <4> QED BY <1>1, <1>6, <4>1 DEF TransferInv, SeenInv, Stands, Articles
    <3>2. products'[t].version > import.seen[t].version
      BY <1>7, <1>8, <1>9, <1>12, <3>1
    <3>3. ASSUME NEW i \in DOMAIN outcome \ {import.row}, Taken(i)
          PROVE  products'[outcome[i].on] = products[outcome[i].on]
      BY <1>9, <2>1, <3>3
    <3> QED BY <1>1, <1>3, <1>9, <1>10, <1>11, <2>0, <3>1, <3>2, <3>3 DEF ReadInv, Stands, Taken
  <2>6. AgainInv'
    <3>1. SameAgain'
      <4>1. import.row \in DOMAIN before /\ Known(import.row) => before[import.row].on = t
        BY <1>4, <1>20, KnownStands DEF t
      <4>2. SameAgain
        BY <2>0 DEF AgainInv
      <4> QED BY <1>1, <1>11, <1>20, <4>1, <4>2 DEF SameAgain, Known
    <3>3. ASSUME NEW i \in DOMAIN before, Known(i), Coming(i)'
          PROVE  /\ before[i].on \in Ids /\ ~Duplicate(Rows(sheet), i)
                 /\ Bears(import.seen[before[i].on], Rows(sheet)[i])
                 /\ products'[before[i].on].version = import.seen[before[i].on].version
                 /\ ~(i = import.row /\ import'.at \in Writing)
      <4>1. i \in 1..Len(Rows(sheet))
        BY <1>3 DEF TransferInv, SheetTypes
      <4>2. i > import.row /\ Coming(i) /\ i # import.row
        BY <1>3, <1>10, <3>3, <4>1 DEF Coming
      <4>3. /\ before[i].on \in Ids /\ ~Duplicate(Rows(sheet), i)
            /\ Bears(import.seen[before[i].on], Rows(sheet)[i])
            /\ products[before[i].on].version = import.seen[before[i].on].version
        BY <1>1, <2>0, <3>3, <4>2 DEF AgainInv, Stands
      <4>4. CodesOf(Rows(sheet)[i]) \cap CodesOf(Row) = {}
        BY <1>3, <1>5, <4>1, <4>2, <4>3, CodesApart
      <4>5. before[i].on # t
        <5>1. \/ Row.sku # None /\ import.seen[t].sku = Row.sku
              \/ Row.barcode # None /\ import.seen[t].barcode = Row.barcode
          BY <1>5, MatchHas
        <5> QED BY <4>3, <4>4, <5>1 DEF Bears, CodesOf
      <4> QED BY <1>9, <4>2, <4>3, <4>5
    <3>4. \A i \in DOMAIN before : Known(i)' <=> Known(i)
      BY <1>1 DEF Known
    <3> QED BY <1>1, <1>3, <1>10, <3>1, <3>3, <3>4 DEF AgainInv, Stands
  <2> QED BY <2>3, <2>4, <2>5, <2>6 DEF ClearInv
<1> QED BY <1>1, <1>3, <1>13, <1>14, <1>15, <1>16, <1>17, <1>18, <1>19, <1>20 DEF TransferInv, ClearInv

\* An article is created; nothing that was listed or is there has its codes.
LEMMA WriteCreateKeeps == ASSUME TransferInv, WriteCreate PROVE TransferInv'
<1> DEFINE t == NewId
           new == [Written(NoProduct, 1) EXCEPT !.live = TRUE]
           at == IF Row.qty # 0 THEN "stock" ELSE "minimum"
<1>1. /\ import.at = "write" /\ import.target = 0 /\ \E p \in Ids : products[p].version = 0
      /\ level' = level /\ posted' = posted /\ cats' = cats /\ apart' = apart /\ sheet' = sheet
      /\ before' = before /\ passes' = passes /\ touched' = touched /\ disturbed' = disturbed
      /\ outcome' = [outcome EXCEPT ![import.row] = [as |-> "created", on |-> t]]
      /\ products' = [products EXCEPT ![t] = new]
      /\ import' = [import EXCEPT !.seen[t] = new, !.old = NoProduct, !.target = t, !.at = at]
  BY DEF WriteCreate, Stands, Say
<1>2. t \in Ids /\ products[t].version = 0
  BY <1>1, NewIdIs
<1>3. /\ import \in Imports /\ import.row \in DOMAIN outcome /\ import.row \in Nat
      /\ Row = Rows(sheet)[import.row] /\ Row \in SheetLines
      /\ import.cat \in Nat /\ DOMAIN outcome = DOMAIN Rows(sheet) /\ DOMAIN outcome = 1..Len(Rows(sheet))
      /\ DOMAIN Rows(sheet) = 1..Len(Rows(sheet)) /\ Len(Rows(sheet)) \in Nat
      /\ import.rows = Rows(sheet) /\ passes # 0 /\ import.seen \in [Ids -> Articles]
  BY <1>1, Going
<1>4. RowInv /\ import.at \in Writing
  BY <1>1 DEF TransferInv, Writing
<1>5. /\ MatchExisting(Row, import.seen) = {} /\ ~Duplicate(Rows(sheet), import.row)
      /\ BySku(products, Row.sku) \cup ByBarcode(products, Row.barcode) = {}
  BY <1>1, <1>4 DEF RowInv, Stands, WriteCreate, Refused, Unused, Target, Listed
<1>6. products \in [Ids -> Articles] /\ t \in 0..MaxProducts
  BY <1>2, TransferAssumption DEF TransferInv, ShelfTypes, Ids
<1>7. NoProduct \in Articles
  BY TransferAssumption DEF NoProduct, Articles
<1> HIDE DEF t
<1>8. /\ new \in Articles /\ new.live = TRUE /\ new.sku = Row.sku /\ new.barcode = Row.barcode
      /\ new.cat = import.cat /\ new.price = Row.price /\ new.min = 0 /\ new.version = 1
  BY ONLY <1>3, <1>7 DEF Articles, SheetLines, Written, NoProduct
<1> HIDE DEF new
<1>9. /\ products' \in [Ids -> Articles] /\ products'[t] = new
      /\ \A q \in Ids \ {t} : products'[q] = products[q]
  BY <1>1, <1>2, <1>6, <1>8, Changed
<1>10. /\ import' \in Imports /\ import'.at = at
       /\ import'.row = import.row /\ import'.rows = import.rows
       /\ import'.cats = import.cats /\ import'.target = t /\ import'.cat = import.cat
       /\ import'.seen[t] = new /\ \A q \in Ids \ {t} : import'.seen[q] = import.seen[q]
  <2>1. at \in Steps
    BY DEF Steps
  <2> DEFINE seen2 == [import.seen EXCEPT ![t] = new]
  <2>2. seen2 \in [Ids -> Articles] /\ seen2[t] = new /\ \A q \in Ids \ {t} : seen2[q] = import.seen[q]
    BY <1>2, <1>3, <1>8, Changed
  <2>3. import' = [import EXCEPT !.seen = seen2, !.old = NoProduct, !.target = t, !.at = at]
    BY <1>1
  <2> HIDE DEF seen2, at
  <2>4. /\ import' \in Imports /\ import'.at = at
        /\ import'.row = import.row /\ import'.rows = import.rows /\ import'.seen = seen2
        /\ import'.cats = import.cats /\ import'.target = t /\ import'.cat = import.cat
    BY ONLY <1>3, <1>6, <1>7, <2>1, <2>2, <2>3 DEF Imports
  <2> QED BY <2>2, <2>4
<1>a. import'.at \in {"stock", "minimum"} /\ import'.at \notin Writing
  BY <1>10 DEF Writing
<1>b. Row' = Row
  BY <1>10 DEF Row
<1>11. /\ outcome' \in [DOMAIN outcome -> Results] /\ DOMAIN outcome' = DOMAIN outcome
       /\ outcome'[import.row] = [as |-> "created", on |-> t]
       /\ \A i \in DOMAIN outcome \ {import.row} : outcome'[i] = outcome[i]
  <2>1. [as |-> "created", on |-> t] \in Results /\ outcome \in [DOMAIN outcome -> Results]
    BY <1>6 DEF Results, TransferInv, SheetTypes
  <2> QED BY <1>1, <1>3, <2>1
<1>12. \A q \in Ids : products[q].version \in Nat /\ import.seen[q].version \in Nat
  BY <1>3, <1>6 DEF Articles
<1>c. t \notin touched
  BY <1>1, <1>2, <1>12 DEF TransferInv, SeenInv, Stands
<1>d. posted[t] = 0 /\ ~products[t].live
  BY <1>2 DEF TransferInv, ShelfInv
<1>13. ShelfTypes' /\ SheetTypes'
  BY <1>1, <1>9, <1>11 DEF TransferInv, ShelfTypes, SheetTypes
<1>14. ImportTypes'
  BY <1>1, <1>3, <1>10, <1>11, <1>a DEF TransferInv, ImportTypes, Stands
<1>15. ShelfInv'
  <2>1. OwnCodes(products')
    <3>1. OwnCodes(products)
      BY DEF TransferInv, ShelfInv
    <3>2. \A q \in Ids \ {t} : products[q].live =>
            /\ Row.sku # None => products[q].sku # Row.sku
            /\ Row.barcode # None => products[q].barcode # Row.barcode
      BY <1>5 DEF BySku, ByBarcode
    <3> QED BY <1>8, <1>9, <3>1, <3>2 DEF OwnCodes
  <2>2. HandPriceKept'
    BY <1>1, <1>9, <1>c DEF TransferInv, ShelfTypes, ShelfInv, HandPriceKept
  <2>3. \A q \in Ids : products'[q].version = 0 => ~products'[q].live /\ posted'[q] = 0
    <3>1. \A q \in Ids : products[q].version = 0 => ~products[q].live /\ posted[q] = 0
      BY DEF TransferInv, ShelfInv
    <3> QED BY <1>1, <1>8, <1>9, <3>1
  <2>4. \A q \in Ids : products'[q].cat <= Len(cats)
    <3>1. import.cat <= Len(cats)
      BY <1>1 DEF TransferInv, CategoriesInv, IsKnown, Stands
    <3> QED BY <1>8, <1>9, <3>1 DEF TransferInv, ShelfInv
  <2> QED BY <1>1, <2>1, <2>2, <2>3, <2>4 DEF TransferInv, ShelfInv, StockSetOnce, OneCategoryPerName
<1>16. CategoriesInv'
  BY <1>1, <1>10, <1>a DEF TransferInv, CategoriesInv, IsKnown, Stands
<1>17. SeenInv'
  <2>1. SeenInv /\ OwnCodes(import.seen)
    BY <1>1 DEF TransferInv, SeenInv, Stands
  <2>2. \A q \in Ids \ {t} : import.seen[q].live =>
            /\ Row.sku # None => import.seen[q].sku # Row.sku
            /\ Row.barcode # None => import.seen[q].barcode # Row.barcode
    BY <1>5, MatchNone
  <2>3. OwnCodes(import'.seen)
    BY <1>8, <1>10, <2>1, <2>2 DEF OwnCodes
  <2>4. ASSUME NEW q \in Ids
        PROVE  /\ import'.seen[q].version <= products'[q].version
               /\ q \in touched => import'.seen[q].version < products'[q].version
               /\ import'.seen[q].live => import'.seen[q].version # 0
    BY <1>1, <1>8, <1>9, <1>10, <1>c, <2>1 DEF SeenInv, Stands
  <2> QED BY <1>1, <2>3, <2>4 DEF SeenInv, Stands
<1>18. RowInv'
  <2>1. \A i \in DOMAIN outcome : Coming(i)' => Coming(i) /\ i # import.row
    BY <1>3, <1>10, <1>a DEF Coming
  <2>2. \A i \in DOMAIN outcome : Coming(i) =>
          outcome[i] = [as |-> IF Duplicate(Rows(sheet), i) THEN "skipped" ELSE "none", on |-> 0]
    BY <1>1, <1>4 DEF RowInv, Stands
  <2>3. import'.at = "stock" => Row.qty # 0 /\ products'[t].version > 0 /\ posted[t] = 0
    BY <1>8, <1>9, <1>10, <1>d
  <2>4. Taken(import.row)' /\ outcome'[import.row].on = t /\ outcome'[import.row].as = "created"
    BY <1>10, <1>11 DEF Taken
  <2>5. import'.at \notin Writing \cup {"check", "codes", "write"}
    BY <1>a
  <2> QED BY <1>1, <1>10, <1>11, <1>a, <1>b, <2>1, <2>2, <2>3, <2>4, <2>5 DEF RowInv, Stands
<1>19. TakenInv'
  BY <1>1, <1>2, <1>5, <1>11 DEF TransferInv, TakenInv, Taken
<1>20. ASSUME ~disturbed
       PROVE  ClearInv'
  <2>0. WroteInv /\ CurrentInv /\ ReadInv /\ AgainInv /\ TakenInv
    BY <1>20 DEF TransferInv
  <2>1. \A j \in DOMAIN outcome : Taken(j) => outcome[j].on # t /\ outcome[j].on \in Ids
    BY <1>d, <2>0 DEF TakenInv, WroteInv, IsWritten, Bears
  <2>2. \A i \in DOMAIN outcome \ {import.row} : Taken(i)' <=> Taken(i)
    BY <1>11 DEF Taken
  <2>a. \A i \in DOMAIN outcome \ {import.row} : Taken(i) =>
          /\ products'[outcome[i].on] = products[outcome[i].on]
          /\ import'.seen[outcome[i].on] = import.seen[outcome[i].on]
    BY <1>9, <1>10, <2>1
  <2>3. WroteInv'
    <3>1. IsWritten(new, Row)
      <4>2. import.cat = 0 <=> Row.cat = None
        BY <1>1, <1>4 DEF TransferInv, CategoriesInv, IsKnown, Stands
      <4> QED BY <1>8, <4>2 DEF IsWritten, Bears
    <3>2. ~(import.row < import.row)
      BY <1>3
    <3>3. ASSUME NEW i \in DOMAIN outcome \ {import.row}, Taken(i)
          PROVE  /\ IsWritten(products'[outcome[i].on], Rows(sheet)[i])
                 /\ i < import.row =>
                      IsSettled(outcome[i].as, Rows(sheet)[i], products'[outcome[i].on], posted[outcome[i].on])
                 /\ \A j \in DOMAIN outcome \ {i} : Taken(j) => outcome[j].on # outcome[i].on
                 /\ outcome[i].on # t
      BY <2>0, <2>1, <2>a, <3>3 DEF WroteInv
    <3>4. outcome'[import.row].on = t /\ outcome'[import.row].as = "created"
      BY <1>11
    <3> QED BY <1>1, <1>3, <1>9, <1>10, <1>11, <1>a, <2>2, <3>1, <3>2, <3>3, <3>4 DEF WroteInv, Stands
  <2>4. CurrentInv'
    BY <1>8, <1>9, <1>10, <1>11, <1>a, <1>b DEF CurrentInv, Stands
  <2>5. ReadInv'
    <3>1. \A q \in Ids : products'[q].version = import'.seen[q].version =>
            /\ products'[q].live = import'.seen[q].live
            /\ products'[q].sku = import'.seen[q].sku /\ products'[q].barcode = import'.seen[q].barcode
      BY <1>1, <1>9, <1>10, <2>0 DEF ReadInv, Stands
    <3>2. ASSUME NEW i \in DOMAIN outcome'
          PROVE  /\ outcome'[i].as = "updated" =>
                      products'[outcome'[i].on].version > import'.seen[outcome'[i].on].version
                 /\ outcome'[i].as = "created" => Bears(import'.seen[outcome'[i].on], Rows(sheet)[i])
      <4>1. CASE i = import.row
        BY <1>3, <1>8, <1>10, <1>11, <4>1 DEF Bears
      <4>2. CASE i # import.row
        <5>1. i \in DOMAIN outcome \ {import.row} /\ outcome'[i] = outcome[i]
          BY <1>11, <4>2
        <5>2. /\ outcome[i].as = "updated" =>
                    products[outcome[i].on].version > import.seen[outcome[i].on].version
              /\ outcome[i].as = "created" => Bears(import.seen[outcome[i].on], Rows(sheet)[i])
          BY <1>1, <2>0, <5>1 DEF ReadInv, Stands
        <5> QED BY <2>a, <5>1, <5>2 DEF Taken
      <4> QED BY <4>1, <4>2
    <3> QED BY <1>1, <3>1, <3>2 DEF ReadInv, Stands
  <2>6. AgainInv'
    <3>0. ~(import.row \in DOMAIN before /\ Known(import.row))
      <4>1. 0 \notin Ids
        BY DEF Ids
      <4> QED BY <1>1, <1>4, <1>20, <4>1, KnownStands
    <3>1. SameAgain'
      <4>2. SameAgain
        BY <2>0 DEF AgainInv
      <4> QED BY <1>1, <1>11, <1>20, <3>0, <4>2 DEF SameAgain, Known
    <3>3. ASSUME NEW i \in DOMAIN before, Known(i), Coming(i)'
          PROVE  /\ before[i].on \in Ids /\ ~Duplicate(Rows(sheet), i)
                 /\ Bears(import'.seen[before[i].on], Rows(sheet)[i])
                 /\ products'[before[i].on].version = import'.seen[before[i].on].version
      <4>1. i \in 1..Len(Rows(sheet))
        BY <1>3 DEF TransferInv, SheetTypes
      <4>2. Coming(i)
        BY <1>3, <1>10, <1>a, <3>3, <4>1 DEF Coming
      <4>3. /\ before[i].on \in Ids /\ ~Duplicate(Rows(sheet), i)
            /\ Bears(import.seen[before[i].on], Rows(sheet)[i])
            /\ products[before[i].on].version = import.seen[before[i].on].version
        BY <1>1, <2>0, <3>3, <4>2 DEF AgainInv, Stands
      <4>5. before[i].on # t
        <5>1. products[before[i].on].live
          BY <1>1, <2>0, <4>3 DEF ReadInv, Stands, Bears
        <5> QED BY <1>d, <5>1
      <4> QED BY <1>9, <1>10, <4>3, <4>5
    <3>4. \A i \in DOMAIN before : Known(i)' <=> Known(i)
      BY <1>1 DEF Known
    <3> QED BY <1>1, <1>3, <1>10, <1>a, <3>1, <3>3, <3>4 DEF AgainInv, Stands
  <2> QED BY <2>3, <2>4, <2>5, <2>6 DEF ClearInv
<1> QED BY <1>1, <1>3, <1>13, <1>14, <1>15, <1>16, <1>17, <1>18, <1>19, <1>20 DEF TransferInv, ClearInv

\* The stock of the article just created is set, once.
LEMMA PostStockKeeps == ASSUME TransferInv, PostStock PROVE TransferInv'
<1> DEFINE t == import.target
<1>1. /\ import.at = "stock"
      /\ level' = [level EXCEPT ![t] = @ + Row.qty] /\ posted' = [posted EXCEPT ![t] = @ + 1]
      /\ import' = [import EXCEPT !.at = "minimum"]
      /\ products' = products /\ cats' = cats /\ apart' = apart /\ sheet' = sheet /\ outcome' = outcome
      /\ before' = before /\ passes' = passes /\ touched' = touched /\ disturbed' = disturbed
  BY DEF PostStock, Stands
<1>2. t \in Ids
  BY <1>1, StockTarget
<1>3. /\ import \in Imports /\ import.row \in DOMAIN outcome /\ import.row \in Nat
      /\ Row = Rows(sheet)[import.row] /\ Row \in SheetLines
      /\ DOMAIN outcome = DOMAIN Rows(sheet) /\ import.rows = Rows(sheet) /\ passes # 0
  BY <1>1, Going
<1>4. RowInv
  BY DEF TransferInv
<1>5. /\ outcome[import.row].as = "created" /\ posted[t] = 0 /\ Row.qty # 0
      /\ products[t].version > 0 /\ Taken(import.row) /\ outcome[import.row].on = t
  BY <1>1, <1>4 DEF RowInv, Stands
<1> HIDE DEF t
<1>6. /\ import' \in Imports /\ import'.at = "minimum"
      /\ import'.row = import.row /\ import'.rows = import.rows /\ import'.seen = import.seen
      /\ import'.cats = import.cats /\ import'.target = t /\ import'.cat = import.cat
  <2>1. "minimum" \in Steps
    BY DEF Steps
  <2> QED BY ONLY <1>1, <1>3, <2>1 DEF Imports, t
<1>7. /\ level' \in [Ids -> Int] /\ posted' \in [Ids -> Nat] /\ posted'[t] = 1
      /\ \A q \in Ids \ {t} : posted'[q] = posted[q]
  <2>1. level \in [Ids -> Int] /\ posted \in [Ids -> Nat] /\ Row.qty \in Int
    BY <1>3 DEF TransferInv, ShelfTypes, SheetLines
  <2> QED BY <1>1, <1>2, <1>5, <2>1
<1>8. Row' = Row /\ import'.at \notin Writing
  BY <1>6 DEF Row, Writing
<1>9. \A i \in DOMAIN outcome : Coming(i)' <=> Coming(i)
  BY <1>1, <1>6 DEF Coming
<1>10. ShelfTypes' /\ SheetTypes' /\ ImportTypes'
  BY <1>1, <1>3, <1>6, <1>7 DEF TransferInv, ShelfTypes, SheetTypes, ImportTypes, Stands
<1>11. ShelfInv'
  <2>1. StockSetOnce'
    BY <1>7 DEF TransferInv, ShelfInv, StockSetOnce
  <2>2. \A q \in Ids : products[q].version = 0 => ~products[q].live /\ posted'[q] = 0
    BY <1>2, <1>5, <1>7 DEF TransferInv, ShelfInv
  <2>3. OwnCodes(products') /\ HandPriceKept' /\ OneCategoryPerName'
    BY <1>1 DEF TransferInv, ShelfInv, HandPriceKept, OneCategoryPerName, OwnCodes
  <2> QED BY <1>1, <2>1, <2>2, <2>3 DEF TransferInv, ShelfInv
<1>12. CategoriesInv' /\ SeenInv' /\ TakenInv'
  BY <1>1, <1>6, <1>8 DEF TransferInv, CategoriesInv, IsKnown, SeenInv, TakenInv, Taken, Stands, OwnCodes
<1>13. RowInv'
  <2>1. import'.at \notin {"check", "codes", "write", "stock", "none"}
    BY <1>6
  <2>2. \A i \in DOMAIN outcome : Coming(i) =>
          outcome[i] = [as |-> IF Duplicate(Rows(sheet), i) THEN "skipped" ELSE "none", on |-> 0]
    BY <1>1, <1>4 DEF RowInv, Stands
  <2>3. Taken(import.row)' /\ outcome'[import.row].on = t
    BY <1>1, <1>5, <1>6 DEF Taken
  <2> QED BY <1>1, <1>6, <1>8, <1>9, <2>1, <2>2, <2>3 DEF RowInv, Stands
<1>14. ASSUME ~disturbed
       PROVE  ClearInv'
  <2>0. WroteInv /\ CurrentInv /\ ReadInv /\ AgainInv /\ TakenInv
    BY <1>14 DEF TransferInv
  <2>1. WroteInv'
    <3>1. \A i \in DOMAIN outcome : Taken(i)' <=> Taken(i)
      BY <1>1 DEF Taken
    <3>2. ASSUME NEW i \in DOMAIN outcome, Taken(i), i < import.row
          PROVE  posted'[outcome[i].on] = posted[outcome[i].on]
      <4>1. i # import.row /\ outcome[i].on \in Ids
        BY <1>3, <2>0, <3>2 DEF TakenInv
      <4>2. outcome[i].on # t
        BY <1>3, <1>5, <2>0, <3>2, <4>1 DEF WroteInv
      <4> QED BY <1>7, <4>1, <4>2
    <3> QED BY <1>1, <1>6, <2>0, <3>1, <3>2 DEF WroteInv, Stands
  <2>2. CurrentInv'
    BY <1>1, <1>5, <1>6, <1>7, <2>0 DEF CurrentInv, Stands, t
  <2>3. ReadInv'
    BY <1>1, <1>6, <2>0 DEF ReadInv, Stands
  <2>4. AgainInv'
    <3>1. SameAgain'
      BY <1>1, <2>0 DEF AgainInv, SameAgain
    <3>2. ASSUME NEW i \in DOMAIN before, Known(i), Coming(i)'
          PROVE  /\ before[i].on \in Ids /\ ~Duplicate(Rows(sheet), i)
                 /\ Bears(import.seen[before[i].on], Rows(sheet)[i])
                 /\ products[before[i].on].version = import.seen[before[i].on].version
      <4>1. i \in DOMAIN outcome
        BY <1>3 DEF TransferInv, SheetTypes
      <4> QED BY <1>1, <1>9, <2>0, <3>2, <4>1 DEF AgainInv, Stands
    <3>3. \A i \in DOMAIN before : Known(i)' <=> Known(i)
      BY <1>1 DEF Known
    <3> QED BY <1>1, <1>3, <1>6, <1>8, <3>1, <3>2, <3>3 DEF AgainInv, Stands
  <2> QED BY <2>1, <2>2, <2>3, <2>4 DEF ClearInv
<1> QED BY <1>1, <1>3, <1>10, <1>11, <1>12, <1>13, <1>14 DEF TransferInv, ClearInv

\* The threshold of the row is written, and the row is done.
LEMMA SetMinimumKeeps == ASSUME TransferInv, SetMinimum PROVE TransferInv'
<1> DEFINE t == import.target
           new == [products[t] EXCEPT !.min = Row.min]
<1>1. /\ import.at = "minimum" /\ import' = Onward
      /\ products' = IF MinimumSet THEN [products EXCEPT ![t] = new] ELSE products
      /\ level' = level /\ posted' = posted /\ cats' = cats /\ apart' = apart /\ sheet' = sheet /\ outcome' = outcome
      /\ before' = before /\ passes' = passes /\ touched' = touched /\ disturbed' = disturbed
  BY DEF SetMinimum, Stands
<1>2. /\ import.row \in DOMAIN outcome /\ Row = Rows(sheet)[import.row] /\ Row \in SheetLines
  BY <1>1, Going
<1>3. Taken(import.row) /\ outcome[import.row].on = t
  BY <1>1 DEF TransferInv, RowInv, Stands
<1>4. t \in Ids
  BY <1>2, <1>3 DEF TransferInv, TakenInv
<1>5. products \in [Ids -> Articles] /\ products[t] \in Articles
      /\ outcome \in [DOMAIN outcome -> Results] /\ disturbed \in BOOLEAN
  BY <1>4 DEF TransferInv, ShelfTypes, SheetTypes
<1> HIDE DEF t
<1>6. /\ new \in Articles /\ new.live = products[t].live /\ new.sku = products[t].sku
      /\ new.barcode = products[t].barcode /\ new.cat = products[t].cat /\ new.price = products[t].price
      /\ new.min = Row.min /\ new.version = products[t].version
  BY ONLY <1>2, <1>5 DEF Articles, SheetLines
<1> HIDE DEF new
<1>7. /\ products' \in [Ids -> Articles] /\ products'[t] = IF MinimumSet THEN new ELSE products[t]
      /\ \A q \in Ids \ {t} : products'[q] = products[q]
  <2>1. CASE MinimumSet
    <3>1. products' = [products EXCEPT ![t] = new]
      BY <1>1, <2>1
    <3> QED BY <1>4, <1>5, <1>6, <2>1, <3>1, Changed
  <2>2. CASE ~MinimumSet
    BY <1>1, <1>5, <2>2
  <2> QED BY <2>1, <2>2
<1>8. \A p \in Ids :
        /\ products'[p].live = products[p].live /\ products'[p].sku = products[p].sku
        /\ products'[p].barcode = products[p].barcode
        /\ products'[p].cat = products[p].cat /\ products'[p].price = products[p].price
        /\ products'[p].version = products[p].version
  BY <1>6, <1>7
<1>9. ASSUME ~disturbed
      PROVE  /\ \A p \in Ids : p # t => products'[p].min = products[p].min
             /\ IsSettled(outcome[import.row].as, Rows(sheet)[import.row], products'[t], posted[t])
             /\ import.row \in DOMAIN before /\ Known(import.row) =>
                  outcome[import.row] \in {NotYet, [as |-> "updated", on |-> before[import.row].on]}
  <2>1. CurrentInv /\ AgainInv
    BY <1>9 DEF TransferInv
  <2>2. \A p \in Ids : p # t => products'[p].min = products[p].min
    BY <1>7
  <2>3. /\ outcome[import.row].as = "created" => products[t].min = 0
        /\ outcome[import.row].as = "created" /\ Row.qty # 0 => posted[t] = 1
    BY <1>1, <2>1 DEF CurrentInv, Stands, t
  <2>4. outcome[import.row].as = "updated" \/ (CodesOf(Row) # {} /\ Row.min >= 0) =>
           products'[t].min = Row.min
    <3>1. CASE MinimumSet
      BY <1>6, <1>7, <3>1
    <3>2. CASE ~MinimumSet
      <4>1. outcome[import.row].as = "created" /\ products'[t].min = 0
        BY <1>3, <1>7, <2>3, <3>2 DEF MinimumSet, Taken
      <4>2. Row.min \in Int /\ ~(Row.min > 0 /\ CodesOf(Row) # {})
        BY <1>2, <3>2 DEF SheetLines, MinimumSet
      <4> QED BY <4>1, <4>2
    <3> QED BY <3>1, <3>2
  <2>5. IsSettled(outcome[import.row].as, Rows(sheet)[import.row], products'[t], posted[t])
    BY <1>2, <2>3, <2>4 DEF IsSettled
  <2>6. import.row \in DOMAIN before /\ Known(import.row) =>
                  outcome[import.row] \in {NotYet, [as |-> "updated", on |-> before[import.row].on]}
    BY <1>2, <1>9, <2>1 DEF AgainInv, SameAgain, Known
  <2> QED BY <2>2, <2>5, <2>6
<1>10. ~disturbed' =>
           /\ \A p \in Ids : ~(outcome'[import.row].as \in {"created", "updated"} /\ p = outcome'[import.row].on) =>
                products'[p].min = products[p].min
           /\ outcome'[import.row].as \in {"created", "updated"} =>
                IsSettled(outcome[import.row].as, Rows(sheet)[import.row],
                          products'[outcome[import.row].on], posted[outcome[import.row].on])
           /\ import.row \in DOMAIN before /\ Known(import.row) =>
                outcome'[import.row] \in {NotYet, [as |-> "updated", on |-> before[import.row].on]}
  BY <1>1, <1>3, <1>9 DEF Taken
<1>11. apart \subseteq Names
  BY DEF TransferInv, ShelfTypes
<1> QED BY <1>1, <1>5, <1>7, <1>8, <1>10, <1>11, MovesOn

\* The import starts on a catalogue the till may hold.
LEMMA TransferStarts ==
  ASSUME NEW catalog \in Seq(Articles), Len(catalog) <= MaxProducts,
         \A i \in DOMAIN catalog :
           /\ catalog[i].live /\ catalog[i].cat = 0 /\ catalog[i].version > 0
           /\ \A j \in DOMAIN catalog \ {i} :
                /\ catalog[i].sku # None => catalog[i].sku # catalog[j].sku
                /\ catalog[i].barcode # None => catalog[i].barcode # catalog[j].barcode,
         products = [p \in Ids |-> IF p <= Len(catalog) THEN catalog[p] ELSE NoProduct],
         sheet \in Seq(SheetLines), TransferRest
  PROVE  TransferInv
<1>1. products = [p \in Ids |-> IF p <= Len(catalog) THEN catalog[p] ELSE NoProduct]
  OBVIOUS
<1>2. /\ catalog \in Seq(Articles) /\ Len(catalog) <= MaxProducts /\ Len(catalog) \in Nat
      /\ DOMAIN catalog = 1..Len(catalog)
      /\ \A i \in DOMAIN catalog :
           /\ catalog[i].live /\ catalog[i].cat = 0 /\ catalog[i].version > 0
           /\ \A j \in DOMAIN catalog \ {i} :
                /\ catalog[i].sku # None => catalog[i].sku # catalog[j].sku
                /\ catalog[i].barcode # None => catalog[i].barcode # catalog[j].barcode
  OBVIOUS
<1>3. /\ sheet \in Seq(SheetLines) /\ level = [p \in Ids |-> 0]
      /\ posted = [p \in Ids |-> IF products[p].live THEN 1 ELSE 0]
      /\ cats = <<>> /\ import = Resting /\ outcome = <<>> /\ before = <<>>
      /\ passes = 0 /\ outside = 0 /\ touched = {} /\ disturbed = FALSE
      /\ apart = {}
  BY DEF TransferRest
<1>4. import.at = "none"
  BY <1>3 DEF Resting
<1>5. NoProduct \in Articles /\ NoProduct.live = FALSE /\ NoProduct.cat = 0 /\ NoProduct.version = 0
  BY TransferAssumption DEF NoProduct, Articles
<1>6. \A p \in Ids : \/ p \in DOMAIN catalog /\ products[p] = catalog[p]
                     \/ products[p] = NoProduct
  BY <1>1, <1>2 DEF Ids
<1>7. products \in [Ids -> Articles]
  BY <1>1, <1>2, <1>5, <1>6
<1>8. ShelfTypes /\ SheetTypes /\ ImportTypes
  <2>1. Rows(sheet) \in Seq(SheetLines)
    BY <1>3, RowsAre
  <2>2. DOMAIN outcome = {} /\ DOMAIN before = {} /\ outcome = [i \in {} |-> NotYet] /\ before = [i \in {} |-> NotYet]
    BY <1>3
  <2>3. SheetTypes
    BY <1>3, <2>2 DEF SheetTypes
  <2>4. level \in [Ids -> Int] /\ posted \in [Ids -> Nat] /\ cats \in Seq(CategoryRows)
    BY ONLY <1>3
  <2>5. ShelfTypes
    BY <1>3, <1>7, <2>4 DEF ShelfTypes
  <2>6. ImportTypes
    BY <1>3, <1>4 DEF ImportTypes, Stands
  <2> QED BY <2>3, <2>5, <2>6
<1>9. ShelfInv
  <2>1. OwnCodes(products)
    BY <1>2, <1>5, <1>6 DEF OwnCodes
  <2>2. \A p \in Ids : products[p].version = 0 => ~products[p].live /\ posted[p] = 0
    <3>1. \A i \in DOMAIN catalog : catalog[i].version # 0
      BY <1>2 DEF Articles
    <3> QED BY <1>3, <1>5, <1>6, <3>1
  <2>3. \A p \in Ids : products[p].cat <= Len(cats)
    BY <1>2, <1>3, <1>5, <1>6
  <2> QED BY <1>3, <2>1, <2>2, <2>3 DEF ShelfInv, StockSetOnce, OneCategoryPerName, HandPriceKept
<1>10. CategoriesInv /\ SeenInv /\ RowInv /\ TakenInv
  BY <1>3, <1>4 DEF CategoriesInv, IsKnown, SeenInv, RowInv, TakenInv, Stands
<1>11. WroteInv /\ CurrentInv /\ ReadInv /\ AgainInv
  BY <1>3, <1>4 DEF WroteInv, CurrentInv, ReadInv, AgainInv, SameAgain, Stands
<1> QED BY <1>3, <1>8, <1>9, <1>10, <1>11 DEF TransferInv

\* No step of the import or of another screen breaks any of it.
LEMMA TransferStep == TransferInv /\ [TransferNext]_transferVars => TransferInv'
<1> SUFFICES ASSUME TransferInv, [TransferNext]_transferVars PROVE TransferInv'
  OBVIOUS
<1>1. CASE UNCHANGED transferVars
  <2>1. /\ products' = products /\ level' = level /\ posted' = posted /\ cats' = cats /\ apart' = apart /\ sheet' = sheet
        /\ import' = import /\ outcome' = outcome /\ before' = before /\ passes' = passes
        /\ touched' = touched /\ disturbed' = disturbed
    BY <1>1 DEF transferVars
  <2>2. ShelfTypes' /\ SheetTypes' /\ ImportTypes'
    BY <2>1 DEF TransferInv, ShelfTypes, SheetTypes, ImportTypes, Stands
  <2>3. ShelfInv'
    BY <2>1 DEF TransferInv, ShelfInv, OwnCodes, StockSetOnce, OneCategoryPerName, HandPriceKept
  <2>4. CategoriesInv' /\ SeenInv' /\ TakenInv'
    BY <2>1 DEF TransferInv, CategoriesInv, IsKnown, SeenInv, TakenInv, Taken, Stands, OwnCodes, Row
  <2>5. RowInv'
    BY <2>1 DEF TransferInv, RowInv, Taken, Coming, Stands, Row, Target, BySku, ByBarcode
  <2>6. ~disturbed => WroteInv' /\ CurrentInv'
    BY <2>1 DEF TransferInv, WroteInv, CurrentInv, Taken, Stands, Row
  <2>7. ~disturbed => ReadInv' /\ AgainInv'
    BY <2>1 DEF TransferInv, ReadInv, AgainInv, SameAgain, Known, Coming, Stands, Bears
  <2> QED BY <2>1, <2>2, <2>3, <2>4, <2>5, <2>6, <2>7 DEF TransferInv
<1>2. CASE Export BY <1>2, ExportKeeps
<1>3. CASE Apply BY <1>3, ApplyKeeps
<1>4. CASE ReadCategories BY <1>4, ReadCategoriesKeeps
<1>5. CASE SkipDuplicate BY <1>5, SkipDuplicateKeeps
<1>6. CASE FindCategory BY <1>6, FindCategoryKeeps
<1>7. CASE CheckVersion BY <1>7, CheckVersionKeeps
<1>8. CASE CheckCodes BY <1>8, CheckCodesKeeps
<1>9. CASE WriteUpdate BY <1>9, WriteUpdateKeeps
<1>10. CASE WriteCreate BY <1>10, WriteCreateKeeps
<1>11. CASE PostStock BY <1>11, PostStockKeeps
<1>12. CASE SetMinimum BY <1>12, SetMinimumKeeps
<1>13. CASE Fail BY <1>13, FailKeeps
<1>14. CASE Abandon BY <1>14, AbandonKeeps
<1>19. CASE CreateCategory BY <1>19, CreateCategoryKeeps
<1>20. CASE RecordCategory BY <1>20, RecordCategoryKeeps
<1>21. CASE RefuseWrite BY <1>21, RefuseWriteKeeps
<1>15. ASSUME NEW p \in Ids, NEW codes \in Given(p), EditProduct(p, codes) PROVE TransferInv'
  BY <1>15, EditProductKeeps
<1>16. ASSUME NEW p \in Ids, DeleteProduct(p) PROVE TransferInv' BY <1>16, DeleteProductKeeps
<1>17. ASSUME NEW p \in Ids, Sell(p) PROVE TransferInv' BY <1>17, SellKeeps
<1>18. ASSUME NEW c \in DOMAIN cats, DeleteCategory(c) PROVE TransferInv' BY <1>18, DeleteCategoryKeeps
<1>22. ASSUME NEW c \in DOMAIN cats, NEW name \in HandNames, RenameCategory(c, name) PROVE TransferInv'
  BY <1>22, RenameCategoryKeeps
<1>23. ASSUME NEW name \in HandNames, AddCategory(name) PROVE TransferInv' BY <1>23, AddCategoryKeeps
<1>24. ASSUME NEW codes \in HandCodes, CreateProduct(codes) PROVE TransferInv'
  BY <1>24, CreateProductKeeps
<1>a. CASE TransferNext
  <2>1. CASE \E p \in Ids : DeleteProduct(p) \/ Sell(p) \/ \E codes \in Given(p) : EditProduct(p, codes)
    BY <2>1, <1>15, <1>16, <1>17
  <2>2. CASE \E c \in DOMAIN cats : DeleteCategory(c) \/ \E name \in HandNames : RenameCategory(c, name)
    BY <2>2, <1>18, <1>22
  <2>3. CASE \E name \in HandNames : AddCategory(name)
    BY <2>3, <1>23
  <2>4. CASE \E codes \in HandCodes : CreateProduct(codes)
    BY <2>4, <1>24
  <2> QED BY <1>a, <1>2, <1>3, <1>4, <1>5, <1>6, <1>7, <1>8, <1>9, <1>10, <1>11, <1>12, <1>13,
             <1>14, <1>19, <1>20, <1>21, <2>1, <2>2, <2>3, <2>4 DEF TransferNext
<1> QED BY <1>1, <1>a

\* And it says what was to be shown.
LEMMA TransferInvFaithful == TransferInv => ImportIsFaithful
<1> SUFFICES ASSUME TransferInv PROVE ImportIsFaithful
  OBVIOUS
<1>1. ShelfTypes /\ ShelfInv
  BY DEF TransferInv
<1>2. \A p \in Ids : products[p] \in Articles /\ products[p].cat \in Nat /\ products[p].version \in Nat
  BY <1>1 DEF ShelfTypes, Articles
<1>3. ASSUME NEW p \in Ids
      PROVE  /\ Cardinality(BySku(products, products[p].sku)) <= 1
             /\ Cardinality(ByBarcode(products, products[p].barcode)) <= 1
  <2>1. \A q, r \in BySku(products, products[p].sku) : q = r
    BY <1>1 DEF ShelfInv, OwnCodes, BySku
  <2>2. \A q, r \in ByBarcode(products, products[p].barcode) : q = r
    BY <1>1 DEF ShelfInv, OwnCodes, ByBarcode
  <2>3. ASSUME NEW S, \A q, r \in S : q = r
        PROVE  Cardinality(S) <= 1
    <3>1. CASE S = {}
      BY <3>1, FS_EmptySet
    <3>2. CASE S # {}
      <4>1. PICK q \in S : S = {q}
        BY <2>3, <3>2
      <4> QED BY <4>1, FS_Singleton
    <3> QED BY <3>1, <3>2
  <2> QED BY <2>1, <2>2, <2>3
<1>4. TransferTypeOK
  <2>1. Len(cats) \in Nat
    BY <1>1 DEF ShelfTypes
  <2>2. \A p \in Ids : products[p].cat \in 0..Len(cats)
    BY <1>1, <1>2, <2>1 DEF ShelfInv
  <2>3. Stands("none") \/ (import.row \in DOMAIN import.rows /\ DOMAIN outcome = DOMAIN import.rows)
    BY Going DEF Stands
  <2> QED BY <1>1, <1>2, <1>3, <2>2, <2>3 DEF TransferTypeOK, ShelfTypes
<1>5. SameAgain
  <2>1. CASE disturbed
    BY <2>1 DEF SameAgain
  <2>2. CASE ~disturbed
    BY <2>2 DEF TransferInv, AgainInv
  <2> QED BY <2>1, <2>2
<1>6. OutcomeTrue
  <2>1. SUFFICES ASSUME ~disturbed, NEW i \in DOMAIN outcome, outcome[i].as \in {"created", "updated"},
                        Stands("none") \/ i < import.row
                 PROVE  LET row == Rows(sheet)[i] p == outcome[i].on IN
      /\ products[p].live /\ products[p].price = row.price
      /\ products[p].sku = row.sku /\ products[p].barcode = row.barcode
      /\ products[p].cat = 0 <=> row.cat = None
      /\ outcome[i].as = "updated" \/ (CodesOf(row) # {} /\ row.min >= 0) =>
           products[p].min = row.min
      /\ outcome[i].as = "created" /\ row.qty # 0 => posted[p] = 1
    BY DEF OutcomeTrue
  <2>2. /\ IsWritten(products[outcome[i].on], Rows(sheet)[i])
        /\ IsSettled(outcome[i].as, Rows(sheet)[i], products[outcome[i].on], posted[outcome[i].on])
    BY <2>1 DEF TransferInv, WroteInv, Taken
  <2> QED BY <2>2 DEF IsWritten, IsSettled, Bears
<1> QED BY <1>1, <1>4, <1>5, <1>6 DEF ImportIsFaithful, ShelfInv

\* What is proved of imports, for any sheets and catalogues, however many passes are taken and
\* whatever the other screens do meanwhile: the stock of an article is set once, a row that went
\* through goes through again on the same article, what the till says it created or updated is
\* so, a price set by hand is not written over, no code is on two articles, and no name on two
\* categories that the import alone could have made (importRows, categoryId, matchExisting,
\* updateProduct, createProduct).
THEOREM ImportIsFaithfulCorrect == Spec => []ImportIsFaithful
<1>1. ASSUME Init
      PROVE  TransferInv
  <2>1. CASE part = "transfer"
    <3>1. TransferInit
      BY <1>1, <2>1 DEF Init
    <3>2. PICK catalog \in Catalogs :
            products = [p \in Ids |-> IF p <= Len(catalog) THEN catalog[p] ELSE NoProduct]
      BY <3>1 DEF TransferInit
    <3>3. sheet \in Seq(SheetLines) /\ TransferRest
      BY <3>1, TransferAssumption DEF TransferInit
    <3> QED BY <3>2, <3>3, TransferAssumption, TransferStarts
  <2>2. CASE part # "transfer"
    <3>1. sheet = <<>> /\ products = [p \in Ids |-> NoProduct] /\ TransferRest
      BY <1>1, <2>2 DEF Init
    <3>2. products = [p \in Ids |-> IF p <= Len(<<>>) THEN <<>>[p] ELSE NoProduct]
      <4>1. \A p \in Ids : ~(p <= Len(<<>>))
        BY DEF Ids
      <4> QED BY <3>1, <4>1
    <3>3. <<>> \in Seq(Articles) /\ <<>> \in Seq(SheetLines) /\ Len(<<>>) <= MaxProducts /\ DOMAIN <<>> = {}
      BY TransferAssumption
    <3> QED BY <3>1, <3>2, <3>3, TransferStarts
  <2> QED BY <2>1, <2>2
<1>2. TransferInv /\ [Next]_vars => TransferInv'
  <2>1. [Next]_vars => [TransferNext]_transferVars
    BY DEF Next, vars
  <2> QED BY <2>1, TransferStep
<1>3. TransferInv => ImportIsFaithful
  BY TransferInvFaithful
<1> QED BY <1>1, <1>2, <1>3, PTL DEF Spec
=============================================================================
