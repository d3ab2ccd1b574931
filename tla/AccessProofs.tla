---------------------------- MODULE AccessProofs ----------------------------
(***************************************************************************)
(* Proofs about TillAccess, WaiterAccess, ServerSessions and LoginThrottle,*)
(* for any accounts, phones and callers, any number of attempts allowed    *)
(* and any length of the lock: a till attached to a shop is whole wherever *)
(* its installation stopped, its lock holds, an owner remains, a waiter    *)
(* has one device and locks in time, the tokens of an account follow its   *)
(* life, and passwords tried one at a time are few.                        *)
(***************************************************************************)
EXTENDS MCAccess, SumTheorems, FiniteSetTheorems, SequenceTheorems, TLAPS

----------------------------------------------------------------------------
(* The phones of the waiters.                                              *)

WaiterTypeOK ==
  /\ now \in Int /\ owners \in SUBSET Waiters /\ met \in SUBSET Waiters
  /\ sessions \in SUBSET [phone : Phones, user : Waiters, expires : Int]
  /\ \A p \in Phones : login[p] # Nothing => login[p] \in Login
  /\ DOMAIN login = Phones

\* The phone is about to open a session of w, having found none or closing what it finds.
Opening(p, w) ==
  /\ login[p] # Nothing /\ login[p].user = w /\ login[p].at \in {"close", "open"}

\* One phone at most is about to open an account that no two logins fought over; once it has
\* looked and closed, no session of the account is live; those that are live are of one phone.
WaiterInv ==
  /\ WaiterTypeOK
  /\ \A w \in Waiters \ (owners \cup met) :
       /\ \A p, q \in Phones : Opening(p, w) /\ Opening(q, w) => p = q
       /\ \A p \in Phones, s \in sessions :
            Opening(p, w) /\ login[p].at = "open" /\ s.user = w => ~Live(s)
       /\ \A s, t \in sessions :
            s.user = w /\ t.user = w /\ Live(s) /\ Live(t) => s.phone = t.phone

LEMMA WaiterStarts == WaiterInit => WaiterInv
BY DEF WaiterInit, WaiterInv, WaiterTypeOK, Opening

\* What a step of one login leaves of the others.
LEMMA LoginMoves ==
  ASSUME WaiterTypeOK, NEW p \in Phones, NEW x, login' = [login EXCEPT ![p] = x]
  PROVE  /\ login'[p] = x /\ DOMAIN login' = Phones
         /\ \A q \in Phones \ {p} : login'[q] = login[q]
         /\ \A q \in Phones \ {p} : \A w : Opening(q, w)' = Opening(q, w)
BY DEF WaiterTypeOK, Opening

LEMMA LoginSteps1 ==
  ASSUME WaiterTypeOK, NEW p \in Phones, login[p] # Nothing, NEW a \in LoginSteps, Step(p, a)
  PROVE  /\ DOMAIN login' = Phones
         /\ login'[p] \in Login /\ login'[p].user = login[p].user /\ login'[p].at = a
         /\ \A q \in Phones \ {p} : login'[q] = login[q]
BY DEF WaiterTypeOK, Step, Login

LEMMA WaiterSteps ==
  ASSUME WaiterInv, [WaiterNext]_waiterVars
  PROVE  WaiterInv'
<1> USE DEF WaiterInv
<1>1. ASSUME NEW p \in Phones, NEW w \in Waiters, NEW right \in BOOLEAN, NEW takeover \in BOOLEAN,
             StartLogin(p, w, right, takeover)
      PROVE  WaiterInv'
  <2> DEFINE l == [user |-> w, right |-> right, takeover |-> takeover, at |-> "verify"]
  <2>1. l \in Login /\ l.at = "verify"
    BY DEF Login, LoginSteps
  <2>2. login' = [login EXCEPT ![p] = l]
    BY <1>1 DEF StartLogin
  <2> HIDE DEF l
  <2>3. WaiterTypeOK'
    BY <1>1, <2>1, <2>2 DEF StartLogin, WaiterTypeOK
  <2>4. \A q \in Phones, v \in Waiters : Opening(q, v)' => Opening(q, v) /\ login'[q] = login[q]
    BY <2>1, <2>2 DEF WaiterTypeOK, Opening
  <2> QED BY <2>3, <2>4, <1>1 DEF StartLogin, Live
<1>2. ASSUME NEW p \in Phones, VerifyLogin(p)
      PROVE  WaiterInv'
  <2>1. PICK a \in {"success", "failure"} : Step(p, a)
    BY <1>2 DEF VerifyLogin
  <2>2. /\ DOMAIN login' = Phones /\ login'[p] \in Login /\ login'[p].at = a
        /\ \A q \in Phones \ {p} : login'[q] = login[q]
    BY <2>1, <1>2, LoginSteps1 DEF VerifyLogin, LoginSteps
  <2>3. WaiterTypeOK'
    BY <1>2, <2>2 DEF VerifyLogin, WaiterTypeOK
  <2>4. \A q \in Phones, v \in Waiters : Opening(q, v)' => Opening(q, v) /\ login'[q] = login[q]
    BY <2>2 DEF Opening
  <2> QED BY <2>3, <2>4, <1>2 DEF VerifyLogin, Live
<1>3. ASSUME NEW p \in Phones, RecordFailure(p)
      PROVE  WaiterInv'
  <2>1. login' = [login EXCEPT ![p] = Nothing]
    BY <1>3 DEF RecordFailure, Answer
  <2>2. WaiterTypeOK'
    BY <1>3, <2>1 DEF RecordFailure, WaiterTypeOK
  <2>3. \A q \in Phones, v \in Waiters : Opening(q, v)' => Opening(q, v) /\ login'[q] = login[q]
    BY <2>1 DEF WaiterTypeOK, Opening
  <2> QED BY <2>2, <2>3, <1>3 DEF RecordFailure, Live
<1>4. ASSUME NEW p \in Phones, RecordSuccess(p)
      PROVE  WaiterInv'
  <2>1. PICK a \in {"open", "lookup"} : Step(p, a) /\ (a = "open" => login[p].user \in owners)
    BY <1>4 DEF RecordSuccess
  <2>2. /\ DOMAIN login' = Phones /\ login'[p] \in Login /\ login'[p].at = a
        /\ login'[p].user = login[p].user
        /\ \A q \in Phones \ {p} : login'[q] = login[q]
    BY <2>1, <1>4, LoginSteps1 DEF RecordSuccess, LoginSteps
  <2>3. WaiterTypeOK'
    BY <1>4, <2>2 DEF RecordSuccess, WaiterTypeOK
  <2>4. \A q \in Phones, v \in Waiters \ owners :
          Opening(q, v)' => Opening(q, v) /\ login'[q] = login[q]
    BY <2>1, <2>2 DEF Opening
  <2>5. UNCHANGED <<now, owners, sessions, met>>
    BY <1>4 DEF RecordSuccess
  <2>6. \A s : Live(s)' = Live(s)
    BY <2>5 DEF Live
  <2>7. Waiters \ (owners \cup met)' = Waiters \ (owners \cup met)
        /\ Waiters \ (owners \cup met) \subseteq Waiters \ owners
    BY <2>5
  <2>8. ASSUME NEW w \in Waiters \ (owners \cup met)
        PROVE  /\ \A q, r \in Phones : Opening(q, w)' /\ Opening(r, w)' => q = r
               /\ \A q \in Phones, s \in sessions :
                    Opening(q, w)' /\ login'[q].at = "open" /\ s.user = w => ~Live(s)
    BY <2>4, <2>7
  <2> QED BY <2>3, <2>5, <2>6, <2>8
<1>5. ASSUME NEW p \in Phones, LookUp(p)
      PROVE  WaiterInv'
  <2> DEFINE w == login[p].user
             others == {q \in Phones \ {p} : /\ login[q] # Nothing /\ login[q].user = w
                                             /\ login[q].at \in {"close", "open"}}
  <2>0. login[p] # Nothing /\ login[p].at = "lookup" /\ w \in Waiters
    BY <1>5 DEF LookUp, WaiterTypeOK, Login
  <2>1. UNCHANGED <<now, owners, sessions>> /\ met \subseteq met' /\ met' \in SUBSET Waiters
        /\ (others # {} => w \in met')
    BY <1>5, <2>0 DEF LookUp, WaiterTypeOK
  <2>2. \/ Answer(p) \/ Step(p, "close")
        \/ Step(p, "open") /\ ~\E s \in sessions : s.user = w /\ Live(s)
    BY <1>5 DEF LookUp
  <2>3. /\ DOMAIN login' = Phones /\ (login'[p] # Nothing => login'[p] \in Login)
        /\ login'[p] # Nothing => login'[p].user = w
        /\ login'[p] # Nothing /\ login'[p].at = "open" => ~\E s \in sessions : s.user = w /\ Live(s)
        /\ \A q \in Phones \ {p} : login'[q] = login[q]
    <3>1. CASE Answer(p)
      BY <3>1 DEF Answer, WaiterTypeOK
    <3>2. CASE Step(p, "close")
      BY <3>2, <2>0, LoginSteps1 DEF LoginSteps
    <3>3. CASE Step(p, "open") /\ ~\E s \in sessions : s.user = w /\ Live(s)
      BY <3>3, <2>0, LoginSteps1 DEF LoginSteps
    <3> QED BY <2>2, <3>1, <3>2, <3>3
  <2>4. WaiterTypeOK'
    BY <2>1, <2>3 DEF WaiterTypeOK
  <2>5. \A q \in Phones \ {p} : \A v : Opening(q, v)' = Opening(q, v)
    BY <2>3 DEF Opening
  <2>6. \A v : Opening(p, v)' => v = w
    BY <2>3 DEF Opening
  <2>7. w \notin met' => \A q \in Phones \ {p} : ~Opening(q, w)
    BY <2>1 DEF Opening
  <2>8. \A s : Live(s)' = Live(s)
    BY <2>1 DEF Live
  <2>9. ASSUME NEW v \in Waiters \ (owners \cup met')
        PROVE  /\ \A q, r \in Phones : Opening(q, v)' /\ Opening(r, v)' => q = r
               /\ \A q \in Phones, s \in sessions :
                    Opening(q, v)' /\ login'[q].at = "open" /\ s.user = v => ~Live(s)
    <3>1. v \in Waiters \ (owners \cup met)
      BY <2>1, <2>9
    <3>2. login'[p] = Nothing => ~Opening(p, v)'
      BY DEF Opening
    <3> QED BY <2>3, <2>5, <2>6, <2>7, <2>9, <3>1, <3>2
  <2> QED BY <2>1, <2>4, <2>8, <2>9
<1>6. ASSUME NEW p \in Phones, CloseAll(p)
      PROVE  WaiterInv'
  <2>1. login[p] # Nothing /\ login[p].at = "close" /\ Step(p, "open")
        /\ sessions' = WithoutThoseOf(login[p].user) /\ UNCHANGED <<now, owners, met>>
    BY <1>6 DEF CloseAll
  <2>2. /\ DOMAIN login' = Phones /\ login'[p] \in Login /\ login'[p].user = login[p].user
        /\ \A q \in Phones \ {p} : login'[q] = login[q]
    BY <2>1, LoginSteps1 DEF LoginSteps
  <2>3. sessions' \subseteq sessions /\ \A s \in sessions' : s.user # login[p].user
    BY <2>1 DEF WithoutThoseOf
  <2>4. WaiterTypeOK'
    BY <2>1, <2>2, <2>3 DEF WaiterTypeOK
  <2>5. \A q \in Phones : \A v : Opening(q, v)' => Opening(q, v)
    BY <2>1, <2>2 DEF Opening
  <2>6. \A s : Live(s)' = Live(s)
    BY <2>1 DEF Live
  <2>7. \A v : Opening(p, v)' => v = login[p].user
    BY <2>2 DEF Opening
  <2> QED BY <2>1, <2>2, <2>3, <2>4, <2>5, <2>6, <2>7
<1>7. ASSUME NEW p \in Phones, Open(p)
      PROVE  WaiterInv'
  <2> DEFINE new == [phone |-> p, user |-> login[p].user, expires |-> now + SessionTtl]
  <2>1. /\ login[p] # Nothing /\ login[p].at = "open" /\ login' = [login EXCEPT ![p] = Nothing]
        /\ sessions' = {s \in sessions : Live(s)} \cup {new} /\ UNCHANGED <<now, owners, met>>
    BY <1>7 DEF Open, Answer
  <2>2. new \in [phone : Phones, user : Waiters, expires : Int]
    BY <2>1, WaiterAccessAssumption DEF WaiterTypeOK, Login
  <2>3. new.user = login[p].user /\ new.phone = p
    OBVIOUS
  <2> HIDE DEF new
  <2>4. WaiterTypeOK'
    BY <2>1, <2>2 DEF WaiterTypeOK
  <2>5. \A q \in Phones : \A v : Opening(q, v)' => Opening(q, v) /\ q # p /\ login'[q] = login[q]
    BY <2>1 DEF Opening, WaiterTypeOK
  <2>6. \A s : Live(s)' = Live(s)
    BY <2>1 DEF Live
  <2>7. Opening(p, new.user)
    BY <2>1, <2>3 DEF Opening
  <2> QED BY <2>1, <2>3, <2>4, <2>5, <2>6, <2>7
<1>8. ASSUME NEW w \in Waiters, Switch(w)
      PROVE  WaiterInv'
  BY <1>8 DEF Switch, WaiterTypeOK, Opening, Live
<1>9. CASE Restart
  <2>1. sessions' = {} /\ login' = [p \in Phones |-> Nothing] /\ UNCHANGED <<now, owners, met>>
    BY <1>9 DEF Restart
  <2> QED BY <2>1 DEF WaiterTypeOK, Opening
<1>10. CASE WaiterTick
  <2>1. now' = now + 1 /\ UNCHANGED <<owners, sessions, login, met>>
    BY <1>10 DEF WaiterTick
  <2>2. \A s \in sessions : Live(s)' => Live(s)
    BY <2>1 DEF WaiterTypeOK, Live
  <2>3. WaiterTypeOK'
    BY <2>1 DEF WaiterTypeOK
  <2>4. \A q \in Phones : \A v : Opening(q, v)' = Opening(q, v)
    BY <2>1 DEF Opening
  <2> QED BY <2>1, <2>2, <2>3, <2>4
<1>11. CASE UNCHANGED waiterVars
  BY <1>11 DEF waiterVars, WaiterTypeOK, Opening, Live
<1> QED BY <1>1, <1>2, <1>3, <1>4, <1>5, <1>6, <1>7, <1>8, <1>9, <1>10, <1>11 DEF WaiterNext

LEMMA OnePhone == WaiterInv => OneDevicePerAccount
<1> SUFFICES ASSUME WaiterInv, NEW w \in Waiters \ (owners \cup met)
             PROVE  Cardinality({s.phone : s \in {s \in sessions : s.user = w /\ Live(s)}}) <= 1
  BY DEF OneDevicePerAccount
<1> DEFINE T == {s.phone : s \in {s \in sessions : s.user = w /\ Live(s)}}
<1>1. CASE T = {}
  BY <1>1, FS_EmptySet
<1>2. CASE T # {}
  <2>1. PICK x : x \in T
    BY <1>2
  <2>2. T = {x}
    BY <2>1 DEF WaiterInv
  <2> QED BY <2>2, FS_Singleton
<1> QED BY <1>1, <1>2

----------------------------------------------------------------------------
(* The PINs tried on the phones of the waiters.                            *)

Counts == [Moments -> Nat]

TriesTypeOK ==
  /\ now \in Moments /\ restarts \in Nat
  /\ attempts \in [Waiters -> [failures : Counts, until : Int]]
  /\ tried \in [Waiters -> Counts]

Stretch(t) == {i \in Moments : i >= t /\ i < t + Window}
TriedIn(w, t) == SumFunctionOnSet(tried[w], Stretch(t))
Onward(t) == {i \in Moments : i >= t}
FailedSince(w, t) == SumFunctionOnSet(attempts[w].failures, Onward(t))

\* The logins that have a failure to record, and those that have a wrong PIN to check.
Failing(w)   == {p \in Phones : login[p] # Nothing /\ login[p].user = w /\ login[p].at = "failure"}
Verifying(w) == {p \in Phones : /\ login[p] # Nothing /\ login[p].user = w /\ login[p].at = "verify"
                                /\ ~login[p].right}

\* What one life of the program allows, and n of them.
Allowance == MaxAttempts + Cardinality(Phones) - 1
Allowances(n) == Allowance * n

\* C wrong PINs in the stretch from t, F failures counted since, X about to be, V PINs being checked:
\* until the account is locked for the rest of it, each wrong PIN is a failure counted or about to be;
\* then those being checked are the last; once it is over there are no more.
Within(n, u, r, t, C, F, X, V) ==
  /\ t <= n /\ n < t + Window /\ u < t + Window => C <= Allowances(r) + F + X
  /\ t <= n /\ n < t + Window /\ u >= t + Window => C + V <= Allowances(r + 1)
  /\ n >= t + Window => C <= Allowances(r + 1)

StretchInv(w, t) ==
  Within(now, attempts[w].until, restarts, t,
         TriedIn(w, t), FailedSince(w, t), Cardinality(Failing(w)), Cardinality(Verifying(w)))

AccountInv(w) ==
  /\ Total(attempts[w].failures) < MaxAttempts
  /\ attempts[w].until <= now + Window
  /\ \A i \in Moments : i > now => tried[w][i] = 0
  /\ \A t \in Moments : StretchInv(w, t)

TriesInv == TriesTypeOK /\ \A w \in Waiters : AccountInv(w)

\* Sums of what is counted at some moments.
LEMMA SumsAreCounts ==
  ASSUME NEW f \in Counts, NEW S \in SUBSET Moments
  PROVE  IsFiniteSet(S) /\ IsFiniteSet(Moments) /\ SumFunctionOnSet(f, S) \in Nat
         /\ SumFunctionOnSet(f, S) <= Total(f)
<1>1. IsFiniteSet(Moments)
  BY FS_Interval, WaiterAccessAssumption DEF Moments
<1>2. IsFiniteSet(S) /\ \A x \in Moments : f[x] \in Nat
  BY <1>1, FS_Subset DEF Counts
<1>3. SumFunctionOnSet(f, S) \in Nat
  <2>1. CASE S = {}
    BY <2>1, SumEmpty
  <2>2. CASE S # {}
    BY <1>2, <2>2, SumTerm
  <2> QED BY <2>1, <2>2
<1>4. S \ Moments = {} /\ S \cup Moments = Moments
  OBVIOUS
<1>5. SumFunctionOnSet(f, S) <= Total(f)
  BY <1>1, <1>2, <1>4, SumWithin DEF Total
<1> QED BY <1>1, <1>2, <1>3, <1>5

\* One more now is one more in the stretches that hold this moment, and in no other.
LEMMA SumOneMore ==
  ASSUME NEW f \in Counts, now \in Moments, NEW S \in SUBSET Moments
  PROVE  /\ OneMore(f) \in Counts
         /\ \A i \in Moments : i # now => OneMore(f)[i] = f[i]
         /\ SumFunctionOnSet(OneMore(f), S) = SumFunctionOnSet(f, S) + IF now \in S THEN 1 ELSE 0
<1> DEFINE g == OneMore(f)
<1>1. g \in Counts /\ g[now] = f[now] + 1 /\ \A i \in Moments : i # now => g[i] = f[i]
  BY DEF OneMore, Counts
<1>2. IsFiniteSet(S) /\ SumFunctionOnSet(f, S) \in Nat /\ \A x \in S : f[x] \in Int /\ g[x] \in Int
  BY <1>1, SumsAreCounts DEF Counts
<1> HIDE DEF g
<1>3. CASE now \in S
  <2>1. \A x \in S : x # now => g[x] = f[x]
    BY <1>1
  <2>2. SumFunctionOnSet(g, S) = SumFunctionOnSet(f, S) + g[now] - f[now]
    BY <1>2, <1>3, <2>1, SumPut
  <2>3. f[now] \in Nat
    BY DEF Counts
  <2>4. SumFunctionOnSet(g, S) = SumFunctionOnSet(f, S) + 1
    BY <1>1, <1>2, <2>2, <2>3
  <2> QED BY <1>1, <1>3, <2>4 DEF g
<1>4. CASE now \notin S
  <2>1. \A x \in S : f[x] \in Int /\ g[x] = f[x]
    BY <1>1, <1>2, <1>4
  <2>2. SumFunctionOnSet(f, S) = SumFunctionOnSet(g, S)
    BY <1>2, <2>1, SumSame
  <2> QED BY <1>1, <1>2, <1>4, <2>2 DEF g
<1> QED BY <1>3, <1>4

\* What has not happened is counted nowhere.
LEMMA NoCounts ==
  ASSUME NEW S \in SUBSET Moments
  PROVE  NotOnce \in Counts /\ SumFunctionOnSet(NotOnce, S) = 0 /\ Total(NotOnce) = 0
<1>1. NotOnce \in Counts /\ \A x \in Moments : NotOnce[x] = 0
  BY DEF NotOnce, Counts
<1>2. IsFiniteSet(S) /\ IsFiniteSet(Moments)
  BY <1>1, SumsAreCounts
<1> QED BY <1>1, <1>2, SumZeros DEF Total

\* What has failed since t is all there while the stretch from t goes on.
LEMMA RecentSince ==
  ASSUME now \in Moments, NEW e, e.failures \in Counts, NEW t \in Moments
  PROVE  /\ Recent(e) \in Counts
         /\ t <= now /\ now < t + Window =>
              SumFunctionOnSet(Recent(e), Onward(t)) = SumFunctionOnSet(e.failures, Onward(t)) + 1
<1> DEFINE f == e.failures
           g == [i \in Moments |-> IF now - i < Window THEN e.failures[i] ELSE 0]
<1>1. g \in Counts
  BY DEF Counts
<1>2. Onward(t) \in SUBSET Moments /\ (t <= now => now \in Onward(t))
  BY DEF Onward
<1>3. Recent(e) = OneMore(g)
  BY DEF Recent
<1>4. ASSUME t <= now, now < t + Window
      PROVE  SumFunctionOnSet(g, Onward(t)) = SumFunctionOnSet(f, Onward(t))
  <2>1. \A i \in Onward(t) : now - i < Window
    BY <1>4, WaiterAccessAssumption DEF Onward, Moments
  <2>2. \A i \in Onward(t) : g[i] = f[i] /\ f[i] \in Int /\ g[i] \in Int
    BY <1>2, <2>1 DEF Counts
  <2>3. IsFiniteSet(Onward(t))
    BY <1>1, <1>2, SumsAreCounts
  <2> HIDE DEF f, g
  <2> QED BY <2>2, <2>3, SumSame
<1> HIDE DEF f, g
<1>5. /\ OneMore(g) \in Counts
      /\ t <= now => SumFunctionOnSet(OneMore(g), Onward(t)) = SumFunctionOnSet(g, Onward(t)) + 1
  BY <1>1, <1>2, SumOneMore
<1> QED BY <1>3, <1>4, <1>5 DEF f

\* What the lives of the program allow adds up.
LEMMA AllowanceAdds ==
  /\ IsFiniteSet(Phones) /\ Cardinality(Phones) \in Nat
  /\ MaxAttempts \in Nat \ {0} /\ Window \in Nat \ {0}
  /\ Allowance \in Nat /\ Allowance = MaxAttempts + Cardinality(Phones) - 1
  /\ \A n \in Nat : Allowances(n) \in Nat /\ Allowances(n + 1) = Allowances(n) + Allowance
<1>1. /\ IsFiniteSet(Phones) /\ Cardinality(Phones) \in Nat
      /\ MaxAttempts \in Nat \ {0} /\ Window \in Nat \ {0}
  BY WaiterAccessAssumption, FS_CardinalityType
<1>2. Allowance \in Nat /\ Allowance = MaxAttempts + Cardinality(Phones) - 1
  BY <1>1 DEF Allowance
<1>3. \A a, n \in Nat : a * n \in Nat /\ a * (n + 1) = a * n + a
  OBVIOUS
<1> QED BY <1>1, <1>2, <1>3 DEF Allowances

\* The logins of an account that fail and those that verify are not more than the phones.
LEMMA LoginsCounted ==
  ASSUME NEW w
  PROVE  /\ IsFiniteSet(Failing(w)) /\ IsFiniteSet(Verifying(w))
         /\ Cardinality(Failing(w)) \in Nat /\ Cardinality(Verifying(w)) \in Nat
         /\ Cardinality(Failing(w)) + Cardinality(Verifying(w)) <= Cardinality(Phones)
<1>1. Failing(w) \in SUBSET Phones /\ Verifying(w) \in SUBSET Phones /\ Failing(w) \cap Verifying(w) = {}
  BY DEF Failing, Verifying
<1>2. IsFiniteSet(Failing(w)) /\ IsFiniteSet(Verifying(w))
  BY <1>1, AllowanceAdds, FS_Subset
<1>3. Cardinality(Failing(w)) \in Nat /\ Cardinality(Verifying(w)) \in Nat
  BY <1>2, FS_CardinalityType
<1>4. Cardinality(Failing(w) \cup Verifying(w)) = Cardinality(Failing(w)) + Cardinality(Verifying(w))
  <2>1. Cardinality(Failing(w) \cap Verifying(w)) = 0
    BY <1>1, FS_EmptySet
  <2>2. ASSUME NEW A, NEW B, IsFiniteSet(A), IsFiniteSet(B), Cardinality(A) \in Nat, Cardinality(B) \in Nat,
               Cardinality(A \cap B) = 0
        PROVE  Cardinality(A \cup B) = Cardinality(A) + Cardinality(B)
    <3>1. Cardinality(A \cup B) = Cardinality(A) + Cardinality(B) - Cardinality(A \cap B)
      BY <2>2, FS_Union
    <3> QED BY <2>2, <3>1
  <2> QED BY <1>2, <1>3, <2>1, <2>2
<1>5. Cardinality(Failing(w) \cup Verifying(w)) <= Cardinality(Phones)
  BY <1>1, AllowanceAdds, FS_Subset
<1> QED BY <1>2, <1>3, <1>4, <1>5

\* The bound is that of every stretch: the failures counted are less than MaxAttempts.
LEMMA TriesBound == TriesInv => WrongPinsBounded
<1> SUFFICES ASSUME TriesInv, NEW w \in Waiters, NEW t \in Moments
             PROVE  TriedIn(w, t) <= Allowance * (restarts + 1)
  BY DEF WrongPinsBounded, TriedIn, Stretch, Allowance
<1> DEFINE C == TriedIn(w, t)
           F == FailedSince(w, t)
           X == Cardinality(Failing(w))
           V == Cardinality(Verifying(w))
<1>1. AccountInv(w) /\ StretchInv(w, t) /\ now \in Int /\ t \in Int /\ attempts[w].until \in Int
      /\ restarts \in Nat /\ tried[w] \in Counts /\ attempts[w].failures \in Counts
  BY WaiterAccessAssumption DEF TriesInv, AccountInv, TriesTypeOK, Moments
<1>2. Stretch(t) \in SUBSET Moments /\ Onward(t) \in SUBSET Moments
  BY DEF Stretch, Onward
<1>3. C \in Nat /\ F \in Nat /\ F <= Total(attempts[w].failures) /\ Total(attempts[w].failures) \in Nat
  BY <1>1, <1>2, SumsAreCounts DEF TriedIn, FailedSince, Total
<1>4. F + 1 <= MaxAttempts
  BY <1>1, <1>3, AllowanceAdds DEF AccountInv
<1>5. X \in Nat /\ V \in Nat /\ X + V <= Cardinality(Phones)
  BY LoginsCounted
<1>6. Allowances(restarts + 1) = Allowance * (restarts + 1)
  BY DEF Allowances
<1>7. CASE now < t
  <2>1. \A i \in Stretch(t) : tried[w][i] = 0
    BY <1>1, <1>7, WaiterAccessAssumption DEF AccountInv, Stretch, Moments
  <2>2. IsFiniteSet(Stretch(t))
    BY <1>1, <1>2, SumsAreCounts
  <2>3. C = 0
    BY <2>1, <2>2, SumZeros DEF TriedIn
  <2> QED BY <1>1, <1>6, <2>3, AllowanceAdds
<1>8. CASE now >= t
  <2>1. Within(now, attempts[w].until, restarts, t, C, F, X, V)
    BY <1>1 DEF StretchInv
  <2> HIDE DEF C, F, X, V
  <2>2. C <= Allowances(restarts + 1)
    BY <1>1, <1>3, <1>4, <1>5, <1>8, <2>1, AllowanceAdds DEF Within
  <2> QED BY <1>6, <2>2 DEF C
<1> QED BY <1>1, <1>7, <1>8

\* A stretch of an account that nothing is tried or recorded about.
LEMMA AccountQuiet ==
  ASSUME TriesTypeOK, NEW w \in Waiters, AccountInv(w), UNCHANGED <<now, restarts>>,
         attempts'[w] = attempts[w], tried'[w] = tried[w],
         Failing(w) \subseteq Failing(w)',
         Verifying(w)' \subseteq Verifying(w) \/ attempts[w].until <= now
  PROVE  AccountInv(w)'
<1> SUFFICES ASSUME NEW t \in Moments PROVE StretchInv(w, t)'
  BY DEF AccountInv
<1> DEFINE C == TriedIn(w, t)
           F == FailedSince(w, t)
           X == Cardinality(Failing(w))
           V == Cardinality(Verifying(w))
           X1 == Cardinality(Failing(w)')
           V1 == Cardinality(Verifying(w)')
<1>1. Failing(w)' \in SUBSET Phones /\ Verifying(w)' \in SUBSET Phones
  BY DEF Failing, Verifying
<1>2. /\ X \in Nat /\ X1 \in Nat /\ V \in Nat /\ V1 \in Nat /\ X <= X1
      /\ Verifying(w)' \subseteq Verifying(w) => V1 <= V
  BY <1>1, LoginsCounted, AllowanceAdds, FS_Subset, FS_CardinalityType
<1>3. Within(now, attempts[w].until, restarts, t, C, F, X, V)
  BY DEF AccountInv, StretchInv
<1>4. C \in Nat /\ F \in Nat /\ t \in Int /\ now \in Int /\ attempts[w].until \in Int /\ Window \in Nat
      /\ restarts \in Nat /\ Allowances(restarts) \in Nat /\ Allowances(restarts + 1) \in Nat
  <2>1. Stretch(t) \in SUBSET Moments /\ Onward(t) \in SUBSET Moments
    BY DEF Stretch, Onward
  <2>2. tried[w] \in Counts /\ attempts[w].failures \in Counts /\ attempts[w].until \in Int
        /\ now \in Moments /\ restarts \in Nat
    BY DEF TriesTypeOK
  <2>3. C \in Nat /\ F \in Nat
    BY <2>1, <2>2, SumsAreCounts DEF TriedIn, FailedSince
  <2>4. restarts + 1 \in Nat
    BY <2>2
  <2> QED BY <2>2, <2>3, <2>4, AllowanceAdds DEF Moments
<1> HIDE DEF C, F, X, V, X1, V1
<1>5. Within(now, attempts[w].until, restarts, t, C, F, X1, V1)
  BY <1>2, <1>3, <1>4 DEF Within
<1> QED BY <1>5 DEF StretchInv, TriedIn, FailedSince, C, F, X1, V1

\* What a step of a phone makes of those that fail and verify.
LEMMA LoginsMove ==
  ASSUME DOMAIN login = Phones, NEW p \in Phones, NEW x, login' = [login EXCEPT ![p] = x], NEW w
  PROVE  /\ Failing(w)' = (Failing(w) \ {p})
              \cup (IF x # Nothing /\ x.user = w /\ x.at = "failure" THEN {p} ELSE {})
         /\ Verifying(w)' = (Verifying(w) \ {p})
              \cup (IF x # Nothing /\ x.user = w /\ x.at = "verify" /\ ~x.right THEN {p} ELSE {})
<1>1. login'[p] = x /\ \A q \in Phones : q # p => login'[q] = login[q]
  OBVIOUS
<1> QED BY <1>1 DEF Failing, Verifying

\* A wrong PIN is checked: it was under way, and is about to be recorded.
LEMMA AccountTries ==
  ASSUME TriesTypeOK, NEW w \in Waiters, AccountInv(w), UNCHANGED <<now, restarts>>,
         attempts'[w] = attempts[w], tried'[w] = OneMore(tried[w]),
         NEW p, p \notin Failing(w), p \in Verifying(w), Failing(w)' = Failing(w) \cup {p},
         Verifying(w)' = Verifying(w) \ {p}
  PROVE  AccountInv(w)'
<1>1. tried[w] \in Counts /\ attempts[w].failures \in Counts
  BY DEF TriesTypeOK
<1>2. \A i \in Moments : i > now => tried'[w][i] = 0
  <2>1. now \in Moments /\ {} \in SUBSET Moments /\ now \in Int
    BY DEF TriesTypeOK, Moments
  <2>2. \A i \in Moments : i # now => tried'[w][i] = tried[w][i]
    BY <1>1, <2>1, SumOneMore
  <2>3. \A i \in Moments : i > now => i # now
    BY <2>1 DEF Moments
  <2> QED BY <2>2, <2>3 DEF AccountInv
<1> SUFFICES ASSUME NEW t \in Moments PROVE StretchInv(w, t)'
  BY <1>2 DEF AccountInv
<1> DEFINE C == TriedIn(w, t)
           C1 == TriedIn(w, t)'
           F == FailedSince(w, t)
           X == Cardinality(Failing(w))
           V == Cardinality(Verifying(w))
<1>3. X \in Nat /\ V \in Nat /\ Cardinality(Failing(w)') = X + 1 /\ Cardinality(Verifying(w)') = V - 1
  <2>1. X \in Nat /\ V \in Nat /\ IsFiniteSet(Failing(w)) /\ IsFiniteSet(Verifying(w))
    BY LoginsCounted
  <2>2. ASSUME NEW A, IsFiniteSet(A)
        PROVE  /\ p \notin A => Cardinality(A \cup {p}) = Cardinality(A) + 1
               /\ p \in A => Cardinality(A \ {p}) = Cardinality(A) - 1
    BY <2>2, FS_AddElement, FS_RemoveElement
  <2> QED BY <2>1, <2>2
<1>4. Within(now, attempts[w].until, restarts, t, C, F, X, V)
  BY DEF AccountInv, StretchInv
<1>5. C \in Nat /\ F \in Nat /\ t \in Int /\ now \in Int /\ attempts[w].until \in Int /\ Window \in Nat
      /\ restarts \in Nat /\ Allowances(restarts) \in Nat /\ Allowances(restarts + 1) \in Nat
  <2>1. Stretch(t) \in SUBSET Moments /\ Onward(t) \in SUBSET Moments
    BY DEF Stretch, Onward
  <2>2. attempts[w].until \in Int /\ now \in Moments /\ restarts \in Nat
    BY DEF TriesTypeOK
  <2>3. C \in Nat /\ F \in Nat
    BY <1>1, <2>1, SumsAreCounts DEF TriedIn, FailedSince
  <2>4. restarts + 1 \in Nat
    BY <2>2
  <2> QED BY <2>2, <2>3, <2>4, AllowanceAdds DEF Moments
<1>6. C1 = C + IF now \in Stretch(t) THEN 1 ELSE 0
  <2>1. Stretch(t) \in SUBSET Moments
    BY DEF Stretch
  <2> QED BY <1>1, <2>1, SumOneMore DEF TriedIn, TriesTypeOK
<1>7. now \in Stretch(t) => t <= now /\ now < t + Window
  BY DEF Stretch
<1> HIDE DEF C, C1, F, X, V
<1>8. Within(now, attempts[w].until, restarts, t, C1, F, X + 1, V - 1)
  BY <1>3, <1>4, <1>5, <1>6, <1>7 DEF Within
<1> QED BY <1>3, <1>8 DEF StretchInv, FailedSince, C1, F

\* A failure is recorded: it was about to be.
LEMMA AccountFails ==
  ASSUME TriesTypeOK, NEW w \in Waiters, AccountInv(w), UNCHANGED <<now, restarts>>,
         attempts'[w] = Failed(attempts[w]), tried'[w] = tried[w],
         NEW p, p \in Failing(w), Failing(w)' = Failing(w) \ {p}, Verifying(w)' = Verifying(w)
  PROVE  AccountInv(w)' /\ attempts'[w] \in [failures : Counts, until : Int]
<1> DEFINE e == attempts[w]
           f == Recent(e)
<1>1. /\ tried[w] \in Counts /\ e.failures \in Counts /\ e.until \in Int /\ now \in Int /\ now \in Moments
      /\ Window \in Nat /\ e.until <= now + Window
  BY AllowanceAdds DEF TriesTypeOK, AccountInv, Moments
<1>2. f \in Counts /\ Total(f) \in Nat
  <2>1. f \in Counts
    BY <1>1, RecentSince DEF TriesTypeOK
  <2> QED BY <2>1, SumsAreCounts DEF Total
<1>3. \/ Total(f) >= MaxAttempts /\ attempts'[w] = [failures |-> NotOnce, until |-> now + Window]
      \/ Total(f) < MaxAttempts /\ attempts'[w] = [failures |-> f, until |-> e.until]
  BY <1>2, AllowanceAdds DEF Failed
<1> HIDE DEF e, f
<1>4. /\ attempts'[w] \in [failures : Counts, until : Int]
      /\ Total(attempts'[w].failures) < MaxAttempts
      /\ attempts'[w].until <= now + Window
  <2>1. NotOnce \in Counts /\ Total(NotOnce) = 0
    BY NoCounts
  <2> QED BY <1>1, <1>2, <1>3, <2>1, AllowanceAdds
<1> SUFFICES ASSUME NEW t \in Moments PROVE StretchInv(w, t)'
  BY <1>4 DEF AccountInv, Total
<1> DEFINE C == TriedIn(w, t)
           F == FailedSince(w, t)
           F1 == FailedSince(w, t)'
           X == Cardinality(Failing(w))
           V == Cardinality(Verifying(w))
<1>5. X \in Nat /\ V \in Nat /\ X + V <= Cardinality(Phones) /\ Cardinality(Failing(w)') = X - 1
      /\ Cardinality(Verifying(w)') = V
  BY LoginsCounted, FS_RemoveElement
<1>6. Within(now, e.until, restarts, t, C, F, X, V)
  BY DEF AccountInv, StretchInv, e
<1>7. Stretch(t) \in SUBSET Moments /\ Onward(t) \in SUBSET Moments
  BY DEF Stretch, Onward
<1>8. C \in Nat /\ F \in Nat /\ t \in Int /\ restarts \in Nat /\ Allowances(restarts) \in Nat
      /\ Allowances(restarts + 1) = Allowances(restarts) + Allowance
      /\ Allowance = MaxAttempts + Cardinality(Phones) - 1
      /\ MaxAttempts \in Nat /\ Cardinality(Phones) \in Nat
  <2>1. C \in Nat /\ F \in Nat
    BY <1>1, <1>7, SumsAreCounts DEF TriedIn, FailedSince, e
  <2> QED BY <2>1, AllowanceAdds DEF TriesTypeOK, Moments
<1>9. F <= Total(e.failures) /\ Total(e.failures) < MaxAttempts /\ Total(e.failures) \in Nat
  BY <1>1, <1>7, SumsAreCounts DEF FailedSince, AccountInv, Total, e
<1>10. CASE Total(f) >= MaxAttempts /\ attempts'[w] = [failures |-> NotOnce, until |-> now + Window]
  <2>1. attempts'[w].until = now + Window
    BY <1>10
  <2>2. F1 \in Nat
    <3>1. attempts'[w].failures \in Counts
      BY <1>4
    <3> QED BY <1>7, <3>1, SumsAreCounts DEF FailedSince
  <2> HIDE DEF C, F, F1, X, V
  <2>3. Within(now, attempts'[w].until, restarts, t, C, F1, X - 1, V)
    BY <1>1, <1>5, <1>6, <1>8, <1>9, <2>1, <2>2 DEF Within
  <2> QED BY <1>5, <2>3 DEF StretchInv, TriedIn, C, F1, X, V
<1>11. CASE Total(f) < MaxAttempts /\ attempts'[w] = [failures |-> f, until |-> e.until]
  <2>1. attempts'[w].until = e.until /\ attempts'[w].failures = f
    BY <1>11
  <2>2. F1 = SumFunctionOnSet(f, Onward(t))
    BY <2>1 DEF FailedSince
  <2>3. F1 \in Nat
    BY <1>2, <1>7, <2>2, SumsAreCounts
  <2>4. t <= now /\ now < t + Window => F1 = F + 1
    BY <1>1, <2>2, RecentSince DEF FailedSince, e, f
  <2> HIDE DEF C, F, F1, X, V
  <2>5. Within(now, attempts'[w].until, restarts, t, C, F1, X - 1, V)
    BY <1>1, <1>5, <1>6, <1>8, <2>1, <2>3, <2>4 DEF Within
  <2> QED BY <1>5, <2>5 DEF StretchInv, TriedIn, C, F1, X, V
<1> QED BY <1>3, <1>10, <1>11

\* The account begins afresh: after a good PIN there is nothing to count, after a restart what was
\* counted is within what the lives before allow.
LEMMA AccountAfresh ==
  ASSUME TriesTypeOK, NEW w \in Waiters, now' = now, restarts' \in Nat, attempts'[w] = NoFailure,
         tried'[w] \in Counts, \A i \in Moments : i > now => tried'[w][i] = 0,
         \A t \in Moments : TriedIn(w, t)' <= Allowances(restarts')
  PROVE  AccountInv(w)'
<1>1. now \in Int /\ now >= 1 /\ Window \in Nat \ {0} /\ MaxAttempts \in Nat \ {0}
  BY AllowanceAdds DEF TriesTypeOK, Moments
<1>2. attempts'[w].until = 0 /\ attempts'[w].failures = NotOnce
  BY DEF NoFailure
<1>3. Total(attempts'[w].failures) = 0
  BY <1>2, NoCounts
<1> SUFFICES ASSUME NEW t \in Moments PROVE StretchInv(w, t)'
  BY <1>1, <1>2, <1>3 DEF AccountInv, Total
<1> DEFINE C == TriedIn(w, t)'
           F == FailedSince(w, t)'
           X == Cardinality(Failing(w)')
           V == Cardinality(Verifying(w)')
<1>4. t \in Int /\ t >= 1 /\ Stretch(t) \in SUBSET Moments /\ Onward(t) \in SUBSET Moments
  BY DEF Stretch, Onward, Moments
<1>5. F = 0
  BY <1>2, <1>4, NoCounts DEF FailedSince
<1>6. C \in Nat /\ C <= Allowances(restarts')
  BY <1>4, SumsAreCounts DEF TriedIn
<1>7. X \in Nat /\ V \in Nat
  <2>1. Failing(w)' \in SUBSET Phones /\ Verifying(w)' \in SUBSET Phones
    BY DEF Failing, Verifying
  <2> QED BY <2>1, AllowanceAdds, FS_Subset, FS_CardinalityType
<1>8. /\ Allowances(restarts') \in Nat /\ Allowance \in Nat
      /\ Allowances(restarts' + 1) = Allowances(restarts') + Allowance
  BY AllowanceAdds
<1> HIDE DEF C, F, X, V
<1>9. Within(now, 0, restarts', t, C, F, X, V)
  BY <1>1, <1>4, <1>5, <1>6, <1>7, <1>8 DEF Within
<1> QED BY <1>2, <1>9 DEF StretchInv, C, F, X, V

\* Time goes by: a stretch begins with nothing tried, or ends with what it was allowed.
LEMMA AccountAges ==
  ASSUME TriesInv, NEW w \in Waiters, now' = now + 1, now' \in Moments, UNCHANGED <<attempts, login, restarts, tried>>
  PROVE  AccountInv(w)'
<1>1. /\ AccountInv(w) /\ now \in Int /\ now \in Moments /\ Window \in Nat \ {0} /\ restarts \in Nat
      /\ tried[w] \in Counts /\ attempts[w].failures \in Counts /\ attempts[w].until \in Int
      /\ attempts[w].until <= now + Window
  BY AllowanceAdds DEF TriesInv, TriesTypeOK, AccountInv, Moments
<1>2. \A i \in Moments : i > now' => tried'[w][i] = 0
  BY <1>1 DEF AccountInv, Moments
<1>3. attempts'[w].until <= now' + Window
  BY <1>1
<1> SUFFICES ASSUME NEW t \in Moments PROVE StretchInv(w, t)'
  BY <1>1, <1>2, <1>3 DEF AccountInv, Total
<1> DEFINE C == TriedIn(w, t)
           F == FailedSince(w, t)
           X == Cardinality(Failing(w))
           V == Cardinality(Verifying(w))
<1>4. t \in Int /\ Stretch(t) \in SUBSET Moments /\ Onward(t) \in SUBSET Moments
  BY DEF Stretch, Onward, Moments
<1>5. C \in Nat /\ F \in Nat
  BY <1>1, <1>4, SumsAreCounts DEF TriedIn, FailedSince
<1>6. X \in Nat /\ V \in Nat
  BY LoginsCounted
<1>7. C <= Allowances(restarts + 1)
  BY TriesBound DEF WrongPinsBounded, TriedIn, Stretch, Allowances, Allowance
<1>8. t > now => C = 0
  <2> SUFFICES ASSUME t > now PROVE C = 0
    OBVIOUS
  <2>1. \A i \in Stretch(t) : tried[w][i] = 0
    BY <1>1, <1>4 DEF AccountInv, Stretch, Moments
  <2>2. IsFiniteSet(Stretch(t))
    BY <1>1, <1>4, SumsAreCounts
  <2> QED BY <2>1, <2>2, SumZeros DEF TriedIn
<1>9. Allowances(restarts) \in Nat /\ Allowances(restarts + 1) \in Nat
  <2>1. restarts + 1 \in Nat
    BY <1>1
  <2> QED BY <1>1, <2>1, AllowanceAdds
<1>10. Within(now, attempts[w].until, restarts, t, C, F, X, V)
  BY <1>1 DEF AccountInv, StretchInv
<1> HIDE DEF C, F, X, V
<1>11. Within(now + 1, attempts[w].until, restarts, t, C, F, X, V)
  BY <1>1, <1>4, <1>5, <1>6, <1>7, <1>8, <1>9, <1>10 DEF Within
<1>12. UNCHANGED <<TriedIn(w, t), FailedSince(w, t), Failing(w), Verifying(w)>>
  BY DEF TriedIn, FailedSince, Failing, Verifying
<1> QED BY <1>11, <1>12 DEF StretchInv, C, F, X, V

\* Nothing is tried at the start.
LEMMA TriesStart == WaiterInit => TriesInv
<1> SUFFICES ASSUME WaiterInit PROVE TriesInv
  OBVIOUS
<1>1. now = 1 /\ now \in Moments /\ now \in Int /\ restarts = 0
  BY WaiterAccessAssumption DEF WaiterInit, Moments
<1>2. NotOnce \in Counts /\ \A i \in Moments : NotOnce[i] = 0
  BY DEF NotOnce, Counts
<1>3. \A w \in Waiters : attempts[w] = NoFailure /\ tried[w] = NotOnce
  BY DEF WaiterInit
<1>4. TriesTypeOK
  BY <1>1, <1>2 DEF WaiterInit, TriesTypeOK, NoFailure
<1> SUFFICES ASSUME NEW w \in Waiters PROVE AccountInv(w)
  BY <1>4 DEF TriesInv
<1>5. Total(attempts[w].failures) = 0 /\ attempts[w].until = 0
  BY <1>3, NoCounts DEF NoFailure
<1>6. Window \in Nat \ {0} /\ MaxAttempts \in Nat \ {0}
  BY AllowanceAdds
<1> SUFFICES ASSUME NEW t \in Moments PROVE StretchInv(w, t)
  BY <1>1, <1>2, <1>3, <1>5, <1>6 DEF AccountInv
<1>7. t \in Int /\ t >= 1 /\ Stretch(t) \in SUBSET Moments /\ Onward(t) \in SUBSET Moments
  BY DEF Stretch, Onward, Moments
<1>8. TriedIn(w, t) = 0 /\ FailedSince(w, t) = 0
  BY <1>3, <1>7, NoCounts DEF TriedIn, FailedSince, NoFailure
<1>9. Failing(w) = {} /\ Verifying(w) = {}
  BY DEF WaiterInit, Failing, Verifying
<1>10. Cardinality(Failing(w)) = 0 /\ Cardinality(Verifying(w)) = 0
  BY <1>9, FS_EmptySet
<1>11. 0 \in Nat /\ Allowances(0) \in Nat /\ Allowances(0 + 1) \in Nat
  BY AllowanceAdds
<1>12. Within(1, 0, 0, t, 0, 0, 0, 0)
  BY <1>6, <1>7, <1>11 DEF Within
<1> QED BY <1>1, <1>5, <1>8, <1>10, <1>12 DEF StretchInv

\* Every step of the phones keeps the accounts within what is allowed.
LEMMA TriesStep ==
  ASSUME WaiterTypeOK, TriesInv, [WaiterNext]_waiterVars
  PROVE  TriesInv'
<1>1. TriesTypeOK /\ (\A w \in Waiters : AccountInv(w)) /\ DOMAIN login = Phones /\ now \in Int
  BY DEF TriesInv, WaiterTypeOK
<1>13. TriesTypeOK /\ DOMAIN login = Phones
  BY <1>1
<1>14. \A w \in Waiters : AccountInv(w)
  BY <1>1
\* A step that tries and records nothing.
<1>2. ASSUME UNCHANGED <<now, restarts, attempts, tried>>,
             \A v \in Waiters : /\ Failing(v) \subseteq Failing(v)'
                                /\ Verifying(v)' \subseteq Verifying(v) \/ attempts[v].until <= now
      PROVE  TriesInv'
  BY <1>1, <1>2, AccountQuiet DEF TriesInv, TriesTypeOK
<1>3. ASSUME UNCHANGED login
      PROVE  \A v : Failing(v)' = Failing(v) /\ Verifying(v)' = Verifying(v)
  BY <1>3 DEF Failing, Verifying
<1>4. ASSUME NEW p \in Phones, NEW w \in Waiters, NEW right \in BOOLEAN, NEW takeover \in BOOLEAN,
             StartLogin(p, w, right, takeover)
      PROVE  TriesInv'
  <2> DEFINE l == [user |-> w, right |-> right, takeover |-> takeover, at |-> "verify"]
  <2>1. l.user = w /\ l.at = "verify"
    OBVIOUS
  <2>2. /\ login[p] = Nothing /\ attempts[w].until <= now /\ login' = [login EXCEPT ![p] = l]
        /\ UNCHANGED <<now, restarts, attempts, tried>>
    BY <1>4 DEF StartLogin
  <2> HIDE DEF l
  <2>3. \A v : p \notin Failing(v) /\ p \notin Verifying(v)
    BY <2>2 DEF Failing, Verifying
  <2>4. ASSUME NEW v \in Waiters
        PROVE  /\ Failing(v) \subseteq Failing(v)'
               /\ Verifying(v)' \subseteq Verifying(v) \/ attempts[v].until <= now
    <3>1. /\ Failing(v)' = (Failing(v) \ {p})
                \cup (IF l # Nothing /\ l.user = v /\ l.at = "failure" THEN {p} ELSE {})
          /\ Verifying(v)' = (Verifying(v) \ {p})
                \cup (IF l # Nothing /\ l.user = v /\ l.at = "verify" /\ ~l.right THEN {p} ELSE {})
      BY <1>13, <2>2, LoginsMove
    <3>2. p \notin Failing(v) /\ p \notin Verifying(v) /\ l.at # "failure"
      BY <2>1, <2>3
    <3>3. Failing(v) \subseteq Failing(v)'
      BY <3>1, <3>2
    <3>4. v # w => Verifying(v)' \subseteq Verifying(v)
      BY <2>1, <3>1
    <3> QED BY <2>2, <3>3, <3>4
  <2> QED BY <1>2, <2>2, <2>4
<1>5. ASSUME NEW p \in Phones, VerifyLogin(p)
      PROVE  TriesInv'
  <2>0. PICK w \in Waiters : w = login[p].user
    BY <1>5 DEF VerifyLogin, WaiterTypeOK, Login
  <2> DEFINE right == login[p].right
  <2>1. /\ login[p] # Nothing /\ login[p] \in Login /\ login[p].at = "verify" /\ w \in Waiters
        /\ w = login[p].user /\ right \in BOOLEAN /\ UNCHANGED <<now, restarts, attempts>>
        /\ tried' = IF right THEN tried ELSE [tried EXCEPT ![w] = OneMore(@)]
    BY <2>0, <1>5 DEF VerifyLogin, WaiterTypeOK, Login
  <2>2. PICK a \in {"success", "failure"} : Step(p, a) /\ (~right => a = "failure")
    BY <1>5 DEF VerifyLogin
  <2> DEFINE x == [login[p] EXCEPT !.at = a]
  <2>3. login' = [login EXCEPT ![p] = x]
    BY <2>2 DEF Step
  <2>4. x \in Login /\ x.user = w /\ x.at = a /\ x.right = right
    BY <2>1 DEF Login, LoginSteps
  <2> HIDE DEF right, x
  <2>5. \A v : /\ p \notin Failing(v)
               /\ p \in Verifying(v) <=> v = w /\ ~right
               /\ Failing(v)' = (Failing(v) \ {p}) \cup (IF x # Nothing /\ v = w /\ a = "failure" THEN {p} ELSE {})
               /\ Verifying(v)' = Verifying(v) \ {p}
    <3>1. \A v : /\ p \notin Failing(v)
                 /\ p \in Verifying(v) <=> v = w /\ ~right
      BY <2>1 DEF Failing, Verifying, right
    <3>2. \A v : /\ Failing(v)' = (Failing(v) \ {p})
                      \cup (IF x # Nothing /\ x.user = v /\ x.at = "failure" THEN {p} ELSE {})
                 /\ Verifying(v)' = (Verifying(v) \ {p})
                      \cup (IF x # Nothing /\ x.user = v /\ x.at = "verify" /\ ~x.right THEN {p} ELSE {})
      BY <1>1, <2>3, LoginsMove
    <3> QED BY <2>4, <3>1, <3>2
  <2>6. CASE right
    <3>1. UNCHANGED tried
      BY <2>1, <2>6
    <3> QED BY <1>2, <2>1, <2>5, <3>1
  <2>7. CASE ~right
    <3>1. tried' = [tried EXCEPT ![w] = OneMore(@)] /\ a = "failure"
      BY <2>1, <2>2, <2>7
    <3>2. OneMore(tried[w]) \in Counts
      <4>1. {} \in SUBSET Moments /\ tried[w] \in Counts /\ now \in Moments
        BY <1>1, <2>1 DEF TriesTypeOK
      <4> QED BY <4>1, SumOneMore
    <3>3. TriesTypeOK' /\ tried'[w] = OneMore(tried[w]) /\ \A v \in Waiters \ {w} : tried'[v] = tried[v]
      BY <1>1, <2>1, <3>1, <3>2 DEF TriesTypeOK
    <3>4. x # Nothing
      BY <2>4, WaiterAccessAssumption
    <3>5. AccountInv(w)'
      <4>1. p \notin Failing(w) /\ p \in Verifying(w) /\ Failing(w)' = Failing(w) \cup {p}
            /\ Verifying(w)' = Verifying(w) \ {p}
        <5>1. p \notin Failing(w) /\ p \in Verifying(w) /\ Failing(w)' = (Failing(w) \ {p}) \cup {p}
              /\ Verifying(w)' = Verifying(w) \ {p}
          BY <2>5, <2>7, <3>1, <3>4
        <5> QED BY <5>1
      <4>2. AccountInv(w) /\ UNCHANGED <<now, restarts>> /\ attempts'[w] = attempts[w] /\ w \in Waiters
        BY <1>14, <2>1
      <4>3. TriesTypeOK /\ tried'[w] = OneMore(tried[w])
        BY <1>13, <3>3
      <4> QED BY <4>1, <4>2, <4>3, AccountTries
    <3>6. ASSUME NEW v \in Waiters, v # w
          PROVE  AccountInv(v)'
      <4>1. Failing(v) \subseteq Failing(v)' /\ Verifying(v)' \subseteq Verifying(v)
        <5>1. p \notin Failing(v) /\ p \notin Verifying(v) /\ Failing(v)' = (Failing(v) \ {p}) \cup {}
              /\ Verifying(v)' = Verifying(v) \ {p}
          BY <2>5, <3>6
        <5> QED BY <5>1
      <4>2. AccountInv(v) /\ UNCHANGED <<now, restarts>> /\ attempts'[v] = attempts[v] /\ tried'[v] = tried[v]
        BY <1>14, <2>1, <3>3, <3>6
      <4> QED BY <1>13, <3>6, <4>1, <4>2, AccountQuiet
    <3> QED BY <3>3, <3>5, <3>6 DEF TriesInv
  <2> QED BY <2>1, <2>6, <2>7 DEF right
<1>6. ASSUME NEW p \in Phones, RecordFailure(p)
      PROVE  TriesInv'
  <2>0. PICK w \in Waiters : w = login[p].user
    BY <1>6 DEF RecordFailure, WaiterTypeOK, Login
  <2>1. /\ login[p] # Nothing /\ login[p].at = "failure" /\ w \in Waiters /\ w = login[p].user
        /\ UNCHANGED <<now, restarts, tried>> /\ login' = [login EXCEPT ![p] = Nothing]
        /\ attempts' = [attempts EXCEPT ![w] = Failed(attempts[w])]
    BY <2>0, <1>6 DEF RecordFailure, Answer
  <2>2. \A v : /\ p \in Failing(v) <=> v = w
               /\ p \notin Verifying(v)
    BY <2>1 DEF Failing, Verifying
  <2>3. \A v : Failing(v)' = Failing(v) \ {p} /\ Verifying(v)' = Verifying(v)
    <3> SUFFICES ASSUME NEW v PROVE Failing(v)' = Failing(v) \ {p} /\ Verifying(v)' = Verifying(v)
      OBVIOUS
    <3>1. Failing(v)' = (Failing(v) \ {p}) /\ Verifying(v)' = (Verifying(v) \ {p})
      <4> DEFINE x == Nothing
      <4>1. login' = [login EXCEPT ![p] = x] /\ x = Nothing
        BY <2>1
      <4> HIDE DEF x
      <4>2. /\ Failing(v)' = (Failing(v) \ {p})
                  \cup (IF x # Nothing /\ x.user = v /\ x.at = "failure" THEN {p} ELSE {})
            /\ Verifying(v)' = (Verifying(v) \ {p})
                  \cup (IF x # Nothing /\ x.user = v /\ x.at = "verify" /\ ~x.right THEN {p} ELSE {})
        BY <1>13, <4>1, LoginsMove
      <4> QED BY <4>1, <4>2
    <3> QED BY <2>2, <3>1
  <2>4. attempts'[w] = Failed(attempts[w]) /\ \A v \in Waiters \ {w} : attempts'[v] = attempts[v]
    BY <1>13, <2>1 DEF TriesTypeOK
  <2>5. AccountInv(w)' /\ attempts'[w] \in [failures : Counts, until : Int]
    <3>1. p \in Failing(w) /\ Failing(w)' = Failing(w) \ {p} /\ Verifying(w)' = Verifying(w) /\ tried'[w] = tried[w]
      BY <2>1, <2>2, <2>3
    <3>2. AccountInv(w) /\ UNCHANGED <<now, restarts>> /\ w \in Waiters /\ attempts'[w] = Failed(attempts[w])
      BY <1>14, <2>1, <2>4
    <3> QED BY <1>13, <3>1, <3>2, AccountFails
  <2>6. TriesTypeOK'
    BY <1>13, <2>1, <2>4, <2>5 DEF TriesTypeOK
  <2>7. ASSUME NEW v \in Waiters, v # w
        PROVE  AccountInv(v)'
    <3>1. Failing(v) \subseteq Failing(v)' /\ Verifying(v)' \subseteq Verifying(v) /\ tried'[v] = tried[v]
      <4>1. Failing(v)' = Failing(v) \ {p} /\ p \notin Failing(v) /\ Verifying(v)' = Verifying(v) /\ tried'[v] = tried[v]
        BY <2>1, <2>2, <2>3, <2>7
      <4> QED BY <4>1
    <3>2. AccountInv(v) /\ UNCHANGED <<now, restarts>> /\ attempts'[v] = attempts[v]
      BY <1>14, <2>1, <2>4, <2>7
    <3> QED BY <1>13, <2>7, <3>1, <3>2, AccountQuiet
  <2> QED BY <2>5, <2>6, <2>7 DEF TriesInv
<1>7. ASSUME NEW p \in Phones, RecordSuccess(p)
      PROVE  TriesInv'
  <2>0. PICK w \in Waiters : w = login[p].user
    BY <1>7 DEF RecordSuccess, WaiterTypeOK, Login
  <2>1. /\ login[p] # Nothing /\ login[p].at = "success" /\ w \in Waiters /\ w = login[p].user
        /\ UNCHANGED <<now, restarts>>
        /\ attempts' = [attempts EXCEPT ![w] = NoFailure] /\ tried' = [tried EXCEPT ![w] = NotOnce]
    BY <2>0, <1>7 DEF RecordSuccess
  <2>2. PICK a \in {"open", "lookup"} : Step(p, a)
    BY <1>7 DEF RecordSuccess
  <2> DEFINE x == [login[p] EXCEPT !.at = a]
  <2>3. login' = [login EXCEPT ![p] = x] /\ x.at = a
    BY <2>1, <2>2 DEF Step, WaiterTypeOK, Login, LoginSteps
  <2>4. \A v : p \notin Failing(v) /\ p \notin Verifying(v)
    BY <2>1 DEF Failing, Verifying
  <2> HIDE DEF x
  <2>5. \A v : Failing(v)' = Failing(v) /\ Verifying(v)' = Verifying(v)
    <3> SUFFICES ASSUME NEW v PROVE Failing(v)' = Failing(v) /\ Verifying(v)' = Verifying(v)
      OBVIOUS
    <3>1. /\ Failing(v)' = (Failing(v) \ {p})
                \cup (IF x # Nothing /\ x.user = v /\ x.at = "failure" THEN {p} ELSE {})
          /\ Verifying(v)' = (Verifying(v) \ {p})
                \cup (IF x # Nothing /\ x.user = v /\ x.at = "verify" /\ ~x.right THEN {p} ELSE {})
      BY <1>13, <2>3, LoginsMove
    <3>2. x = Nothing \/ (x.at # "failure" /\ x.at # "verify")
      BY <2>3
    <3> QED BY <2>4, <3>1, <3>2
  <2>6. /\ attempts'[w] = NoFailure /\ tried'[w] = NotOnce
        /\ \A v \in Waiters \ {w} : attempts'[v] = attempts[v] /\ tried'[v] = tried[v]
    BY <1>13, <2>1 DEF TriesTypeOK
  <2>7. NotOnce \in Counts /\ NoFailure \in [failures : Counts, until : Int] /\ \A i \in Moments : NotOnce[i] = 0
    BY DEF NotOnce, Counts, NoFailure
  <2>8. TriesTypeOK'
    BY <1>1, <2>1, <2>7 DEF TriesTypeOK
  <2>9. AccountInv(w)'
    <3>1. ASSUME NEW t \in Moments PROVE TriedIn(w, t)' <= Allowances(restarts')
      <4>1. Stretch(t) \in SUBSET Moments
        BY DEF Stretch
      <4>2. TriedIn(w, t)' = 0
        <5>1. SumFunctionOnSet(NotOnce, Stretch(t)) = 0
          BY <4>1, NoCounts
        <5>2. TriedIn(w, t)' = SumFunctionOnSet(NotOnce, Stretch(t))
          BY <2>6 DEF TriedIn, Stretch, Moments
        <5> QED BY <5>1, <5>2
      <4>3. Allowances(restarts) \in Nat /\ restarts' = restarts
        BY <1>13, <2>1, AllowanceAdds DEF TriesTypeOK
      <4> QED BY <4>2, <4>3
    <3>2. restarts' \in Nat
      BY <2>8 DEF TriesTypeOK
    <3>3. now' = now /\ w \in Waiters /\ attempts'[w] = NoFailure /\ tried'[w] \in Counts
          /\ \A i \in Moments : i > now => tried'[w][i] = 0
      BY <2>1, <2>6, <2>7
    <3> QED BY <1>13, <3>1, <3>2, <3>3, AccountAfresh
  <2>10. ASSUME NEW v \in Waiters, v # w
         PROVE  AccountInv(v)'
    <3>1. Failing(v) \subseteq Failing(v)' /\ Verifying(v)' \subseteq Verifying(v)
      BY <2>5
    <3>2. AccountInv(v) /\ UNCHANGED <<now, restarts>> /\ attempts'[v] = attempts[v] /\ tried'[v] = tried[v]
      BY <1>14, <2>1, <2>6, <2>10
    <3> QED BY <1>13, <2>10, <3>1, <3>2, AccountQuiet
  <2> QED BY <2>8, <2>9, <2>10 DEF TriesInv
<1>8. ASSUME NEW p \in Phones, LookUp(p) \/ CloseAll(p) \/ Open(p)
      PROVE  TriesInv'
  <2>1. /\ login[p] # Nothing /\ login[p].at \in {"lookup", "close", "open"}
        /\ UNCHANGED <<now, restarts, attempts, tried>>
    BY <1>8 DEF LookUp, CloseAll, Open
  <2>2. \E x : login' = [login EXCEPT ![p] = x] /\ (x = Nothing \/ x.at \in {"close", "open"})
    <3>1. \A a \in LoginSteps : [login[p] EXCEPT !.at = a].at = a
      BY <2>1 DEF WaiterTypeOK, Login
    <3>2. CASE Answer(p)
      BY <3>2 DEF Answer
    <3>3. CASE Step(p, "close")
      BY <3>1, <3>3 DEF Step, LoginSteps
    <3>4. CASE Step(p, "open")
      BY <3>1, <3>4 DEF Step, LoginSteps
    <3> QED BY <1>8, <3>2, <3>3, <3>4 DEF LookUp, CloseAll, Open
  <2>3. PICK x : login' = [login EXCEPT ![p] = x] /\ (x = Nothing \/ x.at \in {"close", "open"})
    BY <2>2
  <2>4. \A v : p \notin Failing(v) /\ p \notin Verifying(v)
    BY <2>1 DEF Failing, Verifying
  <2>5. \A v : Failing(v)' = Failing(v) /\ Verifying(v)' = Verifying(v)
    <3> SUFFICES ASSUME NEW v PROVE Failing(v)' = Failing(v) /\ Verifying(v)' = Verifying(v)
      OBVIOUS
    <3>1. /\ Failing(v)' = (Failing(v) \ {p})
                \cup (IF x # Nothing /\ x.user = v /\ x.at = "failure" THEN {p} ELSE {})
          /\ Verifying(v)' = (Verifying(v) \ {p})
                \cup (IF x # Nothing /\ x.user = v /\ x.at = "verify" /\ ~x.right THEN {p} ELSE {})
      BY <1>13, <2>3, LoginsMove
    <3>2. x = Nothing \/ (x.at # "failure" /\ x.at # "verify")
      BY <2>3
    <3> QED BY <2>4, <3>1, <3>2
  <2> QED BY <1>2, <2>1, <2>5
<1>9. ASSUME NEW w \in Waiters, Switch(w)
      PROVE  TriesInv'
  BY <1>2, <1>3, <1>9 DEF Switch
<1>10. CASE Restart
  <2>1. now' = now /\ restarts' = restarts + 1 /\ attempts' = [w \in Waiters |-> NoFailure] /\ tried' = tried
    BY <1>10 DEF Restart
  <2>2. NoFailure \in [failures : Counts, until : Int]
    BY DEF NotOnce, Counts, NoFailure
  <2>3. TriesTypeOK' /\ restarts' \in Nat
    BY <1>1, <2>1, <2>2 DEF TriesTypeOK
  <2>4. ASSUME NEW w \in Waiters
        PROVE  AccountInv(w)'
    <3>1. \A t \in Moments : TriedIn(w, t)' <= Allowances(restarts')
      BY <2>1, TriesBound DEF WrongPinsBounded, TriedIn, Stretch, Allowances, Allowance
    <3>2. attempts'[w] = NoFailure /\ tried'[w] \in Counts /\ \A i \in Moments : i > now => tried'[w][i] = 0
      BY <1>1, <2>1 DEF TriesTypeOK, AccountInv
    <3> QED BY <1>1, <2>1, <2>3, <3>1, <3>2, AccountAfresh
  <2> QED BY <2>3, <2>4 DEF TriesInv
<1>11. CASE WaiterTick
  <2>1. now' = now + 1 /\ now' \in Moments /\ UNCHANGED <<attempts, login, restarts, tried>>
    BY <1>1, <1>11, WaiterAccessAssumption DEF WaiterTick, TriesTypeOK, Moments
  <2>2. TriesTypeOK'
    BY <1>1, <2>1 DEF TriesTypeOK
  <2> QED BY <1>1, <2>1, <2>2, AccountAges DEF TriesInv
<1>12. CASE UNCHANGED waiterVars
  BY <1>2, <1>3, <1>12 DEF waiterVars
<1> QED BY <1>4, <1>5, <1>6, <1>7, <1>8, <1>9, <1>10, <1>11, <1>12 DEF WaiterNext

----------------------------------------------------------------------------
(* The tokens and the accounts of the server.                              *)

Changes == {"demote", "activate", "deactivate", "remove"}

ServerTypeOK ==
  /\ tokens \in [Ids -> Token \cup {Nobody}]
  /\ staff \in [Staff -> Person]
  /\ held \in [refresh : Ids, fresh : BOOLEAN]
  /\ calls \in [Callers -> Call \cup {Nobody}] /\ entry \in Entry \cup {Nobody}
  /\ updates \in SUBSET [user : Staff, what : Changes]
  /\ raced \in BOOLEAN /\ taken \in BOOLEAN /\ cut \in BOOLEAN

\* The refreshes and the sign-in that may still issue a token.
Waiting == {c \in Callers : calls[c] # Nobody /\ calls[c].at # "answer"}
Entering == IF entry = Nobody THEN 0 ELSE 1

\* Tokens are numbered in the order of their issue, and there is room for those asked for.
NumberInv ==
  /\ {t \in Ids : tokens[t] # Nobody} = 1..LastToken
  /\ LastToken \in Ids
  /\ LastToken + Cardinality(Waiting) + Entering <= MaxTokens

TillRow(row) == row # Nobody /\ row.user = Holder /\ row.of = "till"

\* What is held, sent or answered is the till's; nobody has yet used the token of an answer.
UseInv ==
  /\ TillRow(tokens[held.refresh])
  /\ \A c \in Callers : calls[c] # Nobody =>
       /\ TillRow(tokens[calls[c].sent])
       /\ calls[c].at = "answer" =>
            /\ calls[c].new \in Ids /\ TillRow(tokens[calls[c].new]) /\ calls[c].new # held.refresh
            /\ \A d \in Callers : calls[d] # Nobody => calls[d].sent # calls[c].new
            /\ \A d \in Callers \ {c} : At(d, "answer") => calls[d].new # calls[c].new
  /\ entry # Nobody /\ entry.of = "till" => entry.user = Holder /\ \A c \in Callers : calls[c] = Nobody

Accepted(row) == ~row.revoked /\ ~row.expired

\* Unless the till is cut off, the token of an answer is live, and so is the one it holds, but
\* while a refresh that goes on will answer another.
LiveInv ==
  ~cut => /\ \A c \in Callers : At(c, "answer") => Accepted(tokens[calls[c].new])
          /\ Accepted(tokens[held.refresh]) \/ Renewing

\* Once an account is removed nothing of it is live, and nothing more is about to be issued but
\* for what was let through before.
OutInv ==
  \A u \in Staff : staff[u].deleted /\ u \notin late =>
    /\ \A t \in Ids : tokens[t] # Nobody /\ tokens[t].user = u => tokens[t].revoked
    /\ u = Holder => \A c \in Callers : ~At(c, "issue")
    /\ entry # Nobody => entry.user # u

\* One change of accounts at a time, which leaves an owner.
OwnerInv ==
  ~raced /\ ~taken =>
    /\ ActiveOwners # {}
    /\ \A g, h \in updates : g = h
    /\ \A g \in updates : g.what # "activate" => ActiveOwners \ {g.user} # {}

TokenInv == NumberInv /\ UseInv /\ LiveInv /\ OutInv
ServerInv == ServerTypeOK /\ TokenInv /\ OwnerInv

\* The last token is the number of those issued.
LEMMA LastIs ==
  ASSUME NEW n \in Ids, {t \in Ids : tokens[t] # Nobody} = 1..n
  PROVE  LastToken = n
<1>1. n \in Int /\ 1 \in Int
  BY ServerSessionsAssumption DEF Ids
<1>2. Cardinality(1..n) = n
  BY FS_Interval, ServerSessionsAssumption DEF Ids
<1> QED BY <1>2 DEF LastToken

LEMMA FirstToken == First \in Token /\ First # Nobody /\ First.user = Holder /\ First.of = "till"
                    /\ ~First.revoked /\ ~First.expired
<1>1. First \in Token
  BY ServerSessionsAssumption DEF First, Token, Uses
<1>2. First.user = Holder /\ First.of = "till" /\ ~First.revoked /\ ~First.expired
  BY DEF First
<1> QED BY <1>1, <1>2, ServerSessionsAssumption

LEMMA ServerStarts == ServerInit => ServerInv
<1> SUFFICES ASSUME ServerInit PROVE ServerInv
  OBVIOUS
<1> USE ServerSessionsAssumption
<1>0. 1 \in Ids
  BY DEF Ids
<1>1. tokens = [t \in Ids |-> IF t = 1 THEN First ELSE Nobody]
  BY DEF ServerInit
<1>2. {t \in Ids : tokens[t] # Nobody} = 1..1
  <2>1. \A t \in Ids : tokens[t] # Nobody <=> t = 1
    BY <1>1, FirstToken
  <2>2. 1..1 = {1}
    OBVIOUS
  <2> QED BY <1>0, <2>1, <2>2
<1>3. LastToken = 1
  BY <1>0, <1>2, LastIs
<1>4. /\ held = [refresh |-> 1, fresh |-> TRUE] /\ calls = [c \in Callers |-> Nobody]
      /\ entry = Nobody /\ updates = {} /\ raced = FALSE /\ taken = FALSE /\ cut = FALSE
      /\ staff = [u \in Staff |-> [role |-> "owner", active |-> TRUE, deleted |-> FALSE]]
  BY DEF ServerInit
<1>5. ServerTypeOK
  BY <1>0, <1>1, <1>4, FirstToken DEF ServerTypeOK, Person
<1>6. Waiting = {}
  BY <1>4 DEF Waiting
<1>7. NumberInv
  BY <1>0, <1>2, <1>3, <1>4, <1>6, FS_EmptySet DEF NumberInv, Ids, Entering
<1>8. TillRow(tokens[1]) /\ Accepted(tokens[1])
  BY <1>0, <1>1, FirstToken DEF TillRow, Accepted
<1>9. UseInv /\ LiveInv
  BY <1>4, <1>8 DEF UseInv, LiveInv, At
<1>10. OutInv
  BY <1>4 DEF OutInv
<1>11. OwnerInv
  BY <1>4 DEF OwnerInv, ActiveOwners, Usable
<1> QED BY <1>5, <1>7, <1>9, <1>10, <1>11 DEF ServerInv, TokenInv

\* A step that issues nothing and starts neither a refresh nor a sign-in leaves the numbers as
\* they are, and the tokens to those whose they were.
LEMMA NumbersKeep ==
  ASSUME ServerTypeOK, TokenInv, held'.refresh = held.refresh, entry' = entry \/ entry' = Nobody,
         \A c \in Callers : calls'[c] # Nobody =>
           /\ calls[c] # Nobody /\ calls'[c].sent = calls[c].sent /\ calls'[c].new = calls[c].new
           /\ calls'[c].at = "answer" <=> calls[c].at = "answer",
         \A t \in Ids : /\ tokens[t] = Nobody <=> tokens'[t] = Nobody
                        /\ tokens[t] # Nobody => /\ tokens'[t].user = tokens[t].user
                                                 /\ tokens'[t].of = tokens[t].of
  PROVE  NumberInv' /\ UseInv'
<1> USE ServerSessionsAssumption
<1>1. {t \in Ids : tokens'[t] # Nobody} = {t \in Ids : tokens[t] # Nobody}
  OBVIOUS
<1>2. LastToken' = LastToken
  BY <1>1 DEF LastToken
<1>3. IsFiniteSet(Waiting) /\ Waiting' \subseteq Waiting
  BY FS_Subset DEF Waiting
<1>4. Cardinality(Waiting') <= Cardinality(Waiting) /\ Cardinality(Waiting) \in Nat
      /\ Cardinality(Waiting') \in Nat
  BY <1>3, FS_Subset, FS_CardinalityType
<1>5. Entering' <= Entering /\ Entering \in Nat /\ Entering' \in Nat
  BY DEF Entering
<1>6. NumberInv'
  BY <1>1, <1>2, <1>4, <1>5 DEF NumberInv, TokenInv, Ids
<1>7. \A t \in Ids : TillRow(tokens[t]) => TillRow(tokens'[t])
  BY DEF TillRow
<1>8. UseInv
  BY DEF TokenInv
<1>9. held.refresh \in Ids /\ \A c \in Callers : calls[c] # Nobody => calls[c].sent \in Ids
  BY DEF ServerTypeOK, Call
<1>10. TillRow(tokens'[held.refresh])
  BY <1>7, <1>8, <1>9 DEF UseInv, TillRow
<1>11. ASSUME NEW c \in Callers, calls'[c] # Nobody
       PROVE  /\ TillRow(tokens'[calls[c].sent])
              /\ calls'[c].at = "answer" => TillRow(tokens'[calls[c].new]) /\ calls[c].new \in Ids
  BY <1>7, <1>8, <1>9, <1>11 DEF UseInv, TillRow
<1>12. UseInv'
  BY <1>8, <1>10, <1>11 DEF UseInv, At, TillRow
<1> QED BY <1>6, <1>12

\* A token issued takes the next number.
LEMMA Issued ==
  ASSUME ServerTypeOK, NumberInv, NEW u \in Staff, NEW of \in Uses, tokens' = Issue(u, of),
         LastToken < MaxTokens
  PROVE  /\ LastToken' = LastToken + 1 /\ LastToken + 1 \in Ids
         /\ tokens' \in [Ids -> Token \cup {Nobody}]
         /\ {t \in Ids : tokens'[t] # Nobody} = 1..LastToken'
         /\ tokens[LastToken + 1] = Nobody /\ tokens'[LastToken + 1] # Nobody
         /\ tokens'[LastToken + 1].user = u /\ tokens'[LastToken + 1].of = of
         /\ ~tokens'[LastToken + 1].revoked /\ ~tokens'[LastToken + 1].expired
         /\ \A t \in Ids : t # LastToken + 1 => tokens'[t] = tokens[t]
<1> USE ServerSessionsAssumption
<1> DEFINE n == LastToken
           new == [First EXCEPT !.user = u, !.of = of]
<1>1. n \in Ids /\ n + 1 \in Ids /\ n \in Nat /\ {t \in Ids : tokens[t] # Nobody} = 1..n
  BY DEF NumberInv, Ids
<1>2. new \in Token /\ new # Nobody /\ new.user = u /\ new.of = of /\ ~new.revoked /\ ~new.expired
  <2>1. new \in Token /\ new.user = u /\ new.of = of /\ ~new.revoked /\ ~new.expired
    BY FirstToken DEF Token
  <2> QED BY <2>1
<1>3. tokens' = [tokens EXCEPT ![n + 1] = new]
  BY DEF Issue
<1> HIDE DEF n, new
<1>4. tokens' \in [Ids -> Token \cup {Nobody}] /\ tokens'[n + 1] = new
      /\ \A t \in Ids : t # n + 1 => tokens'[t] = tokens[t]
  BY <1>1, <1>2, <1>3 DEF ServerTypeOK
<1>5. {t \in Ids : tokens'[t] # Nobody} = 1..(n + 1)
  BY <1>1, <1>2, <1>4 DEF Ids
<1>6. LastToken' = n + 1
  <2>1. LastToken' = Cardinality(1..(n + 1))
    BY <1>5 DEF LastToken
  <2> QED BY <1>1, <2>1, FS_Interval DEF Ids
<1>7. tokens[n + 1] = Nobody
  <2>1. n + 1 \notin 1..n
    BY <1>1
  <2> QED BY <1>1, <2>1
<1> QED BY <1>1, <1>2, <1>4, <1>5, <1>6, <1>7 DEF n

\* A refresh that goes on, and one that ends.
LEMMA GoesOn ==
  ASSUME ServerTypeOK, NEW c \in Callers, calls[c] # Nobody,
         NEW a \in {"find", "revoke", "user", "issue", "answer"}, GoTo(c, a)
  PROVE  /\ calls' \in [Callers -> Call \cup {Nobody}] /\ calls'[c] # Nobody
         /\ calls'[c].at = a /\ calls'[c].sent = calls[c].sent /\ calls'[c].new = calls[c].new
         /\ \A d \in Callers \ {c} : calls'[d] = calls[d]
<1>1. calls[c] \in Call
  BY DEF ServerTypeOK
<1>2. [calls[c] EXCEPT !.at = a] \in Call
  BY <1>1 DEF Call
<1>3. calls' = [calls EXCEPT ![c] = [calls[c] EXCEPT !.at = a]]
  BY DEF GoTo, ServerTypeOK
<1>4. calls'[c] = [calls[c] EXCEPT !.at = a]
  BY <1>3 DEF ServerTypeOK
<1> QED BY <1>1, <1>2, <1>3, <1>4, ServerSessionsAssumption DEF ServerTypeOK, Call

LEMMA Hangs ==
  ASSUME ServerTypeOK, NEW c \in Callers, Hang(c)
  PROVE  /\ calls' \in [Callers -> Call \cup {Nobody}] /\ calls'[c] = Nobody
         /\ \A d \in Callers \ {c} : calls'[d] = calls[d]
BY DEF ServerTypeOK, Hang

\* A refresh that ends leaves the rest, if what it was doing is done or the till is cut off.
LEMMA HangKeeps ==
  ASSUME ServerTypeOK, TokenInv, NEW c \in Callers, Hang(c),
         UNCHANGED <<tokens, staff, held, entry, late>>,
         \/ cut'
         \/ cut' = cut /\ (calls[c] # Nobody => calls[c].at = "find")
  PROVE  TokenInv' /\ calls' \in [Callers -> Call \cup {Nobody}]
<1>1. /\ calls' \in [Callers -> Call \cup {Nobody}] /\ calls'[c] = Nobody
      /\ \A d \in Callers \ {c} : calls'[d] = calls[d]
  BY Hangs
<1>2. NumberInv' /\ UseInv'
  BY <1>1, NumbersKeep
<1>3. LiveInv'
  <2>1. ~cut' => ~cut /\ (Renewing => Renewing')
    BY <1>1 DEF Renewing
  <2> QED BY <1>1, <2>1 DEF LiveInv, TokenInv, At, Accepted
<1>4. OutInv'
  BY <1>1 DEF OutInv, TokenInv, At
<1> QED BY <1>1, <1>2, <1>3, <1>4 DEF TokenInv

\* A refresh that goes on to a step before the answer leaves the numbers and the uses.
LEMMA GoesOnKeeps ==
  ASSUME ServerTypeOK, TokenInv, NEW c \in Callers, calls[c] # Nobody, calls[c].at # "answer",
         NEW a \in {"find", "revoke", "user", "issue"}, GoTo(c, a), UNCHANGED <<tokens, held, entry>>
  PROVE  /\ NumberInv' /\ UseInv' /\ calls' \in [Callers -> Call \cup {Nobody}]
         /\ calls'[c] # Nobody /\ calls'[c].at = a
         /\ \A d \in Callers \ {c} : calls'[d] = calls[d]
<1>1. /\ calls' \in [Callers -> Call \cup {Nobody}] /\ calls'[c] # Nobody
      /\ calls'[c].at = a /\ calls'[c].sent = calls[c].sent /\ calls'[c].new = calls[c].new
      /\ \A d \in Callers \ {c} : calls'[d] = calls[d]
  BY GoesOn
<1>2. NumberInv' /\ UseInv'
  BY <1>1, NumbersKeep
<1> QED BY <1>1, <1>2

\* Revoking changes nothing else.
LEMMA RevokedKeeps ==
  ASSUME ServerTypeOK, NEW of, tokens' = Revoked(of)
  PROVE  /\ tokens' \in [Ids -> Token \cup {Nobody}]
         /\ \A t \in Ids : /\ tokens[t] = Nobody <=> tokens'[t] = Nobody
                           /\ tokens[t] # Nobody =>
                                /\ tokens'[t].user = tokens[t].user /\ tokens'[t].of = tokens[t].of
                                /\ tokens'[t].expired = tokens[t].expired
                                /\ tokens[t].revoked \/ t \in of => tokens'[t].revoked
                           /\ t \notin of => tokens'[t] = tokens[t]
<1>1. ASSUME NEW t \in Ids, tokens[t] # Nobody
      PROVE  /\ [tokens[t] EXCEPT !.revoked = TRUE] \in Token
             /\ [tokens[t] EXCEPT !.revoked = TRUE].user = tokens[t].user
             /\ [tokens[t] EXCEPT !.revoked = TRUE].of = tokens[t].of
             /\ [tokens[t] EXCEPT !.revoked = TRUE].expired = tokens[t].expired
             /\ [tokens[t] EXCEPT !.revoked = TRUE].revoked
  BY <1>1 DEF ServerTypeOK, Token
<1>2. \A t \in Ids : tokens'[t] = IF tokens[t] # Nobody /\ t \in of
                                  THEN [tokens[t] EXCEPT !.revoked = TRUE] ELSE tokens[t]
  BY DEF Revoked
<1>3. tokens' = [t \in Ids |-> tokens'[t]]
  BY DEF Revoked
<1>4. \A t \in Ids : tokens[t] \in Token \cup {Nobody} /\ Nobody \notin Token
  BY ServerSessionsAssumption DEF ServerTypeOK
<1>5. \A t \in Ids : /\ tokens'[t] \in Token \cup {Nobody}
                     /\ tokens[t] = Nobody <=> tokens'[t] = Nobody
                     /\ tokens[t] # Nobody =>
                          /\ tokens'[t].user = tokens[t].user /\ tokens'[t].of = tokens[t].of
                          /\ tokens'[t].expired = tokens[t].expired
                          /\ tokens[t].revoked \/ t \in of => tokens'[t].revoked
                     /\ t \notin of => tokens'[t] = tokens[t]
  BY <1>1, <1>2, <1>4
<1> QED BY <1>3, <1>5

\* A change of an account: an owner who is active stays so, but for the one that is changed.
LEMMA Committed ==
  ASSUME ServerTypeOK, NEW g \in updates, CommitUpdate(g)
  PROVE  /\ staff' \in [Staff -> Person]
         /\ \A u \in Staff \ {g.user} : staff'[u] = staff[u]
         /\ \A u \in Staff : staff'[u].deleted => staff[u].deleted \/ (g.what = "remove" /\ g.user = u)
         /\ g.what = "activate" => ActiveOwners \subseteq ActiveOwners'
         /\ ActiveOwners \ {g.user} \subseteq ActiveOwners'
<1> DEFINE u == g.user
<1>1. u \in Staff /\ g.what \in Changes /\ staff[u] \in Person
  BY DEF ServerTypeOK
<1>2. PICK x : /\ staff' = [staff EXCEPT ![u] = x]
               /\ g.what = "demote" => x = [staff[u] EXCEPT !.role = "manager"]
               /\ g.what = "activate" => x = [staff[u] EXCEPT !.active = TRUE]
               /\ g.what = "deactivate" => x = [staff[u] EXCEPT !.active = FALSE]
               /\ g.what = "remove" => x = [staff[u] EXCEPT !.active = FALSE, !.deleted = TRUE]
  BY DEF CommitUpdate, ServerTypeOK
<1>3. x \in Person /\ (x.deleted => staff[u].deleted \/ g.what = "remove")
      /\ (g.what = "activate" => x.role = staff[u].role /\ x.active /\ x.deleted = staff[u].deleted)
  BY <1>1, <1>2 DEF Changes, Person
<1>4. staff' \in [Staff -> Person] /\ staff'[u] = x /\ \A v \in Staff \ {u} : staff'[v] = staff[v]
  BY <1>1, <1>2, <1>3 DEF ServerTypeOK
<1> QED BY <1>1, <1>3, <1>4 DEF ActiveOwners, Usable

\* An account pushed by a till keeps whether it is deleted, and the others as they are.
LEMMA Pushed ==
  ASSUME ServerTypeOK, NEW u \in Staff, NEW to \in Person, PushAccount(u, to)
  PROVE  /\ staff' \in [Staff -> Person] /\ staff'[u] = to
         /\ \A v \in Staff : staff'[v].deleted = staff[v].deleted
         /\ \A v \in Staff \ {u} : staff'[v] = staff[v]
<1>1. /\ staff' = [staff EXCEPT ![u] = to]
      /\ to = [staff[u] EXCEPT !.role = to.role] \/ to = [staff[u] EXCEPT !.active = to.active]
  BY DEF PushAccount
<1>2. to.deleted = staff[u].deleted
  BY <1>1 DEF ServerTypeOK, Person
<1> QED BY <1>1, <1>2 DEF ServerTypeOK

LEMMA TokenSteps ==
  ASSUME ServerTypeOK, TokenInv, [ServerNext]_serverVars
  PROVE  TokenInv' /\ ServerTypeOK'
<1> USE DEF TokenInv
<1>0. /\ held.refresh \in Ids /\ LastToken \in Nat /\ MaxTokens \in Nat /\ Holder \in Staff
      /\ \A c \in Callers : calls[c] # Nobody => calls[c] \in Call /\ calls[c].sent \in Ids
      /\ \A t \in Ids : tokens[t] # Nobody => tokens[t] \in Token
  BY ServerSessionsAssumption DEF ServerTypeOK, NumberInv, Ids, Call
<1>1. CASE AccessExpires
  <2>1. /\ held' = [held EXCEPT !.fresh = FALSE]
        /\ UNCHANGED <<tokens, staff, calls, entry, updates, late, raced, taken, cut>>
    BY <1>1 DEF AccessExpires
  <2>2. held' \in [refresh : Ids, fresh : BOOLEAN] /\ held'.refresh = held.refresh
    BY <2>1 DEF ServerTypeOK
  <2>3. ServerTypeOK'
    BY <2>1, <2>2 DEF ServerTypeOK
  <2>4. NumberInv' /\ UseInv'
    BY <2>1, <2>2, NumbersKeep
  <2>5. LiveInv' /\ OutInv'
    BY <2>1, <2>2 DEF LiveInv, OutInv, At, Accepted, Renewing
  <2> QED BY <2>3, <2>4, <2>5
<1>2. ASSUME NEW t \in Ids, Expire(t)
      PROVE  TokenInv' /\ ServerTypeOK'
  <2>1. /\ tokens[t] # Nobody /\ \A c \in Callers : At(c, "answer") => calls[c].new # t
        /\ tokens' = [tokens EXCEPT ![t].expired = TRUE]
        /\ cut' = (cut \/ (t = held.refresh /\ ~Renewing))
        /\ UNCHANGED <<staff, held, calls, entry, updates, late, raced, taken>>
    BY <1>2 DEF Expire
  <2>2. tokens[t] \in Token
    BY <1>0, <2>1
  <2> DEFINE old == [tokens[t] EXCEPT !.expired = TRUE]
  <2>3. old \in Token /\ old.user = tokens[t].user /\ old.of = tokens[t].of
        /\ old.revoked = tokens[t].revoked
    BY <2>2 DEF Token
  <2>4. tokens' = [tokens EXCEPT ![t] = old]
    BY <2>1 DEF ServerTypeOK
  <2> HIDE DEF old
  <2>5. /\ tokens' \in [Ids -> Token \cup {Nobody}] /\ tokens'[t] = old /\ old # Nobody
        /\ \A i \in Ids : i # t => tokens'[i] = tokens[i]
    BY <2>3, <2>4, ServerSessionsAssumption DEF ServerTypeOK
  <2>6. ServerTypeOK'
    BY <2>1, <2>5 DEF ServerTypeOK
  <2>7. NumberInv' /\ UseInv'
    BY <2>1, <2>3, <2>5, NumbersKeep
  <2>8. LiveInv'
    <3>1. \A c \in Callers : At(c, "answer") => calls[c].new \in Ids
      BY DEF UseInv, At
    <3>2. Renewing' = Renewing
      BY <2>1 DEF Renewing
    <3> QED BY <1>0, <2>1, <2>5, <3>1, <3>2 DEF LiveInv, At, Accepted
  <2>9. OutInv'
    <3>1. \A i \in Ids : tokens'[i] # Nobody =>
            tokens[i] # Nobody /\ tokens'[i].user = tokens[i].user /\ tokens'[i].revoked = tokens[i].revoked
      BY <2>1, <2>3, <2>5
    <3> QED BY <2>1, <3>1 DEF OutInv, At
  <2> QED BY <2>6, <2>7, <2>8, <2>9
<1>3. ASSUME NEW c \in Callers, AskRefresh(c)
      PROVE  TokenInv' /\ ServerTypeOK'
  <2> DEFINE new == [sent |-> held.refresh, at |-> "find", new |-> 0]
  <2>1. /\ calls[c] = Nobody /\ calls' = [calls EXCEPT ![c] = new] /\ Room
        /\ entry # Nobody => entry.of = "office"
        /\ UNCHANGED <<tokens, staff, held, entry, updates, late, raced, taken, cut>>
    BY <1>3 DEF AskRefresh
  <2>2. new \in Call
    BY <1>0 DEF Call
  <2>3. new.sent = held.refresh /\ new.at = "find"
    OBVIOUS
  <2> HIDE DEF new
  <2>4. calls' \in [Callers -> Call \cup {Nobody}] /\ calls'[c] = new
        /\ \A d \in Callers \ {c} : calls'[d] = calls[d]
    BY <2>1, <2>2 DEF ServerTypeOK
  <2>5. ServerTypeOK'
    BY <2>1, <2>4 DEF ServerTypeOK
  <2>6. LastToken' = LastToken /\ Entering' = Entering /\ Entering \in Nat
    BY <2>1 DEF LastToken, Entering
  <2>7. NumberInv'
    <3> DEFINE Busy == {d \in Callers : calls[d] # Nobody}
    <3>1. IsFiniteSet(Busy) /\ c \notin Busy
      BY <2>1, ServerSessionsAssumption, FS_Subset
    <3>2. Cardinality(Busy \cup {c}) = Cardinality(Busy) + 1 /\ IsFiniteSet(Busy \cup {c})
      BY <3>1, FS_AddElement
    <3>3. Waiting' \subseteq Busy \cup {c}
      BY <2>4 DEF Waiting
    <3>4. Cardinality(Waiting') <= Cardinality(Busy) + 1 /\ Cardinality(Busy) \in Nat
          /\ Cardinality(Waiting') \in Nat
      BY <3>1, <3>2, <3>3, FS_Subset, FS_CardinalityType
    <3>5. LastToken' + Cardinality(Waiting') + Entering' <= MaxTokens
      <4> HIDE DEF Busy
      <4>1. LastToken + Cardinality(Busy) + Entering < MaxTokens
        BY <2>1 DEF Busy, Room, Entering
      <4> QED BY <1>0, <2>6, <3>4, <4>1
    <3> QED BY <2>1, <2>6, <3>5 DEF NumberInv
  <2>8. UseInv'
    <3>1. TillRow(tokens'[held.refresh]) /\ held' = held
      BY <2>1 DEF UseInv, TillRow
    <3>2. \A d \in Callers : At(d, "answer")' => d # c /\ At(d, "answer") /\ calls'[d] = calls[d]
      BY <2>3, <2>4 DEF At
    <3>3. \A d \in Callers : At(d, "answer") => calls[d].new # held.refresh
      BY DEF UseInv, At
    <3> QED BY <2>1, <2>2, <2>3, <2>4, <3>1, <3>2, <3>3, ServerSessionsAssumption
            DEF UseInv, At, TillRow
  <2>9. LiveInv'
    <3>1. Renewing => Renewing'
      BY <2>1, <2>4 DEF Renewing
    <3> QED BY <2>1, <2>3, <2>4, <3>1 DEF LiveInv, At, Accepted
  <2>10. OutInv'
    BY <2>1, <2>3, <2>4 DEF OutInv, At
  <2> QED BY <2>5, <2>7, <2>8, <2>9, <2>10
<1>4. ASSUME NEW c \in Callers, StoreTokens(c)
      PROVE  TokenInv' /\ ServerTypeOK'
  <2>1. /\ calls[c] # Nobody /\ calls[c].at = "answer" /\ Hang(c)
        /\ held' = [refresh |-> calls[c].new, fresh |-> TRUE]
        /\ UNCHANGED <<tokens, staff, entry, updates, late, raced, taken, cut>>
    BY <1>4 DEF StoreTokens, At, Stored
  <2>2. /\ calls' \in [Callers -> Call \cup {Nobody}] /\ calls'[c] = Nobody
        /\ \A d \in Callers \ {c} : calls'[d] = calls[d]
    BY <2>1, Hangs
  <2>3. calls[c].new \in Ids /\ TillRow(tokens[calls[c].new])
    BY <2>1 DEF UseInv
  <2>4. held' \in [refresh : Ids, fresh : BOOLEAN] /\ held'.refresh = calls[c].new
    BY <2>1, <2>3
  <2>5. ServerTypeOK'
    BY <2>1, <2>2, <2>4 DEF ServerTypeOK
  <2>6. NumberInv'
    <3>1. Waiting' = Waiting
      BY <2>1, <2>2 DEF Waiting
    <3>2. LastToken' = LastToken /\ Entering' = Entering
      BY <2>1 DEF LastToken, Entering
    <3> QED BY <2>1, <3>1, <3>2 DEF NumberInv
  <2>7. UseInv'
    BY <2>1, <2>2, <2>3, <2>4 DEF UseInv, At, TillRow
  <2>8. LiveInv' /\ OutInv'
    BY <2>1, <2>2, <2>4 DEF LiveInv, OutInv, At, Accepted
  <2> QED BY <2>5, <2>6, <2>7, <2>8
<1>5. ASSUME NEW c \in Callers, Lose(c)
      PROVE  TokenInv' /\ ServerTypeOK'
  <2>1. Hang(c) /\ cut' = TRUE /\ UNCHANGED <<tokens, staff, held, entry, updates, late, raced, taken>>
    BY <1>5 DEF Lose
  <2> QED BY <2>1, HangKeeps DEF ServerTypeOK
<1>6. ASSUME NEW c \in Callers, StopStoring(c)
      PROVE  TokenInv' /\ ServerTypeOK'
  <2>1. /\ held' = [held EXCEPT !.fresh = TRUE] /\ calls' = [d \in Callers |-> Nobody] /\ cut' = TRUE
        /\ UNCHANGED <<tokens, staff, entry, updates, late, raced, taken>>
    BY <1>6 DEF StopStoring
  <2>2. held' \in [refresh : Ids, fresh : BOOLEAN] /\ held'.refresh = held.refresh
    BY <2>1 DEF ServerTypeOK
  <2>3. ServerTypeOK'
    BY <2>1, <2>2 DEF ServerTypeOK
  <2>4. NumberInv' /\ UseInv'
    BY <2>1, <2>2, NumbersKeep
  <2>5. LiveInv' /\ OutInv'
    BY <2>1, <2>2 DEF LiveInv, OutInv, At
  <2> QED BY <2>3, <2>4, <2>5
<1>7. ASSUME NEW c \in Callers, FindToken(c)
      PROVE  TokenInv' /\ ServerTypeOK'
  <2>1. /\ calls[c] # Nobody /\ calls[c].at = "find" /\ (Hang(c) \/ GoTo(c, "revoke"))
        /\ UNCHANGED <<tokens, staff, held, entry, updates, late, raced, taken, cut>>
    BY <1>7 DEF FindToken, At
  <2>2. CASE Hang(c)
    BY <2>1, <2>2, HangKeeps DEF ServerTypeOK
  <2>3. CASE GoTo(c, "revoke")
    <3>1. /\ NumberInv' /\ UseInv' /\ calls' \in [Callers -> Call \cup {Nobody}]
          /\ calls'[c] # Nobody /\ calls'[c].at = "revoke"
          /\ \A d \in Callers \ {c} : calls'[d] = calls[d]
      BY <2>1, <2>3, GoesOnKeeps
    <3>2. ServerTypeOK'
      BY <2>1, <3>1 DEF ServerTypeOK
    <3>3. LiveInv' /\ OutInv'
      BY <2>1, <3>1 DEF LiveInv, OutInv, At, Accepted, Renewing
    <3> QED BY <3>1, <3>2, <3>3
  <2> QED BY <2>1, <2>2, <2>3
<1>8. ASSUME NEW c \in Callers, RevokeToken(c)
      PROVE  TokenInv' /\ ServerTypeOK'
  <2>1. /\ calls[c] # Nobody /\ calls[c].at = "revoke" /\ GoTo(c, "user")
        /\ tokens' = Revoked({calls[c].sent})
        /\ UNCHANGED <<staff, held, entry, updates, late, raced, taken, cut>>
    BY <1>8 DEF RevokeToken, At
  <2>2. /\ calls' \in [Callers -> Call \cup {Nobody}] /\ calls'[c] # Nobody
        /\ calls'[c].at = "user" /\ calls'[c].sent = calls[c].sent /\ calls'[c].new = calls[c].new
        /\ \A d \in Callers \ {c} : calls'[d] = calls[d]
    BY <2>1, GoesOn
  <2>3. /\ tokens' \in [Ids -> Token \cup {Nobody}]
        /\ \A t \in Ids : /\ tokens[t] = Nobody <=> tokens'[t] = Nobody
                          /\ tokens[t] # Nobody =>
                               /\ tokens'[t].user = tokens[t].user /\ tokens'[t].of = tokens[t].of
                               /\ tokens[t].revoked => tokens'[t].revoked
                          /\ t # calls[c].sent => tokens'[t] = tokens[t]
    <3> DEFINE of == {calls[c].sent}
    <3>1. tokens' = Revoked(of)
      BY <2>1
    <3>2. \A t : t # calls[c].sent => t \notin of
      OBVIOUS
    <3> HIDE DEF of
    <3> QED BY <3>1, <3>2, RevokedKeeps
  <2>4. ServerTypeOK'
    BY <2>1, <2>2, <2>3 DEF ServerTypeOK
  <2>5. NumberInv' /\ UseInv'
    BY <2>1, <2>2, <2>3, NumbersKeep
  <2>6. LiveInv'
    <3>1. ASSUME NEW d \in Callers, At(d, "answer")'
          PROVE  /\ At(d, "answer") /\ calls'[d] = calls[d]
                 /\ tokens'[calls[d].new] = tokens[calls[d].new]
      <4>1. d # c /\ At(d, "answer") /\ calls'[d] = calls[d]
        BY <2>2, <3>1 DEF At
      <4>2. calls[d].new \in Ids /\ calls[c].sent # calls[d].new
        BY <2>1, <4>1 DEF UseInv, At
      <4> QED BY <2>3, <4>1, <4>2
    <3>2. Renewing'
      BY <2>2 DEF Renewing
    <3> QED BY <2>1, <3>1, <3>2 DEF LiveInv, At, Accepted
  <2>7. OutInv'
    <3>1. \A d \in Callers : At(d, "issue")' => At(d, "issue")
      BY <2>2 DEF At
    <3>2. \A t \in Ids : tokens'[t] # Nobody =>
            /\ tokens[t] # Nobody /\ tokens'[t].user = tokens[t].user
            /\ tokens[t].revoked => tokens'[t].revoked
      BY <2>3
    <3>3. OutInv /\ staff' = staff /\ late' = late /\ entry' = entry
      BY <2>1
    <3> HIDE DEF TokenInv
    <3> QED BY <3>1, <3>2, <3>3 DEF OutInv
  <2> QED BY <2>4, <2>5, <2>6, <2>7
<1>9. ASSUME NEW c \in Callers, FindUser(c)
      PROVE  TokenInv' /\ ServerTypeOK'
  <2>1. /\ calls[c] # Nobody /\ calls[c].at = "user"
        /\ UNCHANGED <<tokens, staff, held, entry, updates, late, raced, taken>>
        /\ \/ GoTo(c, "issue") /\ cut' = cut /\ MayRefresh(tokens[calls[c].sent].user)
           \/ Hang(c) /\ cut' = TRUE
    BY <1>9 DEF FindUser, At
  <2>2. CASE Hang(c) /\ cut' = TRUE
    BY <2>1, <2>2, HangKeeps DEF ServerTypeOK
  <2>3. CASE GoTo(c, "issue") /\ cut' = cut /\ MayRefresh(tokens[calls[c].sent].user)
    <3>1. /\ NumberInv' /\ UseInv' /\ calls' \in [Callers -> Call \cup {Nobody}]
          /\ calls'[c] # Nobody /\ calls'[c].at = "issue"
          /\ \A d \in Callers \ {c} : calls'[d] = calls[d]
      BY <2>1, <2>3, GoesOnKeeps
    <3>2. ServerTypeOK'
      BY <2>1, <2>3, <3>1 DEF ServerTypeOK
    <3>3. LiveInv'
      BY <2>1, <2>3, <3>1 DEF LiveInv, At, Accepted, Renewing
    <3>4. ~staff[Holder].deleted
      BY <2>1, <2>3 DEF UseInv, TillRow, MayRefresh, Usable
    <3>5. OutInv'
      BY <2>1, <3>1, <3>4 DEF OutInv, At
    <3> QED BY <3>1, <3>2, <3>3, <3>5
  <2> QED BY <2>1, <2>2, <2>3
<1>10. ASSUME NEW c \in Callers, IssueToken(c)
      PROVE  TokenInv' /\ ServerTypeOK'
  <2>1. /\ calls[c] # Nobody /\ calls[c].at = "issue"
        /\ tokens' = Issue(tokens[calls[c].sent].user, tokens[calls[c].sent].of)
        /\ calls' = [calls EXCEPT ![c].at = "answer", ![c].new = LastToken + 1]
        /\ UNCHANGED <<staff, held, entry, updates, late, raced, taken, cut>>
    BY <1>10 DEF IssueToken, At
  <2>2. calls[c] \in Call /\ calls[c].sent \in Ids /\ TillRow(tokens[calls[c].sent])
    BY <1>0, <2>1 DEF UseInv
  <2>3. tokens' = Issue(Holder, "till") /\ "till" \in Uses
    BY <2>1, <2>2 DEF TillRow, Uses
  <2>4. IsFiniteSet(Waiting) /\ c \in Waiting
    BY <2>1, FS_Subset, ServerSessionsAssumption DEF Waiting
  <2>5. /\ Cardinality(Waiting \ {c}) = Cardinality(Waiting) - 1
        /\ Cardinality(Waiting \ {c}) \in Nat /\ Cardinality(Waiting) \in Nat
    BY <2>4, FS_RemoveElement, FS_CardinalityType
  <2>6. LastToken < MaxTokens /\ Entering \in Nat /\ Entering' = Entering
    BY <1>0, <2>1, <2>5 DEF NumberInv, Entering
  <2>7. /\ LastToken' = LastToken + 1 /\ LastToken + 1 \in Ids
        /\ tokens' \in [Ids -> Token \cup {Nobody}]
        /\ {t \in Ids : tokens'[t] # Nobody} = 1..LastToken'
        /\ tokens[LastToken + 1] = Nobody /\ tokens'[LastToken + 1] # Nobody
        /\ tokens'[LastToken + 1].user = Holder /\ tokens'[LastToken + 1].of = "till"
        /\ ~tokens'[LastToken + 1].revoked /\ ~tokens'[LastToken + 1].expired
        /\ \A t \in Ids : t # LastToken + 1 => tokens'[t] = tokens[t]
    BY <1>0, <2>3, <2>6, Issued
  <2> DEFINE new == [calls[c] EXCEPT !.at = "answer", !.new = LastToken + 1]
  <2>8. new \in Call /\ new.sent = calls[c].sent /\ new.at = "answer" /\ new.new = LastToken + 1
    <3>1. LastToken + 1 \in 0..MaxTokens
      BY <1>0, <2>6
    <3> QED BY <2>2, <3>1 DEF Call
  <2>9. calls' = [calls EXCEPT ![c] = new]
    BY <2>1 DEF ServerTypeOK
  <2> HIDE DEF new
  <2>10. /\ calls' \in [Callers -> Call \cup {Nobody}] /\ calls'[c] = new /\ new # Nobody
         /\ \A d \in Callers \ {c} : calls'[d] = calls[d]
    BY <2>8, <2>9, ServerSessionsAssumption DEF ServerTypeOK
  <2>11. ServerTypeOK'
    BY <2>1, <2>7, <2>10 DEF ServerTypeOK
  <2>12. Waiting' = Waiting \ {c}
    BY <2>8, <2>10 DEF Waiting
  <2>13. NumberInv'
    BY <1>0, <2>5, <2>6, <2>7, <2>12 DEF NumberInv
  <2> DEFINE n == LastToken + 1
  <2>14. /\ n \in Ids /\ \A t \in Ids : TillRow(tokens[t]) => t # n /\ TillRow(tokens'[t]) /\ tokens'[t] = tokens[t]
         /\ TillRow(tokens'[n]) /\ ~tokens'[n].revoked /\ ~tokens'[n].expired /\ new.new = n
    BY <2>7, <2>8 DEF TillRow
  <2> HIDE DEF n
  <2>15. UseInv'
    <3>1. held' = held /\ TillRow(tokens'[held.refresh]) /\ held.refresh # n
      BY <1>0, <2>1, <2>14 DEF UseInv, TillRow
    <3>2. ASSUME NEW d \in Callers, calls'[d] # Nobody
          PROVE  /\ calls[d] # Nobody /\ calls'[d].sent = calls[d].sent /\ calls[d].sent # n
                 /\ TillRow(tokens'[calls[d].sent])
      <4>1. calls[d] # Nobody /\ calls'[d].sent = calls[d].sent
        BY <2>1, <2>8, <2>10, <3>2
      <4>2. calls[d].sent \in Ids /\ TillRow(tokens[calls[d].sent])
        BY <1>0, <4>1 DEF UseInv
      <4> QED BY <2>14, <4>1, <4>2 DEF TillRow
    <3>3. ASSUME NEW d \in Callers, At(d, "answer")'
          PROVE  \/ d = c /\ calls'[d].new = n
                 \/ /\ d # c /\ At(d, "answer") /\ calls'[d].new = calls[d].new /\ calls[d].new # n
                    /\ calls[d].new \in Ids /\ TillRow(tokens'[calls[d].new])
      <4>1. CASE d = c
        BY <2>10, <2>14, <4>1
      <4>2. CASE d # c
        <5>1. At(d, "answer") /\ calls'[d].new = calls[d].new
          BY <2>10, <3>3, <4>2 DEF At
        <5>2. calls[d].new \in Ids /\ TillRow(tokens[calls[d].new])
          BY <5>1 DEF UseInv, At
        <5> QED BY <2>14, <4>2, <5>1, <5>2 DEF TillRow
      <4> QED BY <4>1, <4>2
    <3>4. ASSUME NEW d \in Callers, At(d, "answer")'
          PROVE  /\ calls'[d].new \in Ids /\ TillRow(tokens'[calls'[d].new]) /\ calls'[d].new # held'.refresh
                 /\ \A e \in Callers : calls'[e] # Nobody => calls'[e].sent # calls'[d].new
                 /\ \A e \in Callers \ {d} : At(e, "answer")' => calls'[e].new # calls'[d].new
      <4>1. CASE d = c
        BY <2>14, <3>1, <3>2, <3>3, <3>4, <4>1 DEF TillRow
      <4>2. CASE d # c
        <5>1. /\ At(d, "answer") /\ calls'[d].new = calls[d].new /\ calls[d].new # n
              /\ calls[d].new \in Ids /\ TillRow(tokens'[calls[d].new])
          BY <3>3, <3>4, <4>2
        <5>2. \A e \in Callers : calls[e] # Nobody => calls[e].sent # calls[d].new
          BY <5>1 DEF UseInv, At
        <5>3. \A e \in Callers \ {d} : At(e, "answer") => calls[e].new # calls[d].new
          BY <5>1 DEF UseInv, At
        <5>4. calls[d].new # held.refresh
          BY <5>1 DEF UseInv, At
        <5> QED BY <3>1, <3>2, <3>3, <5>1, <5>2, <5>3, <5>4 DEF TillRow
      <4> QED BY <4>1, <4>2
    <3>5. entry' = entry /\ (entry # Nobody /\ entry.of = "till" => FALSE)
      BY <2>1 DEF UseInv
    <3>6. \A d \in Callers : calls'[d] # Nobody => TillRow(tokens'[calls'[d].sent])
      BY <3>2 DEF TillRow
    <3>7. \A d \in Callers : calls'[d] # Nobody /\ calls'[d].at = "answer" => At(d, "answer")'
      BY DEF At
    <3> QED BY <3>1, <3>4, <3>5, <3>6, <3>7 DEF UseInv
  <2>16. LiveInv'
    <3>1. held' = held /\ tokens'[held.refresh] = tokens[held.refresh]
      BY <1>0, <2>1, <2>14 DEF UseInv
    <3>2. Renewing'
      BY <2>8, <2>10 DEF Renewing
    <3>3. ASSUME NEW d \in Callers, At(d, "answer")', ~cut
          PROVE  ~tokens'[calls'[d].new].revoked /\ ~tokens'[calls'[d].new].expired
      <4>1. CASE d = c
        BY <2>10, <2>14, <4>1
      <4>2. CASE d # c
        <5>1. At(d, "answer") /\ calls'[d] = calls[d]
          BY <2>10, <3>3, <4>2 DEF At
        <5>2. calls[d].new \in Ids /\ TillRow(tokens[calls[d].new])
          BY <5>1 DEF UseInv, At
        <5>3. Accepted(tokens[calls[d].new])
          BY <3>3, <5>1 DEF LiveInv
        <5> QED BY <2>14, <5>1, <5>2, <5>3 DEF Accepted
      <4> QED BY <4>1, <4>2
    <3> QED BY <2>1, <3>2, <3>3 DEF LiveInv, Accepted
  <2>17. OutInv'
    <3>1. At(c, "issue") /\ staff' = staff /\ late' = late /\ entry' = entry
      BY <2>1 DEF At
    <3>2. \A d \in Callers : At(d, "issue")' => At(d, "issue")
      BY <2>8, <2>10 DEF At
    <3>3. \A t \in Ids : tokens'[t] # Nobody => t = LastToken + 1 \/ tokens'[t] = tokens[t]
      BY <2>7
    <3> QED BY <1>0, <2>7, <3>1, <3>2, <3>3 DEF OutInv
  <2> QED BY <2>11, <2>13, <2>15, <2>16, <2>17
<1>11. ASSUME NEW u \in Staff, NEW what \in Changes, CheckUpdate(u, what)
      PROVE  TokenInv' /\ ServerTypeOK'
  <2>1. /\ updates' = updates \cup {[user |-> u, what |-> what]} /\ raced' = (raced \/ updates # {})
        /\ UNCHANGED <<tokens, staff, held, calls, entry, late, taken, cut>>
    BY <1>11 DEF CheckUpdate
  <2>2. ServerTypeOK'
    BY <2>1 DEF ServerTypeOK
  <2>3. NumberInv' /\ UseInv'
    BY <2>1, NumbersKeep
  <2>4. LiveInv' /\ OutInv'
    BY <2>1 DEF LiveInv, OutInv, At, Accepted, Renewing
  <2> QED BY <2>2, <2>3, <2>4
<1>12. ASSUME NEW g \in updates, CommitUpdate(g)
      PROVE  TokenInv' /\ ServerTypeOK'
  <2>1. /\ updates' = updates \ {g} /\ UNCHANGED <<held, calls, entry, raced, taken>>
        /\ cut' = (cut \/ (g.what = "remove" /\ g.user = Holder))
        /\ late' = IF /\ g.what = "remove"
                      /\ Past(g.user) # {} \/ (entry # Nobody /\ entry.user = g.user)
                   THEN late \cup {g.user} ELSE late
        /\ tokens' = IF g.what # "remove" THEN tokens
                     ELSE Revoked({t \in Ids : tokens[t] # Nobody /\ tokens[t].user = g.user})
    BY <1>12 DEF CommitUpdate
  <2>2. /\ g.user \in Staff /\ g.what \in Changes
    BY DEF ServerTypeOK
  <2>3. /\ staff' \in [Staff -> Person]
        /\ \A u \in Staff : staff'[u].deleted => staff[u].deleted \/ (g.what = "remove" /\ g.user = u)
    BY <1>12, <2>2, Committed
  <2>4. /\ tokens' \in [Ids -> Token \cup {Nobody}]
        /\ \A t \in Ids :
             /\ tokens[t] = Nobody <=> tokens'[t] = Nobody
             /\ tokens[t] # Nobody => /\ tokens'[t].user = tokens[t].user /\ tokens'[t].of = tokens[t].of
                                      /\ tokens[t].revoked => tokens'[t].revoked
                                      /\ g.what = "remove" /\ tokens[t].user = g.user => tokens'[t].revoked
                                      /\ ~(g.what = "remove" /\ tokens[t].user = g.user) => tokens'[t] = tokens[t]
    <3>1. CASE g.what # "remove"
      BY <2>1, <3>1 DEF ServerTypeOK
    <3>2. CASE g.what = "remove"
      <4> DEFINE of == {t \in Ids : tokens[t] # Nobody /\ tokens[t].user = g.user}
      <4>1. tokens' = Revoked(of)
        BY <2>1, <3>2
      <4>2. \A t \in Ids : t \in of <=> tokens[t] # Nobody /\ tokens[t].user = g.user
        OBVIOUS
      <4> HIDE DEF of
      <4> QED BY <3>2, <4>1, <4>2, RevokedKeeps
    <3> QED BY <3>1, <3>2
  <2>5. ServerTypeOK'
    BY <2>1, <2>3, <2>4 DEF ServerTypeOK
  <2>6. NumberInv' /\ UseInv'
    BY <2>1, <2>4, NumbersKeep
  <2>7. LiveInv'
    <3>1. \A d \in Callers : At(d, "answer") => calls[d].new \in Ids /\ TillRow(tokens[calls[d].new])
      BY DEF UseInv, At
    <3>2. TillRow(tokens[held.refresh]) /\ Renewing' = Renewing
      BY <2>1 DEF UseInv, Renewing
    <3>3. ~cut' => ~cut /\ \A t \in Ids : TillRow(tokens[t]) => tokens'[t] = tokens[t]
      BY <2>1, <2>4 DEF TillRow
    <3> QED BY <1>0, <2>1, <3>1, <3>2, <3>3 DEF LiveInv, At, Accepted
  <2>8. OutInv'
    <3> SUFFICES ASSUME NEW u \in Staff, staff'[u].deleted, u \notin late'
                 PROVE  /\ \A t \in Ids : tokens'[t] # Nobody /\ tokens'[t].user = u => tokens'[t].revoked
                        /\ u = Holder => \A c \in Callers : ~At(c, "issue")'
                        /\ entry' # Nobody => entry'.user # u
      BY DEF OutInv
    <3>1. CASE g.what = "remove" /\ g.user = u
      <4>1. Past(u) = {} /\ ~(entry # Nobody /\ entry.user = u)
        BY <2>1, <3>1
      <4>2. ASSUME NEW c \in Callers, At(c, "issue"), u = Holder PROVE FALSE
        <5>1. tokens[calls[c].sent].user = Holder
          BY <4>2 DEF UseInv, At, TillRow
        <5>2. c \in Past(u)
          BY <4>2, <5>1 DEF Past, At
        <5> QED BY <4>1, <5>2
      <4> QED BY <2>1, <2>4, <3>1, <4>1, <4>2 DEF At
    <3>2. CASE ~(g.what = "remove" /\ g.user = u)
      <4>1. staff[u].deleted /\ u \notin late
        BY <2>1, <2>3, <3>2
      <4> QED BY <2>1, <2>4, <4>1 DEF OutInv, At
    <3> QED BY <3>1, <3>2
  <2> QED BY <2>5, <2>6, <2>7, <2>8
<1>13. CASE UNCHANGED serverVars
  <2>1. UNCHANGED <<tokens, staff, held, calls, entry, updates, late, raced, taken, cut>>
    BY <1>13 DEF serverVars
  <2>2. NumberInv' /\ UseInv'
    BY <2>1, NumbersKeep
  <2> QED BY <2>1, <2>2 DEF ServerTypeOK, LiveInv, OutInv, At, Accepted, Renewing
<1>14. ASSUME NEW u \in Staff, NEW of \in Uses, SignIn(u, of)
       PROVE  TokenInv' /\ ServerTypeOK'
  <2> DEFINE new == [user |-> u, of |-> of]
  <2>1. /\ entry = Nobody /\ Usable(u) /\ Room /\ entry' = new
        /\ of = "till" => u = Holder /\ \A c \in Callers : calls[c] = Nobody
        /\ UNCHANGED <<tokens, staff, held, calls, updates, late, raced, taken, cut>>
    BY <1>14 DEF SignIn
  <2>2. new \in Entry /\ new.user = u /\ new.of = of
    BY DEF Entry
  <2> HIDE DEF new
  <2>3. ServerTypeOK'
    BY <2>1, <2>2 DEF ServerTypeOK
  <2>4. NumberInv'
    <3>1. LastToken' = LastToken /\ Waiting' = Waiting /\ Entering = 0 /\ Entering' \in 0..1
      BY <2>1 DEF LastToken, Waiting, Entering
    <3> DEFINE Busy == {d \in Callers : calls[d] # Nobody}
    <3>2. IsFiniteSet(Busy) /\ Waiting \subseteq Busy
      BY ServerSessionsAssumption, FS_Subset DEF Waiting
    <3>3. /\ Cardinality(Waiting) <= Cardinality(Busy)
          /\ Cardinality(Busy) \in Nat /\ Cardinality(Waiting) \in Nat
      BY <3>2, FS_Subset, FS_CardinalityType
    <3>4. LastToken + Cardinality(Busy) + 0 < MaxTokens
      BY <2>1 DEF Room
    <3> HIDE DEF Busy
    <3>5. LastToken' + Cardinality(Waiting') + Entering' <= MaxTokens
      BY <1>0, <3>1, <3>3, <3>4
    <3> QED BY <2>1, <3>1, <3>5 DEF NumberInv
  <2>5. UseInv'
    BY <2>1, <2>2 DEF UseInv, At, TillRow
  <2>6. LiveInv'
    BY <2>1 DEF LiveInv, At, Accepted, Renewing
  <2>7. OutInv'
    BY <2>1, <2>2 DEF OutInv, At, Usable
  <2> QED BY <2>3, <2>4, <2>5, <2>6, <2>7
<1>15. CASE OpenSession
  <2>1. /\ entry # Nobody /\ entry' = Nobody /\ tokens' = Issue(entry.user, entry.of)
        /\ UNCHANGED <<staff, calls, updates, late, raced, taken>>
        /\ entry.of = "till" => held' = [refresh |-> LastToken + 1, fresh |-> TRUE] /\ cut' = FALSE
        /\ entry.of # "till" => held' = held /\ cut' = cut
    BY <1>15 DEF OpenSession
  <2>2. entry \in Entry /\ entry.user \in Staff /\ entry.of \in Uses
    BY <2>1 DEF ServerTypeOK, Entry
  <2>3. IsFiniteSet(Waiting) /\ Cardinality(Waiting) \in Nat
    BY FS_Subset, FS_CardinalityType, ServerSessionsAssumption DEF Waiting
  <2>4. LastToken < MaxTokens /\ Entering = 1 /\ Entering' = 0
    BY <1>0, <2>1, <2>3 DEF NumberInv, Entering
  <2>5. /\ LastToken' = LastToken + 1 /\ LastToken + 1 \in Ids
        /\ tokens' \in [Ids -> Token \cup {Nobody}]
        /\ {t \in Ids : tokens'[t] # Nobody} = 1..LastToken'
        /\ tokens[LastToken + 1] = Nobody /\ tokens'[LastToken + 1] # Nobody
        /\ tokens'[LastToken + 1].user = entry.user /\ tokens'[LastToken + 1].of = entry.of
        /\ ~tokens'[LastToken + 1].revoked /\ ~tokens'[LastToken + 1].expired
        /\ \A t \in Ids : t # LastToken + 1 => tokens'[t] = tokens[t]
    BY <1>0, <2>1, <2>2, <2>4, Issued
  <2>6. held' \in [refresh : Ids, fresh : BOOLEAN]
        /\ (entry.of = "till" => held'.refresh = LastToken + 1) /\ cut' \in BOOLEAN
    <3>1. CASE entry.of = "till"
      <4>1. held' = [refresh |-> LastToken + 1, fresh |-> TRUE] /\ cut' = FALSE
        BY <2>1, <3>1
      <4> QED BY <2>5, <4>1
    <3>2. CASE entry.of # "till"
      <4>1. held' = held /\ cut' = cut
        BY <2>1, <3>2
      <4> QED BY <3>2, <4>1 DEF ServerTypeOK
    <3> QED BY <3>1, <3>2
  <2>7. ServerTypeOK'
    BY <2>1, <2>5, <2>6 DEF ServerTypeOK
  <2>8. NumberInv'
    <3>1. Waiting' = Waiting
      BY <2>1 DEF Waiting
    <3> QED BY <1>0, <2>3, <2>4, <2>5, <3>1 DEF NumberInv
  <2> DEFINE n == LastToken + 1
  <2>9. \A t \in Ids : TillRow(tokens[t]) => t # n /\ TillRow(tokens'[t]) /\ tokens'[t] = tokens[t]
    BY <2>5 DEF TillRow
  <2>10. n \in Ids /\ TillRow(tokens'[n]) = (entry.user = Holder /\ entry.of = "till")
         /\ Accepted(tokens'[n]) /\ (entry.of = "till" => held'.refresh = n)
    BY <2>5, <2>6 DEF TillRow, Accepted
  <2> HIDE DEF n
  <2>11. UseInv' /\ LiveInv'
    <3>1. CASE entry.of = "till"
      <4>1. calls' = calls /\ entry' = Nobody /\ entry.user = Holder /\ \A c \in Callers : calls[c] = Nobody
        BY <2>1, <3>1 DEF UseInv
      <4>2. TillRow(tokens'[held'.refresh]) /\ Accepted(tokens'[held'.refresh])
        BY <2>10, <3>1, <4>1
      <4> QED BY <4>1, <4>2 DEF UseInv, LiveInv, At
    <3>2. CASE entry.of # "till"
      <4>1. held' = held /\ cut' = cut /\ calls' = calls /\ entry' = Nobody
        BY <2>1, <3>2
      <4>2. TillRow(tokens'[held.refresh]) /\ tokens'[held.refresh] = tokens[held.refresh]
        BY <1>0, <2>9 DEF UseInv
      <4>3. \A c \in Callers : calls[c] # Nobody =>
              /\ TillRow(tokens'[calls[c].sent])
              /\ calls[c].at = "answer" => /\ TillRow(tokens'[calls[c].new])
                                          /\ tokens'[calls[c].new] = tokens[calls[c].new]
        BY <1>0, <2>9 DEF UseInv
      <4>4. UseInv'
        BY <4>1, <4>2, <4>3 DEF UseInv, At
      <4>5. LiveInv'
        BY <4>1, <4>2, <4>3 DEF LiveInv, At, Renewing
      <4> QED BY <4>4, <4>5
    <3> QED BY <3>1, <3>2
  <2>12. OutInv'
    <3>1. \A t \in Ids : tokens'[t] # Nobody =>
            tokens'[t].user = entry.user \/ (tokens[t] # Nobody /\ tokens'[t] = tokens[t])
      BY <2>5
    <3> QED BY <2>1, <3>1 DEF OutInv, At
  <2> QED BY <2>7, <2>8, <2>11, <2>12
<1>16. ASSUME NEW u \in Staff, NEW of \in {{t} : t \in Ids} \cup {Ids}, Logout(u, of)
       PROVE  TokenInv' /\ ServerTypeOK'
  <2> DEFINE these == {t \in of : tokens[t] # Nobody /\ tokens[t].user = u}
  <2>1. /\ \/ \E t \in Ids : of = {t} /\ tokens[t].of = "office" /\ cut' = cut
           \/ cut' = (cut \/ u = Holder)
        /\ tokens' = Revoked(these)
        /\ UNCHANGED <<staff, held, calls, entry, updates, late, raced, taken>>
    BY <1>16 DEF Logout
  <2>2. \A t \in these : tokens[t] # Nobody /\ tokens[t].user = u
    OBVIOUS
  <2>3. ASSUME ~cut', NEW t \in Ids, TillRow(tokens[t]) PROVE t \notin these
    BY <2>1, <2>3 DEF TillRow
  <2> HIDE DEF these
  <2>4. /\ tokens' \in [Ids -> Token \cup {Nobody}]
        /\ \A t \in Ids : /\ tokens[t] = Nobody <=> tokens'[t] = Nobody
                          /\ tokens[t] # Nobody => /\ tokens'[t].user = tokens[t].user
                                                   /\ tokens'[t].of = tokens[t].of
                                                   /\ tokens[t].revoked => tokens'[t].revoked
                          /\ t \notin these => tokens'[t] = tokens[t]
    BY <2>1, RevokedKeeps
  <2>5. ServerTypeOK'
    BY <2>1, <2>4 DEF ServerTypeOK
  <2>6. NumberInv' /\ UseInv'
    BY <2>1, <2>4, NumbersKeep
  <2>7. LiveInv'
    <3>1. \A d \in Callers : At(d, "answer") => calls[d].new \in Ids /\ TillRow(tokens[calls[d].new])
      BY DEF UseInv, At
    <3>2. TillRow(tokens[held.refresh]) /\ Renewing' = Renewing
      BY <2>1 DEF UseInv, Renewing
    <3>3. ~cut' => ~cut /\ \A t \in Ids : TillRow(tokens[t]) => tokens'[t] = tokens[t]
      BY <2>1, <2>3, <2>4
    <3> QED BY <1>0, <2>1, <3>1, <3>2, <3>3 DEF LiveInv, At, Accepted
  <2>8. OutInv'
    BY <2>1, <2>4 DEF OutInv, At
  <2> QED BY <2>5, <2>6, <2>7, <2>8
<1>17. ASSUME NEW u \in Staff, NEW to \in Person, PushAccount(u, to)
       PROVE  TokenInv' /\ ServerTypeOK'
  <2>1. /\ raced' = (raced \/ (u \in ActiveOwners /\ updates # {}))
        /\ taken' = (taken \/ ActiveOwners = {u})
        /\ UNCHANGED <<tokens, held, calls, entry, updates, late, cut>>
    BY <1>17 DEF PushAccount
  <2>2. staff' \in [Staff -> Person] /\ \A v \in Staff : staff'[v].deleted = staff[v].deleted
    BY <1>17, Pushed
  <2>3. ServerTypeOK'
    <3>1. raced' \in BOOLEAN /\ taken' \in BOOLEAN
      BY <2>1
    <3> QED BY <2>1, <2>2, <3>1 DEF ServerTypeOK
  <2>4. NumberInv' /\ UseInv'
    BY <2>1, NumbersKeep
  <2>5. LiveInv' /\ OutInv'
    BY <2>1, <2>2 DEF LiveInv, OutInv, At, Accepted, Renewing
  <2> QED BY <2>3, <2>4, <2>5
<1> QED BY <1>1, <1>2, <1>3, <1>4, <1>5, <1>6, <1>7, <1>8, <1>9, <1>10, <1>11, <1>12, <1>13, <1>14,
           <1>15, <1>16, <1>17 DEF ServerNext, Changes

LEMMA OwnerSteps ==
  ASSUME ServerTypeOK, OwnerInv, [ServerNext]_serverVars
  PROVE  OwnerInv'
<1>1. CASE UNCHANGED <<staff, updates, raced, taken>>
  BY <1>1 DEF OwnerInv, ActiveOwners, Usable
<1>2. ASSUME NEW u \in Staff, NEW what \in Changes, CheckUpdate(u, what)
      PROVE  OwnerInv'
  <2> DEFINE g == [user |-> u, what |-> what]
  <2>1. /\ updates' = updates \cup {g} /\ raced' = (raced \/ updates # {}) /\ staff' = staff /\ taken' = taken
        /\ what # "activate" => OwnerMayChange(u)
    BY <1>2 DEF CheckUpdate, Changes
  <2>2. ActiveOwners' = ActiveOwners
    BY <2>1 DEF ActiveOwners, Usable
  <2>3. ASSUME ~raced', ~taken', what # "activate" PROVE ActiveOwners \ {u} # {}
    <3>1. CASE u \in ActiveOwners
      <4>1. Cardinality(ActiveOwners) > 1
        BY <2>1, <2>3, <3>1 DEF OwnerMayChange, ActiveOwners
      <4>2. ActiveOwners # {u}
        BY <4>1, FS_Singleton
      <4> QED BY <3>1, <4>2
    <3>2. CASE u \notin ActiveOwners
      BY <2>1, <2>3, <3>2 DEF OwnerInv, ServerTypeOK
    <3> QED BY <3>1, <3>2
  <2>4. g.user = u /\ g.what = what
    OBVIOUS
  <2> HIDE DEF g
  <2> QED BY <2>1, <2>2, <2>3, <2>4 DEF OwnerInv, ServerTypeOK
<1>3. ASSUME NEW g \in updates, CommitUpdate(g)
      PROVE  OwnerInv'
  <2>1. updates' = updates \ {g} /\ raced' = raced /\ taken' = taken
    BY <1>3 DEF CommitUpdate
  <2>2. /\ g.what = "activate" => ActiveOwners \subseteq ActiveOwners'
        /\ ActiveOwners \ {g.user} \subseteq ActiveOwners'
    BY <1>3, Committed
  <2> QED BY <2>1, <2>2 DEF OwnerInv
<1>4. \/ UNCHANGED <<staff, updates, raced, taken>>
      \/ \E u \in Staff, what \in Changes : CheckUpdate(u, what)
      \/ \E g \in updates : CommitUpdate(g)
      \/ \E u \in Staff, to \in Person : PushAccount(u, to)
  BY DEF ServerNext, serverVars, Changes, AccessExpires, Expire, SignIn, OpenSession, Logout,
         AskRefresh, StoreTokens, Lose, StopStoring, FindToken, RevokeToken, FindUser, IssueToken
<1>5. ASSUME NEW u \in Staff, NEW to \in Person, PushAccount(u, to)
      PROVE  OwnerInv'
  <2>1. /\ raced' = (raced \/ (u \in ActiveOwners /\ updates # {})) /\ updates' = updates
        /\ taken' = (taken \/ ActiveOwners = {u})
    BY <1>5 DEF PushAccount
  <2>2. \A v \in Staff \ {u} : staff'[v] = staff[v]
    BY <1>5, Pushed
  <2>3. ActiveOwners \ {u} \subseteq ActiveOwners'
    BY <2>2 DEF ActiveOwners, Usable
  <2>4. CASE u \in ActiveOwners
    <3>1. ~raced' /\ ~taken' => updates = {} /\ ActiveOwners \ {u} # {}
      BY <2>1, <2>4
    <3> QED BY <2>1, <2>3, <3>1 DEF OwnerInv
  <2>5. CASE u \notin ActiveOwners
    <3>1. ActiveOwners \subseteq ActiveOwners'
      BY <2>3, <2>5
    <3>2. \A g \in updates : ActiveOwners \ {g.user} \subseteq ActiveOwners' \ {g.user}
      BY <3>1
    <3> QED BY <2>1, <3>1, <3>2 DEF OwnerInv
  <2> QED BY <2>4, <2>5
<1> QED BY <1>1, <1>2, <1>3, <1>4, <1>5

LEMMA SessionsAre == ServerInv => SessionsFollow /\ CompanyKeepsOwner
<1> SUFFICES ASSUME ServerInv PROVE SessionsFollow /\ CompanyKeepsOwner
  OBVIOUS
<1> USE DEF ServerInv, TokenInv
<1>1. StaysConnected
  BY DEF StaysConnected, LiveInv, ServerTypeOK, Accepted, Renewing
<1>2. RemovedIsOut
  BY DEF RemovedIsOut, OutInv
<1>3. CompanyKeepsOwner
  BY DEF CompanyKeepsOwner, OwnerInv
<1> QED BY <1>1, <1>2, <1>3 DEF SessionsFollow

----------------------------------------------------------------------------
(* The till.                                                               *)

Kinds == {"alone", "server", "recover"}
Gesture == [user : Users, to : Account, written : BOOLEAN, field : {"active", "role"}]
Owns(a) == a # None /\ a.role = "owner" /\ a.active

TillTypes ==
  /\ clock \in Nat /\ spent \in Nat /\ clock <= spent /\ spent <= MaxEvents /\ crashes \in Nat
  /\ tables \in [Keys -> Seq(Identifier)]
  /\ accounts \in [Users -> Account \cup {None}] /\ shown \in [Users -> Account \cup {None}]
  /\ DOMAIN meta = Keys \cup {"mode"} /\ \A k \in Keys : meta[k] \in Identifier \cup {None}
  /\ meta["mode"] \in {None, "standalone", "connected"}
  /\ remote \in Account
  /\ phase \in {"loading", "enroll", "locked", "ready"} /\ session \in Session \cup {None}
  /\ guard \in [Users -> Lock] /\ gestures \in SUBSET Gesture
  /\ wrong \in [Users -> [Ticks -> Nat]] /\ crossed \in BOOLEAN

\* An installation and a sign-in keep to their screens, and exclude one another.
ScreenInv ==
  /\ phase = "ready" <=> session # None
  /\ attempt # None =>
       /\ attempt \in Attempt /\ phase = "locked" /\ install = None
       /\ attempt.guard = guard[attempt.user] /\ accounts[attempt.user] # None
  /\ install # None =>
       phase = IF install.kind = "recover" THEN "locked" ELSE "enroll"
  /\ phase \in {"locked", "ready"} => meta["register"] # None
  /\ phase = "enroll" => gestures = {} /\ (install = None => meta["register"] = None)

\* Keys are written after the rows they name and the account of Boss with its PIN, the register's
\* last.
WholeInv ==
  /\ \A k \in Keys : meta[k] # None => meta[k] \in Range(tables[k])
  /\ accounts[Boss] # None => accounts[Boss].pin
  /\ meta["register"] # None => Enrolled /\ accounts[Boss] # None
  /\ meta["mode"] # None => meta["register"] # None
  /\ meta["mode"] # "connected" => remote.role = "owner" /\ remote.active

\* How far an installation of this kind is when i steps are done: p of those of Save.
Stage(kind) == IF kind = "alone" THEN 0 ELSE 2

Progress(i) ==
  LET p == i - Stage(install.kind) IN
    /\ install.todo = SubSeq(Plan(install.kind), i + 1, Len(Plan(install.kind)))
    /\ i >= 1 /\ install.kind # "alone" => remote.pin
    /\ p >= 1 => install.id \in Range(tables["company"])
    /\ p >= 2 => install.id \in Range(tables["store"])
    /\ p >= 3 => install.id \in Range(tables["register"])
    /\ p >= 4 /\ install.kind # "recover" => Owns(accounts[Boss])
    /\ p >= 5 => meta["company"] # None
    /\ p >= 6 => meta["store"] # None
    /\ IF p >= 7 THEN meta["register"] # None
       ELSE install.kind # "recover" => meta["register"] = None
    /\ p < 8 /\ install.kind # "recover" => meta["mode"] = None

InstallInv ==
  install # None =>
    /\ install \in Installation /\ install.user.pin
    /\ install.kind # "recover" => Owns(install.user)
    /\ \E i \in 0..Len(Plan(install.kind)) : Progress(i)

\* What the write of a change leaves of the account.
Written(g) == IF g.field = "active" THEN [accounts[g.user] EXCEPT !.active = g.to.active]
              ELSE [accounts[g.user] EXCEPT !.role = g.to.role]

ManagedInv ==
  /\ gestures # {} => meta["register"] # None
  /\ \A g \in gestures : accounts[g.user] # None
  /\ phase = "ready" => \A u \in Users : shown[u] # None => accounts[u] # None
  /\ ~crossed =>
       /\ Enrolled => \E u \in Users : Owns(accounts[u])
       /\ \A g, h \in gestures : g = h
       /\ \A g \in gestures : ~g.written => OtherActiveOwner(g.user) \/ Owns(Written(g))

\* Before b a lock was on for its whole length; since then every wrong PIN is counted by the
\* guard or by the attempt under way, but for those whose count a stop has lost.
Pending(u) == IF attempt # None /\ attempt.user = u /\ attempt.checked /\ ~attempt.right THEN 1 ELSE 0
Since(b) == {s \in Ticks : s >= b}
Counted(u, b) ==
  /\ \A s \in Ticks : s > b - LockDuration /\ s < b => wrong[u][s] = 0
  /\ SumFunctionOnSet(wrong[u], Since(b)) <= guard[u].failed + Pending(u) + crashes
  /\ b <= clock \/ (guard[u].until = b /\ (attempt = None \/ attempt.user # u))

PinInv ==
  /\ \A u \in Users : /\ \A s \in Ticks : s > clock => wrong[u][s] = 0
                      /\ \E b \in 0..(MaxEvents + LockDuration) : Counted(u, b)
  /\ attempt # None /\ attempt.checked /\ attempt.right =>
       \A s \in Ticks : wrong[attempt.user][s] = 0
  /\ PinAttemptsBounded

TillInv == TillTypes /\ ScreenInv /\ WholeInv /\ InstallInv /\ ManagedInv /\ PinInv

\* The steps of an installation, in their order.
Order == [p \in -1..8 |-> CASE p = -1 -> "setPin" [] p = 0 -> "enrollDevice"
                            [] p = 1 -> "company" [] p = 2 -> "store" [] p = 3 -> "register"
                            [] p = 4 -> "user" [] p = 5 -> "keyCompany" [] p = 6 -> "keyStore"
                            [] p = 7 -> "keyRegister" [] p = 8 -> "mode"]

LEMMA OrderIs ==
  /\ Order[-1] = "setPin" /\ Order[0] = "enrollDevice"
  /\ Order[1] = "company" /\ Order[2] = "store" /\ Order[3] = "register" /\ Order[4] = "user"
  /\ Order[5] = "keyCompany" /\ Order[6] = "keyStore" /\ Order[7] = "keyRegister"
  /\ Order[8] = "mode"
BY DEF Order

LEMMA PlanOrder ==
  ASSUME NEW k \in Kinds
  PROVE  /\ Plan(k) \in Seq(Statements) /\ Stage(k) \in {0, 2}
         /\ Len(Plan(k)) = Stage(k) + (IF k = "recover" THEN 7 ELSE 8)
         /\ \A i \in 1..Len(Plan(k)) : i - Stage(k) \in -1..8 /\ Plan(k)[i] = Order[i - Stage(k)]
<1>1. ASSUME k = "alone"
      PROVE  /\ Plan(k) \in Seq(Statements) /\ Stage(k) = 0 /\ Len(Plan(k)) = 8
             /\ \A i \in 1..8 : i \in -1..8 /\ Plan(k)[i] = Order[i]
  <2> DEFINE P == <<>> \o Save \o <<"mode">>
  <2>1. P \in Seq(Statements)
    BY DEF Save, Statements
  <2>2. /\ Len(P) = 8 /\ P[1] = "company" /\ P[2] = "store" /\ P[3] = "register" /\ P[4] = "user"
        /\ P[5] = "keyCompany" /\ P[6] = "keyStore" /\ P[7] = "keyRegister" /\ P[8] = "mode"
    BY DEF Save
  <2>3. Plan(k) = P /\ Stage(k) = 0 /\ k # "recover"
    BY <1>1 DEF Plan, Stage
  <2> HIDE DEF P
  <2>4. ASSUME NEW i \in 1..8 PROVE i \in -1..8 /\ P[i] = Order[i]
    <3>2. \/ i = 1 \/ i = 2 \/ i = 3 \/ i = 4 \/ i = 5 \/ i = 6 \/ i = 7 \/ i = 8
      OBVIOUS
    <3> QED BY <2>2, <3>2, OrderIs
  <2> QED BY <2>1, <2>2, <2>3, <2>4
<1>2. ASSUME k \in {"server", "recover"}
      PROVE  /\ Plan(k) \in Seq(Statements) /\ Stage(k) = 2
             /\ Len(Plan(k)) = (IF k = "recover" THEN 9 ELSE 10)
             /\ \A i \in 1..Len(Plan(k)) : i - 2 \in -1..8 /\ Plan(k)[i] = Order[i - 2]
  <2> DEFINE T == IF k = "recover" THEN <<>> ELSE <<"mode">>
             P == <<"setPin", "enrollDevice">> \o Save \o T
  <2>1. P \in Seq(Statements)
    <3>1. T \in Seq(Statements)
      <4>1. <<>> \in Seq(Statements)
        OBVIOUS
      <4>2. <<"mode">> \in Seq(Statements)
        BY DEF Statements
      <4> QED BY <4>1, <4>2
    <3> HIDE DEF T
    <3>2. <<"setPin", "enrollDevice">> \o Save \in Seq(Statements)
      BY DEF Save, Statements
    <3> QED BY <3>1, <3>2, ConcatProperties
  <2>2. /\ Len(P) = IF k = "recover" THEN 9 ELSE 10
        /\ P[1] = "setPin" /\ P[2] = "enrollDevice" /\ P[3] = "company" /\ P[4] = "store"
        /\ P[5] = "register" /\ P[6] = "user" /\ P[7] = "keyCompany" /\ P[8] = "keyStore"
        /\ P[9] = "keyRegister" /\ (k # "recover" => P[10] = "mode")
    BY DEF Save
  <2>3. Plan(k) = P /\ Stage(k) = 2
    BY <1>2 DEF Plan, Stage
  <2> HIDE DEF P
  <2>4. ASSUME NEW i \in 1..Len(P) PROVE i - 2 \in -1..8 /\ P[i] = Order[i - 2]
    <3>1. i \in 1..10 /\ (i = 10 => k # "recover")
      BY <2>2
    <3>2. \/ i = 1 \/ i = 2 \/ i = 3 \/ i = 4 \/ i = 5 \/ i = 6 \/ i = 7 \/ i = 8 \/ i = 9 \/ i = 10
      BY <3>1
    <3> QED BY <2>2, <3>1, <3>2, OrderIs
  <2> QED BY <2>1, <2>2, <2>3, <2>4
<1>3. CASE k = "alone"
  <2>1. Stage(k) = 0 /\ Len(Plan(k)) = 8 /\ Len(Plan(k)) = Stage(k) + (IF k = "recover" THEN 7 ELSE 8)
    <3>1. Stage(k) = 0 /\ Len(Plan(k)) = 8
      BY <1>1, <1>3
    <3>2. (IF k = "recover" THEN 7 ELSE 8) = 8
      BY <1>3
    <3> QED BY <3>1, <3>2
  <2>2. ASSUME NEW i \in 1..8 PROVE i - Stage(k) = i
    BY <2>1
  <2> QED BY <1>1, <1>3, <2>1, <2>2
<1>4. CASE k # "alone"
  <2>1. k \in {"server", "recover"}
    BY <1>4 DEF Kinds
  <2>2. Stage(k) = 2 /\ Len(Plan(k)) = Stage(k) + (IF k = "recover" THEN 7 ELSE 8)
    <3>1. Stage(k) = 2 /\ Len(Plan(k)) = (IF k = "recover" THEN 9 ELSE 10)
      BY <1>2, <2>1
    <3>2. CASE k = "recover"
      BY <3>1, <3>2
    <3>3. CASE k # "recover"
      BY <3>1, <3>3
    <3> QED BY <3>2, <3>3
  <2> QED BY <1>2, <2>1, <2>2
<1> QED BY <1>3, <1>4

LEMMA Rest ==
  ASSUME NEW S, NEW s \in Seq(S), NEW i \in 0..Len(s), NEW t, t = SubSeq(s, i + 1, Len(s))
  PROVE  /\ t # <<>> <=> i < Len(s)
         /\ i < Len(s) => Head(t) = s[i + 1] /\ Tail(t) = SubSeq(s, i + 2, Len(s))
         /\ i = 0 => t = s
<1>1. Len(s) \in Nat
  BY LenProperties
<1>2. CASE i = Len(s)
  BY <1>1, <1>2, SubSeqEmpty, EmptySeq
<1>3. CASE i < Len(s)
  <2>1. i + 1 \in 1..Len(s) /\ Len(s) \in (i + 1)..Len(s)
    BY <1>1, <1>3
  <2>2. Head(t) = s[i + 1] /\ Tail(t) = SubSeq(s, i + 2, Len(s))
    BY <1>1, <2>1, HeadTailOfSubSeq
  <2>3. \A j \in (i + 1)..Len(s) : s[j] \in S
    BY <1>1, ElementOfSeq
  <2>4. Len(t) = Len(s) - i /\ t \in Seq(S)
    BY <1>1, <1>3, <2>3, SubSeqProperties
  <2>5. t # <<>>
    <3> SUFFICES ASSUME t = <<>> PROVE FALSE
      OBVIOUS
    <3>1. Len(t) = 0
      BY EmptySeq
    <3> QED BY <1>1, <1>3, <2>4, <3>1
  <2> QED BY <1>1, <1>3, <2>2, <2>5, SubSeqFull
<1> QED BY <1>1, <1>2, <1>3

LEMMA KeyIs ==
  ASSUME NEW k \in Keys
  PROVE  (CHOOSE j \in Keys : KeyStep[k] \in {j, KeyStep[j]}) = k
<1>1. \A j \in Keys : KeyStep[k] \in {j, KeyStep[j]} <=> j = k
  BY DEF Keys, KeyStep
<1> QED BY <1>1

LEMMA KeySteps ==
  /\ KeyStep["company"] = "keyCompany" /\ KeyStep["store"] = "keyStore"
  /\ KeyStep["register"] = "keyRegister"
  BY DEF KeyStep

\* Step p of an installation, and what it changes.
Writes(p) ==
  /\ install' = [install EXCEPT !.todo = Tail(@), !.user = IF p = 0 THEN remote ELSE @]
  /\ remote' = IF p = -1 THEN [remote EXCEPT !.pin = TRUE] ELSE remote
  /\ \A k \in Keys :
       tables'[k] = IF Order[p] = k /\ install.id \notin Range(tables[k])
                    THEN Append(tables[k], install.id) ELSE tables[k]
  /\ accounts' = IF p = 4 /\ install.user.active
                 THEN [accounts EXCEPT ![Boss] = install.user] ELSE accounts
  /\ \A k \in Keys : meta'[k] = IF Order[p] = KeyStep[k] THEN install.id ELSE meta[k]
  /\ meta'["mode"] = IF p = 8 THEN IF install.kind = "alone" THEN "standalone" ELSE "connected"
                     ELSE meta["mode"]
  /\ DOMAIN meta' = DOMAIN meta /\ tables' = [k \in Keys |-> tables'[k]]
  /\ crossed' = (\/ crossed
                 \/ /\ p = 4 /\ accounts[Boss] # None
                    /\ [accounts[Boss] EXCEPT !.pin = TRUE] # install.user)
  /\ UNCHANGED <<clock, phase, session, pins, panel, spent, crashes, wrong>>

\* Where an installation is.
LEMMA Position ==
  ASSUME InstallInv, install # None, install.todo # <<>>
  PROVE  \E i \in 0..(Len(Plan(install.kind)) - 1) :
           LET p == i + 1 - Stage(install.kind) IN
             /\ p \in -1..8 /\ (p = 8 => install.kind # "recover")
             /\ p \in -1..0 => install.kind # "alone"
             /\ Progress(i) /\ Head(install.todo) = Order[p]
             /\ Tail(install.todo) = SubSeq(Plan(install.kind), i + 2, Len(Plan(install.kind)))
             /\ Tail(install.todo) \in Seq(Statements)
<1> DEFINE k == install.kind  n == Len(Plan(k))
<1>1. install # None /\ install.todo # <<>> /\ install \in Installation /\ k \in Kinds
  BY DEF InstallInv, Installation, Kinds
<1>2. PICK i \in 0..n : Progress(i)
  BY <1>1 DEF InstallInv
<1>3. /\ Plan(k) \in Seq(Statements) /\ Stage(k) \in {0, 2}
      /\ n = Stage(k) + (IF k = "recover" THEN 7 ELSE 8)
      /\ \A j \in 1..n : j - Stage(k) \in -1..8 /\ Plan(k)[j] = Order[j - Stage(k)]
  BY <1>1, PlanOrder
<1>4. install.todo = SubSeq(Plan(k), i + 1, n)
  BY <1>2 DEF Progress
<1>5. /\ i < n /\ Head(install.todo) = Plan(k)[i + 1]
      /\ Tail(install.todo) = SubSeq(Plan(k), i + 2, n)
  <2>1. i \in 0..Len(Plan(k)) /\ install.todo = SubSeq(Plan(k), i + 1, Len(Plan(k)))
    BY <1>2, <1>4
  <2>2. /\ install.todo # <<>> <=> i < Len(Plan(k))
        /\ i < Len(Plan(k)) => /\ Head(install.todo) = Plan(k)[i + 1]
                               /\ Tail(install.todo) = SubSeq(Plan(k), i + 2, Len(Plan(k)))
    <3> HIDE DEF k
    <3> QED BY <1>3, <2>1, Rest
  <2> QED BY <1>1, <2>2
<1> DEFINE p == i + 1 - Stage(k)
<1>6. n \in Nat /\ i \in 0..(n - 1) /\ i + 1 \in 1..n
  BY <1>3, <1>5, LenProperties
<1>7. p \in -1..8 /\ Head(install.todo) = Order[p] /\ (p = 8 => k # "recover")
      /\ (p \in -1..0 => k # "alone")
  <2>1. p \in -1..8 /\ Head(install.todo) = Order[p]
    <3>1. p \in -1..8 /\ Plan(k)[i + 1] = Order[p]
      BY <1>3, <1>6
    <3> HIDE DEF p, k
    <3> QED BY <1>5, <3>1
  <2>2. p = 8 => k # "recover"
    <3> SUFFICES ASSUME p = 8, k = "recover" PROVE FALSE
      OBVIOUS
    <3>1. n = Stage(k) + 7
      BY <1>3
    <3> QED BY <1>3, <1>6, <3>1
  <2>3. p \in -1..0 => k # "alone"
    BY <1>6 DEF Stage
  <2> QED BY <2>1, <2>2, <2>3
<1>8. Tail(install.todo) \in Seq(Statements)
  BY <1>1, HeadTailProperties DEF Installation
<1> QED BY <1>2, <1>5, <1>6, <1>7, <1>8

LEMMA Installs ==
  ASSUME TillTypes, InstallInv, Install
  PROVE  \E i \in 0..(Len(Plan(install.kind)) - 1) :
           LET p == i + 1 - Stage(install.kind) IN
             /\ p \in -1..8 /\ (p = 8 => install.kind # "recover")
             /\ p \in -1..0 => install.kind # "alone"
             /\ Progress(i) /\ Writes(p)
             /\ Tail(install.todo) = SubSeq(Plan(install.kind), i + 2, Len(Plan(install.kind)))
             /\ Tail(install.todo) \in Seq(Statements)
<1> DEFINE k == install.kind  n == Len(Plan(k))
<1>1. PICK i \in 0..(n - 1) :
        LET p == i + 1 - Stage(k) IN
          /\ p \in -1..8 /\ (p = 8 => k # "recover")
          /\ p \in -1..0 => k # "alone"
          /\ Progress(i) /\ Head(install.todo) = Order[p]
          /\ Tail(install.todo) = SubSeq(Plan(k), i + 2, n)
          /\ Tail(install.todo) \in Seq(Statements)
  BY Position DEF Install
<1> DEFINE p == i + 1 - Stage(k)
<1>7. p \in -1..8 /\ Head(install.todo) = Order[p]
  BY <1>1
<1>9. Writes(p)
  <2> HIDE DEF p, k
  <2> DEFINE step == Order[p]
             key == CHOOSE j \in Keys : step \in {j, KeyStep[j]}
  <2>1. /\ install' = [install EXCEPT !.todo = Tail(@),
                                      !.user = IF step = "enrollDevice" THEN remote ELSE @]
        /\ remote' = IF step = "setPin" THEN [remote EXCEPT !.pin = TRUE] ELSE remote
        /\ tables' = IF step \in Keys /\ install.id \notin Range(tables[step])
                     THEN [tables EXCEPT ![step] = Append(@, install.id)] ELSE tables
        /\ accounts' = IF step = "user" /\ install.user.active
                       THEN [accounts EXCEPT ![Boss] = install.user] ELSE accounts
        /\ meta' = CASE step \in {"keyCompany", "keyStore", "keyRegister"} ->
                          [meta EXCEPT ![key] = install.id]
                     [] step = "mode" -> [meta EXCEPT !["mode"] = IF install.kind = "alone"
                                                               THEN "standalone" ELSE "connected"]
                     [] OTHER -> meta
        /\ crossed' = (\/ crossed
                       \/ /\ step = "user" /\ accounts[Boss] # None
                          /\ [accounts[Boss] EXCEPT !.pin = TRUE] # install.user)
        /\ UNCHANGED <<clock, phase, session, pins, panel, spent, crashes, wrong>>
    BY <1>7 DEF Install
  <2>2. /\ step = "enrollDevice" <=> p = 0
        /\ step = "setPin" <=> p = -1
        /\ step = "user" <=> p = 4
        /\ step = "mode" <=> p = 8
        /\ step \in {"keyCompany", "keyStore", "keyRegister"} <=> \E j \in Keys : step = KeyStep[j]
    <3>1. \/ p = -1 \/ p = 0 \/ p = 1 \/ p = 2 \/ p = 3 \/ p = 4 \/ p = 5 \/ p = 6 \/ p = 7 \/ p = 8
      BY <1>7
    <3> QED BY <3>1, OrderIs, KeySteps DEF Keys
  <2>3. \A j \in Keys : step = KeyStep[j] => key = j
    BY KeyIs
  <2>4. \A j \in Keys : j # "mode" /\ j \in DOMAIN meta
    BY DEF Keys, TillTypes
  <2>5. "mode" \in DOMAIN meta
    BY DEF TillTypes
  <2>6. \A j, l \in Keys : KeyStep[j] = KeyStep[l] => j = l
    BY KeySteps DEF Keys
  <2> HIDE DEF step, key
  <2>7. /\ \A j \in Keys : meta'[j] = IF step = KeyStep[j] THEN install.id ELSE meta[j]
        /\ meta'["mode"] = IF p = 8 THEN IF install.kind = "alone" THEN "standalone" ELSE "connected"
                           ELSE meta["mode"]
        /\ DOMAIN meta' = DOMAIN meta
    <3>1. CASE \E j \in Keys : step = KeyStep[j]
      <4>1. PICK j \in Keys : step = KeyStep[j]
        BY <3>1
      <4>2. meta' = [meta EXCEPT ![j] = install.id] /\ p # 8
        BY <2>1, <2>2, <2>3, <3>1, <4>1
      <4> QED BY <2>4, <2>5, <2>6, <4>1, <4>2
    <3>2. CASE p = 8
      <4>1. meta' = [meta EXCEPT !["mode"] = IF install.kind = "alone"
                                            THEN "standalone" ELSE "connected"]
            /\ \A j \in Keys : step # KeyStep[j]
        BY <2>1, <2>2, <3>2
      <4> QED BY <2>4, <2>5, <3>2, <4>1
    <3>3. CASE p # 8 /\ ~\E j \in Keys : step = KeyStep[j]
      BY <2>1, <2>2, <3>3
    <3> QED BY <3>1, <3>2, <3>3
  <2>8. /\ \A j \in Keys :
             tables'[j] = IF step = j /\ install.id \notin Range(tables[j])
                          THEN Append(tables[j], install.id) ELSE tables[j]
        /\ tables' = [j \in Keys |-> tables'[j]]
    BY <2>1 DEF TillTypes
  <2> QED BY <2>1, <2>2, <2>7, <2>8 DEF Writes, step
<1> QED BY <1>1, <1>9

CoreInv == TillTypes /\ ScreenInv /\ WholeInv /\ InstallInv /\ ManagedInv

LEMMA InstallKeeps ==
  ASSUME CoreInv, Install
  PROVE  CoreInv'
<1> USE DEF CoreInv
<1> DEFINE k == install.kind  id == install.id  u == install.user
<1>1. PICK i \in 0..(Len(Plan(k)) - 1) :
        LET p == i + 1 - Stage(k) IN
          /\ p \in -1..8 /\ (p = 8 => k # "recover")
          /\ p \in -1..0 => k # "alone"
          /\ Progress(i) /\ Writes(p)
          /\ Tail(install.todo) = SubSeq(Plan(k), i + 2, Len(Plan(k)))
          /\ Tail(install.todo) \in Seq(Statements)
  BY Installs
<1> DEFINE p == i + 1 - Stage(k)
<1>2. /\ install # None /\ install \in Installation /\ k \in Kinds /\ id \in Identifier
      /\ u \in Account /\ id # None /\ u # None
  BY TillAccessAssumption DEF Install, InstallInv, Installation, Kinds
<1>3. /\ p \in -1..8 /\ (p = 8 => k # "recover") /\ (p \in -1..0 => k # "alone")
      /\ Stage(k) \in {0, 2} /\ (k # "alone" => Stage(k) = 2) /\ i \in Nat
      /\ Len(Plan(k)) \in Nat /\ i + 1 \in 0..Len(Plan(k))
  <2>1. Len(Plan(k)) \in Nat
    BY <1>2, PlanOrder, LenProperties
  <2> QED BY <1>1, <2>1 DEF Stage
<1>4. /\ install' = [install EXCEPT !.todo = Tail(@), !.user = IF p = 0 THEN remote ELSE @]
      /\ remote' = IF p = -1 THEN [remote EXCEPT !.pin = TRUE] ELSE remote
      /\ \A q \in Keys :
           tables'[q] = IF Order[p] = q /\ id \notin Range(tables[q])
                        THEN Append(tables[q], id) ELSE tables[q]
      /\ accounts' = IF p = 4 /\ u.active THEN [accounts EXCEPT ![Boss] = u] ELSE accounts
      /\ \A q \in Keys : meta'[q] = IF Order[p] = KeyStep[q] THEN id ELSE meta[q]
      /\ meta'["mode"] = IF p = 8 THEN IF k = "alone" THEN "standalone" ELSE "connected"
                         ELSE meta["mode"]
      /\ DOMAIN meta' = DOMAIN meta /\ tables' = [q \in Keys |-> tables'[q]]
      /\ crossed' = (\/ crossed
                     \/ /\ p = 4 /\ accounts[Boss] # None
                        /\ [accounts[Boss] EXCEPT !.pin = TRUE] # u)
      /\ UNCHANGED <<clock, phase, session, guard, attempt, shown, gestures, spent, crashes, wrong>>
  BY <1>1 DEF Writes, pins, panel
<1>5. /\ k # "alone" /\ p >= 0 => remote.pin
      /\ p >= 2 => id \in Range(tables["company"])
      /\ p >= 3 => id \in Range(tables["store"])
      /\ p >= 4 => id \in Range(tables["register"])
      /\ p >= 5 /\ k # "recover" => Owns(accounts[Boss])
      /\ p >= 6 => meta["company"] # None
      /\ p >= 7 => meta["store"] # None
      /\ p >= 8 => meta["register"] # None
      /\ p < 8 /\ k # "recover" => meta["register"] = None
      /\ k # "recover" => meta["mode"] = None
  <2>1. Progress(i)
    BY <1>1
  <2>2. i - Stage(k) = p - 1 /\ (k # "alone" /\ p >= 0 => i >= 1)
    BY <1>3
  <2> HIDE DEF p, k, id
  <2> QED BY <1>3, <2>1, <2>2 DEF Progress, k, id
<1>6. /\ Tail(install.todo) = SubSeq(Plan(k), i + 2, Len(Plan(k)))
      /\ Tail(install.todo) \in Seq(Statements)
  BY <1>1
<1> HIDE DEF p
<1>7. \/ p = -1 \/ p = 0 \/ p = 1 \/ p = 2 \/ p = 3 \/ p = 4 \/ p = 5 \/ p = 6 \/ p = 7 \/ p = 8
  BY <1>3
<1>8. /\ Order[p] = "company" <=> p = 1
      /\ Order[p] = "store" <=> p = 2
      /\ Order[p] = "register" <=> p = 3
      /\ Order[p] = KeyStep["company"] <=> p = 5
      /\ Order[p] = KeyStep["store"] <=> p = 6
      /\ Order[p] = KeyStep["register"] <=> p = 7
  BY <1>7, OrderIs, KeySteps
<1>9. /\ install' # None /\ install' \in Installation /\ install'.kind = k /\ install'.id = id
      /\ install'.todo = Tail(install.todo) /\ install'.user = IF p = 0 THEN remote ELSE u
  <2>1. install' \in Installation
    BY <1>2, <1>4, <1>6 DEF Installation, TillTypes
  <2> QED BY <1>2, <1>4, <2>1, TillAccessAssumption DEF Installation
<1>10. u.pin /\ (k # "recover" => Owns(u))
  BY <1>2 DEF InstallInv
<1>11. accounts' \in [Users -> Account \cup {None}] /\ \A v \in Users : accounts[v] # None => accounts'[v] # None
  BY <1>2, <1>4, TillAccessAssumption DEF TillTypes
<1>12. \A q \in Keys : /\ tables'[q] \in Seq(Identifier) /\ Range(tables[q]) \subseteq Range(tables'[q])
                       /\ Order[p] = q => id \in Range(tables'[q])
  <2> SUFFICES ASSUME NEW q \in Keys
               PROVE  /\ tables'[q] \in Seq(Identifier) /\ Range(tables[q]) \subseteq Range(tables'[q])
                      /\ Order[p] = q => id \in Range(tables'[q])
    OBVIOUS
  <2>1. tables[q] \in Seq(Identifier)
    BY DEF TillTypes
  <2>2. /\ Append(tables[q], id) \in Seq(Identifier)
        /\ Len(Append(tables[q], id)) = Len(tables[q]) + 1
        /\ \A j \in 1..Len(tables[q]) : Append(tables[q], id)[j] = tables[q][j]
        /\ Append(tables[q], id)[Len(tables[q]) + 1] = id
        /\ Len(tables[q]) \in Nat
        /\ DOMAIN tables[q] = 1..Len(tables[q])
        /\ DOMAIN Append(tables[q], id) = 1..(Len(tables[q]) + 1)
    BY <1>2, <2>1, AppendProperties, LenProperties
  <2> DEFINE a == Append(tables[q], id)  t == tables[q]
  <2>3. Range(t) \subseteq Range(a) /\ id \in Range(a)
    <3> HIDE DEF a, t
    <3>1. DOMAIN t = 1..Len(t) /\ DOMAIN a = 1..(Len(t) + 1) /\ Len(t) \in Nat /\ a[Len(t) + 1] = id
          /\ \A j \in 1..Len(t) : a[j] = t[j]
      BY <2>2 DEF a, t
    <3> QED BY <3>1 DEF Range
  <2> QED BY <1>4, <2>1, <2>2, <2>3
<1>13. \A q \in Keys : meta'[q] \in Identifier \cup {None} /\ (meta[q] # None => meta'[q] # None)
  BY <1>2, <1>4 DEF TillTypes
<1>14. TillTypes'
  <2>1. tables' \in [Keys -> Seq(Identifier)]
    BY <1>4, <1>12
  <2>2. remote' \in Account
    BY <1>4 DEF TillTypes, Account
  <2>3. crossed' \in BOOLEAN /\ meta'["mode"] \in {None, "standalone", "connected"}
    BY <1>4 DEF TillTypes
  <2> QED BY <1>4, <1>11, <1>13, <2>1, <2>2, <2>3 DEF TillTypes
<1>15. phase' = (IF k = "recover" THEN "locked" ELSE "enroll") /\ attempt' = None /\ phase' = phase
  BY <1>2, <1>4 DEF ScreenInv
<1>16. ScreenInv'
  BY <1>4, <1>9, <1>13, <1>15, TillAccessAssumption DEF ScreenInv, Keys
<1>17. "company" \in Keys /\ "store" \in Keys /\ "register" \in Keys
  BY DEF Keys
<1>18. WholeInv'
  <2>1. \A q \in Keys : meta'[q] # None => meta'[q] \in Range(tables'[q])
    <3>1. \A q \in Keys : Order[p] = KeyStep[q] => id \in Range(tables[q])
      BY <1>5, <1>8 DEF Keys
    <3> QED BY <1>4, <1>12, <3>1 DEF WholeInv
  <2>2. accounts'[Boss] # None => accounts'[Boss].pin
    BY <1>2, <1>4, <1>10, TillAccessAssumption DEF WholeInv, TillTypes
  <2>3. meta'["register"] # None => Enrolled' /\ accounts'[Boss] # None
    <3>1. CASE meta["register"] # None
      BY <1>11, <1>13, <1>17, <3>1, TillAccessAssumption DEF WholeInv, Enrolled
    <3>2. CASE meta["register"] = None /\ meta'["register"] # None
      <4>1. p = 7
        BY <1>4, <1>8, <1>17, <3>2
      <4>2. k # "recover"
        BY <1>15, <3>2 DEF ScreenInv
      <4>3. meta["company"] # None /\ meta["store"] # None /\ accounts[Boss] # None
        BY <1>5, <4>1, <4>2 DEF Owns
      <4> QED BY <1>11, <1>13, <1>17, <3>2, <4>3, TillAccessAssumption DEF Enrolled, Keys
    <3> QED BY <3>1, <3>2
  <2>4. meta'["mode"] # None => meta'["register"] # None
    BY <1>4, <1>5, <1>13, <1>17 DEF WholeInv
  <2>5. meta'["mode"] # "connected" => remote'.role = "owner" /\ remote'.active
    <3>1. meta'["mode"] # "connected" => meta["mode"] # "connected"
      BY <1>3, <1>4, <1>5, TillAccessAssumption
    <3> QED BY <1>4, <3>1 DEF WholeInv, TillTypes, Account
  <2> QED BY <2>1, <2>2, <2>3, <2>4, <2>5 DEF WholeInv
<1>19. InstallInv'
  <2>1. install'.user.pin
    BY <1>3, <1>5, <1>9, <1>10
  <2>2. k # "recover" => Owns(install'.user)
    <3>1. k # "recover" => Owns(u)
      BY <1>2 DEF InstallInv
    <3>2. k # "recover" => Owns(remote)
      BY <1>5, TillAccessAssumption DEF WholeInv, Owns, TillTypes
    <3> QED BY <1>9, <3>1, <3>2
  <2>3. Progress(i + 1)'
    <3>1. install'.kind = k /\ install'.id = id /\ (i + 1) - Stage(k) = p
          /\ (i + 1) + 1 = i + 2
      BY <1>3, <1>9 DEF p
    <3>2. install'.todo = SubSeq(Plan(k), (i + 1) + 1, Len(Plan(k)))
      BY <1>6, <1>9, <3>1
    <3>3. i + 1 >= 1 /\ k # "alone" => remote'.pin
      <4>1. k # "alone" => p >= -1
        BY <1>3
      <4>2. CASE p = -1
        BY <1>2, <1>4, <4>2 DEF TillTypes, Account
      <4>3. CASE p >= 0 /\ k # "alone"
        BY <1>2, <1>4, <1>5, <4>3 DEF TillTypes, Account
      <4> QED BY <1>3, <4>1, <4>2, <4>3
    <3>4. /\ p >= 1 => id \in Range(tables'["company"])
          /\ p >= 2 => id \in Range(tables'["store"])
          /\ p >= 3 => id \in Range(tables'["register"])
      <4>1. p \in Int
        BY <1>3
      <4>2. /\ Range(tables["company"]) \subseteq Range(tables'["company"])
            /\ Range(tables["store"]) \subseteq Range(tables'["store"])
            /\ Range(tables["register"]) \subseteq Range(tables'["register"])
        BY <1>12, <1>17
      <4>3. /\ p = 1 => id \in Range(tables'["company"])
            /\ p = 2 => id \in Range(tables'["store"])
            /\ p = 3 => id \in Range(tables'["register"])
        BY <1>8, <1>12, <1>17
      <4>4. /\ p >= 1 <=> p = 1 \/ p >= 2
            /\ p >= 2 <=> p = 2 \/ p >= 3
            /\ p >= 3 <=> p = 3 \/ p >= 4
        BY <4>1
      <4> HIDE DEF id
      <4> QED BY <1>5, <4>2, <4>3, <4>4
    <3>5. p >= 4 /\ k # "recover" => Owns(accounts'[Boss])
      <4>1. k # "recover" => Owns(u)
        BY <1>2 DEF InstallInv
      <4>2. p = 4 /\ k # "recover" => accounts'[Boss] = u
        BY <1>4, <4>1, TillAccessAssumption DEF Owns, TillTypes
      <4>3. p >= 5 => accounts' = accounts
        BY <1>3, <1>4
      <4> QED BY <1>3, <1>5, <4>1, <4>2, <4>3
    <3>6. /\ p >= 5 => meta'["company"] # None
          /\ p >= 6 => meta'["store"] # None
          /\ p >= 7 => meta'["register"] # None
      BY <1>2, <1>3, <1>4, <1>5, <1>8, <1>13, <1>17
    <3>7. p < 7 /\ k # "recover" => meta'["register"] = None
      BY <1>3, <1>4, <1>5, <1>8, <1>17
    <3>8. p < 8 /\ k # "recover" => meta'["mode"] = None
      BY <1>4, <1>5
    <3> HIDE DEF k, id
    <3>9. Stage(install'.kind) = Stage(k) /\ Plan(install'.kind) = Plan(k)
      BY <3>1
    <3>10. (i + 1) - Stage(install'.kind) = p
      BY <3>1, <3>9
    <3>11. install'.todo = SubSeq(Plan(install'.kind), (i + 1) + 1, Len(Plan(install'.kind)))
      BY <3>2, <3>9
    <3>12. p \in Int
      BY <1>3
    <3> HIDE DEF Stage, Plan
    <3> QED BY <3>1, <3>3, <3>4, <3>5, <3>6, <3>7, <3>8, <3>10, <3>11, <3>12 DEF Progress
  <2> QED BY <1>3, <1>9, <2>1, <2>2, <2>3 DEF InstallInv
<1>20. ManagedInv'
  <2>1. \A g \in gestures' : accounts'[g.user] # None
    BY <1>4, <1>11 DEF ManagedInv, TillTypes, Gesture
  <2>2. phase' # "ready" /\ (gestures' # {} => meta'["register"] # None)
    BY <1>4, <1>13, <1>15, <1>17 DEF ManagedInv
  <2>3. CASE k # "recover"
    <3>1. gestures' = {}
      BY <1>4, <1>15, <2>3 DEF ScreenInv
    <3>2. Enrolled' => Owns(accounts'[Boss])
      <4>1. Enrolled' => p >= 7
        BY <1>3, <1>4, <1>5, <1>8, <1>17, <2>3 DEF Enrolled
      <4>2. p >= 7 => accounts' = accounts
        BY <1>3, <1>4
      <4> QED BY <1>3, <1>5, <2>3, <4>1, <4>2
    <3> QED BY <2>2, <3>1, <3>2, TillAccessAssumption DEF ManagedInv, Owns
  <2>4. CASE k = "recover"
    <3>1. meta["register"] # None /\ Enrolled /\ accounts[Boss] # None /\ accounts[Boss].pin
      BY <1>15, <2>4, TillAccessAssumption DEF ScreenInv, WholeInv
    <3>2. ~crossed' => ~crossed /\ accounts' = accounts
      <4>1. ASSUME ~crossed', p = 4 PROVE accounts' = accounts
        <5>1. [accounts[Boss] EXCEPT !.pin = TRUE] = u
          BY <1>4, <3>1, <4>1
        <5>2. accounts[Boss] \in Account
          BY <3>1, TillAccessAssumption DEF TillTypes
        <5>3. accounts[Boss] = u
          BY <3>1, <5>1, <5>2 DEF Account
        <5> QED BY <1>4, <5>3 DEF TillTypes
      <4> QED BY <1>4, <4>1
    <3>3. ~crossed' => \A g \in gestures' : Written(g)' = Written(g) /\ OtherActiveOwner(g.user)' = OtherActiveOwner(g.user)
      BY <3>2 DEF Written, OtherActiveOwner
    <3> QED BY <1>4, <2>1, <2>2, <3>1, <3>2, <3>3 DEF ManagedInv
  <2> QED BY <2>3, <2>4
<1> QED BY <1>14, <1>16, <1>18, <1>19, <1>20

\* What an action leaves when it leaves the variables an invariant is about.
LEMMA InstallKept ==
  ASSUME CoreInv, UNCHANGED <<install, tables, meta>>, remote.pin => remote'.pin,
         install # None /\ install.kind # "recover" => accounts' = accounts
  PROVE  InstallInv'
<1> SUFFICES ASSUME install # None PROVE InstallInv'
  BY DEF InstallInv
<1>1. PICK i \in 0..Len(Plan(install.kind)) : Progress(i)
  BY DEF CoreInv, InstallInv
<1>2. Progress(i)'
  BY <1>1 DEF Progress
<1> QED BY <1>1, <1>2 DEF CoreInv, InstallInv

LEMMA WholeKept ==
  ASSUME CoreInv, UNCHANGED <<tables, meta, accounts, remote>>
  PROVE  WholeInv' /\ Enrolled' = Enrolled
BY DEF CoreInv, WholeInv, Enrolled

LEMMA ManagedKept ==
  ASSUME CoreInv, UNCHANGED <<meta, accounts, gestures, crossed>>,
         shown' = accounts \/ phase' # "ready" \/ (phase = "ready" /\ shown' = shown)
  PROVE  ManagedInv'
<1>1. /\ Enrolled' = Enrolled
      /\ \A u : OtherActiveOwner(u)' = OtherActiveOwner(u)
      /\ \A g : Written(g)' = Written(g)
  BY DEF Enrolled, OtherActiveOwner, Written
<1> QED BY <1>1 DEF CoreInv, ManagedInv

LEMMA ShowLockScreenKeeps == ASSUME CoreInv, ShowLockScreen PROVE CoreInv'
<1> USE DEF CoreInv
<1>1. /\ phase = "loading" /\ phase' = (IF Enrolled THEN "locked" ELSE "enroll")
      /\ UNCHANGED <<clock, tables, meta, accounts, remote, session, install, guard, attempt, shown,
                     gestures, spent, crashes, wrong, crossed>>
  BY DEF ShowLockScreen, places, pins, panel, ghosts
<1>2. TillTypes'
  BY <1>1 DEF TillTypes
<1>3. session = None /\ attempt = None /\ install = None
  BY <1>1 DEF ScreenInv
<1>4. Enrolled => meta["register"] # None
  BY DEF Enrolled, Keys
<1>5. ScreenInv'
  BY <1>1, <1>3, <1>4 DEF ScreenInv, WholeInv, ManagedInv
<1>6. WholeInv' /\ InstallInv' /\ ManagedInv'
  BY <1>1, WholeKept, InstallKept, ManagedKept
<1> QED BY <1>2, <1>5, <1>6

LEMMA BeginKeeps == ASSUME CoreInv, NEW kind \in Kinds, Begin(kind) PROVE CoreInv'
<1> USE DEF CoreInv
<1> DEFINE id == IF kind = "alone" THEN <<kind, crashes>> ELSE <<"server", 0>>
           user == [role |-> "owner", active |-> TRUE, pin |-> TRUE]
<1>1. /\ install = None /\ attempt = None /\ phase = (IF kind = "recover" THEN "locked" ELSE "enroll")
      /\ install' = [kind |-> kind, id |-> id, todo |-> Plan(kind), user |-> user]
      /\ UNCHANGED <<clock, tables, meta, accounts, remote, phase, session, guard, attempt, shown,
                     gestures, spent, crashes, wrong, crossed>>
  BY DEF Begin, places, pins, panel, ghosts
<1>2. id \in Identifier /\ user \in Account /\ Owns(user) /\ user.pin
  <2>1. id \in Identifier
    BY DEF TillTypes, Identifier
  <2>2. user \in Account /\ user.role = "owner" /\ user.active /\ user.pin
    BY DEF Account
  <2> QED BY <2>1, <2>2, TillAccessAssumption DEF Owns
<1> HIDE DEF id, user
<1>3. /\ Plan(kind) \in Seq(Statements) /\ Stage(kind) \in {0, 2} /\ Len(Plan(kind)) \in Nat
      /\ SubSeq(Plan(kind), 1, Len(Plan(kind))) = Plan(kind)
  BY PlanOrder, LenProperties, SubSeqFull
<1>4. install' \in Installation /\ install' # None
  BY <1>1, <1>2, <1>3, TillAccessAssumption DEF Installation, Kinds
<1>5. /\ install'.kind = kind /\ install'.id = id /\ install'.todo = Plan(kind)
      /\ install'.user = user
  BY <1>1
<1>6. TillTypes'
  BY <1>1 DEF TillTypes
<1>7. ScreenInv'
  BY <1>1, <1>4, <1>5 DEF ScreenInv
<1>8. WholeInv' /\ ManagedInv'
  <2>1. phase' # "ready"
    BY <1>1
  <2> QED BY <1>1, <2>1, WholeKept, ManagedKept
<1>9. InstallInv'
  <2>1. kind # "recover" => meta["register"] = None /\ meta["mode"] = None
    BY <1>1 DEF ScreenInv, WholeInv
  <2>2. Progress(0)'
    <3>1. install'.todo = SubSeq(Plan(install'.kind), 0 + 1, Len(Plan(install'.kind)))
      BY <1>3, <1>5
    <3>2. 0 - Stage(install'.kind) \in {0, -2}
      BY <1>3, <1>5
    <3> HIDE DEF Plan, Stage
    <3> QED BY <1>1, <1>5, <2>1, <3>1, <3>2 DEF Progress
  <2>3. 0 \in 0..Len(Plan(install'.kind))
    BY <1>3, <1>5
  <2> QED BY <1>2, <1>4, <1>5, <2>2, <2>3 DEF InstallInv
<1> QED BY <1>6, <1>7, <1>8, <1>9

LEMMA InstalledKeeps == ASSUME CoreInv, Installed \/ Unreachable PROVE CoreInv'
<1> USE DEF CoreInv
<1>1. /\ install # None /\ install' = None
      /\ UNCHANGED <<clock, tables, meta, accounts, remote, session, guard, attempt, shown,
                     gestures, spent, crashes, wrong, crossed>>
  BY DEF Installed, Unreachable, places, pins, panel, ghosts
<1>2. phase' \in {phase, "loading"} /\ phase \in {"locked", "enroll"} /\ session = None /\ attempt = None
  BY <1>1 DEF Installed, Unreachable, ScreenInv
<1>3. phase' = "enroll" => meta["register"] = None
  <2> SUFFICES ASSUME phase' = "enroll" PROVE meta["register"] = None
    OBVIOUS
  <2>1. /\ install.todo # <<>> /\ Head(install.todo) \in {"setPin", "enrollDevice"}
        /\ install.kind # "recover"
    <3>1. Unreachable
      BY DEF Installed
    <3> QED BY <3>1 DEF Unreachable, ScreenInv
  <2>2. PICK i \in 0..(Len(Plan(install.kind)) - 1) :
          LET p == i + 1 - Stage(install.kind) IN
            p \in -1..8 /\ Progress(i) /\ Head(install.todo) = Order[p]
    BY <1>1, <2>1, Position
  <2> DEFINE p == i + 1 - Stage(install.kind)
  <2>3. p \in -1..8 /\ Order[p] \in {"setPin", "enrollDevice"}
    BY <2>1, <2>2
  <2>4. p \in -1..0
    <3> HIDE DEF p
    <3>1. \/ p = -1 \/ p = 0 \/ p = 1 \/ p = 2 \/ p = 3 \/ p = 4 \/ p = 5 \/ p = 6 \/ p = 7 \/ p = 8
      BY <2>3
    <3> QED BY <2>3, <3>1, OrderIs
  <2>5. ~(i - Stage(install.kind) >= 7)
    BY <2>2, <2>4 DEF Stage
  <2> QED BY <2>1, <2>2, <2>5 DEF Progress
<1>4. TillTypes'
  BY <1>1, <1>2 DEF TillTypes
<1>5. ScreenInv'
  BY <1>1, <1>2, <1>3 DEF ScreenInv
<1>6. WholeInv' /\ ManagedInv' /\ InstallInv'
  BY <1>1, <1>2, WholeKept, ManagedKept DEF InstallInv
<1> QED BY <1>4, <1>5, <1>6

LEMMA PinKeeps ==
  ASSUME CoreInv,
         \/ \E u \in Users, right \in BOOLEAN : SubmitPin(u, right)
         \/ VerifyPin \/ WrongPin
  PROVE  CoreInv'
<1> USE DEF CoreInv
<1>1. /\ UNCHANGED <<clock, tables, meta, accounts, remote, phase, session, install, shown,
                     gestures, crashes, crossed>>
  BY DEF SubmitPin, VerifyPin, WrongPin, places, screen, pins, panel, ghosts
<1>2. WholeInv' /\ ManagedInv' /\ InstallInv'
  BY <1>1, WholeKept, ManagedKept, InstallKept
<1>3. ASSUME NEW u \in Users, NEW right \in BOOLEAN, SubmitPin(u, right)
      PROVE  TillTypes' /\ ScreenInv'
  <2> DEFINE a == [user |-> u, right |-> right, guard |-> guard[u], checked |-> FALSE]
  <2>1. /\ attempt' = a /\ phase = "locked" /\ install = None /\ Signable(u)
        /\ (spent' = spent \/ Spend) /\ UNCHANGED <<guard, wrong>>
    BY <1>3 DEF SubmitPin, ghosts
  <2>2. spent' \in Nat /\ clock' <= spent' /\ spent' <= MaxEvents
    BY <1>1, <2>1, TillAccessAssumption DEF TillTypes, Spend
  <2>3. a \in Attempt /\ a.guard = guard[a.user] /\ accounts[a.user] # None
    BY <2>1 DEF TillTypes, Attempt, Signable
  <2> HIDE DEF a
  <2>4. TillTypes'
    BY <1>1, <2>1, <2>2 DEF TillTypes
  <2> QED BY <1>1, <2>1, <2>3, <2>4 DEF ScreenInv
<1>4. ASSUME VerifyPin
      PROVE  TillTypes' /\ ScreenInv'
  <2>1. /\ attempt # None /\ attempt' = [attempt EXCEPT !.checked = TRUE]
        /\ UNCHANGED <<guard, spent>>
        /\ wrong' = IF attempt.right THEN [wrong EXCEPT ![attempt.user] = [t \in Ticks |-> 0]]
                    ELSE [wrong EXCEPT ![attempt.user][clock] = @ + 1]
    BY <1>4 DEF VerifyPin
  <2>2. attempt \in Attempt /\ attempt.user \in Users /\ clock \in Ticks
    BY <2>1, TillAccessAssumption DEF ScreenInv, Attempt, TillTypes, Ticks
  <2>3. wrong' \in [Users -> [Ticks -> Nat]]
    BY <2>1, <2>2 DEF TillTypes
  <2>4. TillTypes'
    BY <1>1, <2>1, <2>3 DEF TillTypes
  <2>5. attempt' \in Attempt /\ attempt'.user = attempt.user /\ attempt'.guard = attempt.guard
    BY <2>1, <2>2 DEF Attempt
  <2> QED BY <1>1, <2>1, <2>4, <2>5 DEF ScreenInv
<1>5. ASSUME WrongPin
      PROVE  TillTypes' /\ ScreenInv'
  <2>1. /\ attempt # None /\ attempt' = None /\ UNCHANGED <<wrong, spent>>
        /\ guard' = [guard EXCEPT ![attempt.user] = AfterFailure(attempt.guard)]
    BY <1>5 DEF WrongPin, ghosts
  <2>2. attempt.guard \in Lock
    BY <2>1 DEF ScreenInv, Attempt
  <2>3. AfterFailure(attempt.guard) \in Lock
    BY <2>2, TillAccessAssumption DEF AfterFailure, Lock, TillTypes
  <2>4. TillTypes'
    BY <1>1, <2>1, <2>3 DEF TillTypes
  <2> QED BY <1>1, <2>1, <2>4 DEF ScreenInv
<1> QED BY <1>2, <1>3, <1>4, <1>5

LEMMA RightPinKeeps == ASSUME CoreInv, RightPin PROVE CoreInv'
<1> USE DEF CoreInv
<1>1. /\ attempt # None /\ attempt' = None /\ shown' = accounts
      /\ guard' = [guard EXCEPT ![attempt.user] = Free]
      /\ \/ Context = None /\ UNCHANGED <<phase, session>>
         \/ /\ Context # None /\ phase' = "ready"
            /\ session' = [user |-> attempt.user, role |-> accounts[attempt.user].role,
                           company |-> Context]
      /\ UNCHANGED <<clock, tables, meta, accounts, remote, install, gestures, spent, crashes,
                     wrong, crossed>>
  BY DEF RightPin, places, ghosts
<1>2. /\ attempt \in Attempt /\ attempt.user \in Users /\ phase = "locked" /\ install = None
      /\ accounts[attempt.user] \in Account /\ session = None
  BY <1>1 DEF ScreenInv, Attempt, TillTypes
<1>3. Context # None => Context \in Identifier
  <2> SUFFICES ASSUME Context # None PROVE Context \in Identifier
    OBVIOUS
  <2>1. tables["company"] # <<>> /\ Context = Head(tables["company"])
    BY DEF Context
  <2>2. tables["company"] \in Seq(Identifier)
    BY DEF TillTypes, Keys
  <2> QED BY <2>1, <2>2, HeadTailProperties
<1>4. session' \in Session \cup {None} /\ (phase' = "ready" <=> session' # None)
      /\ phase' \in {"locked", "ready"}
  <2>1. CASE Context = None
    BY <1>1, <1>2, <2>1
  <2>2. CASE Context # None
    <3>1. session' \in Session
      BY <1>1, <1>2, <1>3, <2>2 DEF Session, Account
    <3> QED BY <1>1, <2>2, <3>1, TillAccessAssumption
  <2> QED BY <2>1, <2>2
<1>5. Free \in Lock
  BY TillAccessAssumption DEF Free, Lock
<1>6. TillTypes'
  BY <1>1, <1>2, <1>4, <1>5 DEF TillTypes
<1>7. ScreenInv'
  BY <1>1, <1>2, <1>4 DEF ScreenInv
<1>8. WholeInv' /\ ManagedInv' /\ InstallInv'
  BY <1>1, WholeKept, ManagedKept, InstallKept
<1> QED BY <1>6, <1>7, <1>8

LEMMA SignOutKeeps == ASSUME CoreInv, SignOut PROVE CoreInv'
<1> USE DEF CoreInv
<1>1. /\ phase = "ready" /\ phase' = "loading" /\ session' = None
      /\ UNCHANGED <<clock, tables, meta, accounts, remote, install, guard, attempt, shown,
                     gestures, spent, crashes, wrong, crossed>>
  BY DEF SignOut, places, pins, panel, ghosts
<1>2. attempt = None /\ install = None
  BY <1>1 DEF ScreenInv
<1>3. TillTypes' /\ ScreenInv'
  BY <1>1, <1>2 DEF TillTypes, ScreenInv
<1>4. WholeInv' /\ ManagedInv' /\ InstallInv'
  BY <1>1, WholeKept, ManagedKept, InstallKept
<1> QED BY <1>3, <1>4

LEMMA StopKeeps == ASSUME CoreInv, Stop PROVE CoreInv'
<1> USE DEF CoreInv
<1>1. /\ spent' = spent + 1 /\ spent < MaxEvents /\ crashes' = crashes + 1
      /\ phase' = "loading" /\ session' = None /\ install' = None /\ attempt' = None /\ gestures' = {}
      /\ UNCHANGED <<clock, tables, meta, accounts, remote, guard, shown, wrong, crossed>>
  BY DEF Stop, Spend, places
<1>2. TillTypes'
  BY <1>1, TillAccessAssumption DEF TillTypes
<1>3. ScreenInv' /\ InstallInv'
  BY <1>1 DEF ScreenInv, InstallInv
<1>4. WholeInv' /\ Enrolled' = Enrolled
  BY <1>1, WholeKept
<1>5. ManagedInv'
  BY <1>1, <1>4 DEF ManagedInv
<1> QED BY <1>2, <1>3, <1>4, <1>5

LEMMA TickKeeps == ASSUME CoreInv, Tick PROVE CoreInv'
<1> USE DEF CoreInv
<1>1. /\ spent' = spent + 1 /\ spent < MaxEvents /\ clock' = clock + 1
      /\ UNCHANGED <<tables, meta, accounts, remote, phase, session, install, guard, attempt, shown,
                     gestures, crashes, wrong, crossed>>
  BY DEF Tick, Spend, places, screen, pins, panel, ghosts
<1>2. TillTypes'
  BY <1>1, TillAccessAssumption DEF TillTypes
<1>3. ScreenInv'
  BY <1>1 DEF ScreenInv
<1>4. WholeInv' /\ ManagedInv' /\ InstallInv'
  BY <1>1, WholeKept, ManagedKept, InstallKept
<1> QED BY <1>2, <1>3, <1>4

LEMMA PushBossKeeps == ASSUME CoreInv, PushBoss PROVE CoreInv'
<1> USE DEF CoreInv
<1>1. /\ accounts[Boss] # None /\ meta["mode"] = "connected" /\ remote' = accounts[Boss]
      /\ UNCHANGED <<clock, tables, meta, accounts, phase, session, install, guard, attempt, shown,
                     gestures, spent, crashes, wrong, crossed>>
  BY DEF PushBoss, places, screen, pins, panel, ghosts
<1>2. remote' \in Account /\ remote'.pin
  BY <1>1, TillAccessAssumption DEF TillTypes, WholeInv
<1>3. TillTypes'
  BY <1>1, <1>2 DEF TillTypes
<1>4. ScreenInv'
  BY <1>1 DEF ScreenInv
<1>5. WholeInv'
  BY <1>1 DEF WholeInv, Enrolled
<1>6. ManagedInv' /\ InstallInv'
  BY <1>1, <1>2, ManagedKept, InstallKept
<1> QED BY <1>3, <1>4, <1>5, <1>6

\* While the accounts are managed the till is open, whole, and nobody installs or signs in.
LEMMA Open4Changes ==
  ASSUME CoreInv, Managing
  PROVE  phase = "ready" /\ attempt = None /\ install = None /\ Enrolled
BY DEF CoreInv, Managing, ScreenInv, WholeInv

LEMMA CreateUserKeeps ==
  ASSUME CoreInv, NEW u \in Users, NEW role \in {"owner", "cashier"}, CreateUser(u, role)
  PROVE  CoreInv'
<1> USE DEF CoreInv
<1> DEFINE a == [role |-> role, active |-> TRUE, pin |-> TRUE]
<1>1. /\ Managing /\ accounts[u] = None /\ spent < MaxEvents /\ spent' = spent + 1
      /\ accounts' = [accounts EXCEPT ![u] = a] /\ shown' = accounts'
      /\ UNCHANGED <<clock, tables, meta, remote, phase, session, install, guard, attempt,
                     gestures, crashes, wrong, crossed>>
  BY DEF CreateUser, Spend, places, screen, pins, ghosts
<1>2. a \in Account /\ a # None /\ a.pin
  <2>1. a \in Account /\ a.pin
    BY DEF Account
  <2> QED BY <2>1, TillAccessAssumption
<1> HIDE DEF a
<1>3. /\ accounts' \in [Users -> Account \cup {None}] /\ accounts'[u] = a
      /\ \A v \in Users : accounts[v] # None => accounts'[v] = accounts[v]
      /\ \A v \in Users : v # u => accounts'[v] = accounts[v]
  BY <1>1, <1>2 DEF TillTypes
<1>4. phase = "ready" /\ attempt = None /\ install = None /\ Enrolled
  BY <1>1, Open4Changes
<1>5. TillTypes'
  BY <1>1, <1>3, TillAccessAssumption DEF TillTypes
<1>6. ScreenInv'
  BY <1>1, <1>4 DEF ScreenInv
<1>7. WholeInv' /\ Enrolled'
  BY <1>1, <1>2, <1>3, <1>4, TillAccessAssumption DEF WholeInv, Enrolled
<1>8. InstallInv'
  BY <1>1, <1>4 DEF InstallInv
<1>9. ManagedInv'
  <2>1. \A g \in gestures : g.user \in Users /\ accounts[g.user] # None
    BY DEF ManagedInv, TillTypes, Gesture
  <2>2. \A g \in gestures : Written(g)' = Written(g) /\ (OtherActiveOwner(g.user) => OtherActiveOwner(g.user)')
    BY <1>3, <2>1 DEF Written, OtherActiveOwner
  <2>3. \A v \in Users : Owns(accounts[v]) => Owns(accounts'[v])
    BY <1>3 DEF Owns
  <2> QED BY <1>1, <1>3, <1>4, <2>1, <2>2, <2>3 DEF ManagedInv
<1> QED BY <1>5, <1>6, <1>7, <1>8, <1>9

LEMMA SetPinKeeps == ASSUME CoreInv, NEW u \in Users, SetPin(u) PROVE CoreInv'
<1> USE DEF CoreInv
<1>1. /\ Managing /\ shown[u] # None /\ spent < MaxEvents /\ spent' = spent + 1
      /\ accounts' = [accounts EXCEPT ![u].pin = TRUE] /\ shown' = accounts'
      /\ UNCHANGED <<clock, tables, meta, remote, phase, session, install, guard, attempt,
                     gestures, crashes, wrong, crossed>>
  BY DEF SetPin, Spend, places, screen, pins, ghosts
<1>2. phase = "ready" /\ attempt = None /\ install = None /\ Enrolled
  BY <1>1, Open4Changes
<1>3. accounts[u] \in Account /\ accounts[u] # None
  BY <1>1, <1>2, TillAccessAssumption DEF ManagedInv, TillTypes
<1> DEFINE a == [accounts[u] EXCEPT !.pin = TRUE]
<1>4. /\ a \in Account /\ a.pin /\ a.role = accounts[u].role /\ a.active = accounts[u].active
      /\ \A x : [a EXCEPT !.active = x].role = a.role /\ [a EXCEPT !.active = x].active = x
      /\ \A x : [a EXCEPT !.role = x].role = x /\ [a EXCEPT !.role = x].active = a.active
  BY <1>3 DEF Account
<1>5. accounts' = [accounts EXCEPT ![u] = a]
  BY <1>1, <1>3 DEF TillTypes
<1> HIDE DEF a
<1>6. /\ a # None /\ accounts' \in [Users -> Account \cup {None}] /\ accounts'[u] = a
      /\ \A v \in Users : v # u => accounts'[v] = accounts[v]
      /\ \A v \in Users : accounts[v] # None <=> accounts'[v] # None
  BY <1>3, <1>4, <1>5, TillAccessAssumption DEF TillTypes
<1>7. TillTypes'
  <2>1. spent' \in Nat /\ clock <= spent' /\ spent' <= MaxEvents
    BY <1>1, TillAccessAssumption DEF TillTypes
  <2> QED BY <1>1, <1>6, <2>1 DEF TillTypes
<1>8. ScreenInv'
  BY <1>1, <1>2 DEF ScreenInv
<1>9. WholeInv' /\ Enrolled' = Enrolled
  BY <1>1, <1>4, <1>6, TillAccessAssumption DEF WholeInv, Enrolled
<1>10. InstallInv'
  BY <1>1, <1>2 DEF InstallInv
<1>11. ManagedInv'
  <2>1. \A v \in Users : Owns(accounts'[v]) = Owns(accounts[v])
    BY <1>3, <1>4, <1>6 DEF Owns
  <2>2. \A v \in Users : OtherActiveOwner(v)' = OtherActiveOwner(v)
    BY <2>1 DEF OtherActiveOwner, Owns
  <2>3. ASSUME NEW g \in gestures PROVE Owns(Written(g)) => Owns(Written(g)')
    <3>1. g.user \in Users /\ accounts[g.user] # None /\ accounts[g.user] \in Account
      BY DEF ManagedInv, TillTypes, Gesture
    <3>2. CASE g.user # u
      BY <1>6, <3>1, <3>2 DEF Written
    <3>3. CASE g.user = u
      <4>1. Written(g)' = IF g.field = "active" THEN [a EXCEPT !.active = g.to.active]
                          ELSE [a EXCEPT !.role = g.to.role]
        BY <1>6, <3>3 DEF Written
      <4>2. Written(g)'.role = Written(g).role /\ Written(g)'.active = Written(g).active
        BY <1>3, <1>4, <3>1, <3>3, <4>1 DEF Written, Account
      <4>3. Written(g)' \in Account
        <5>1. g \in Gesture
          BY DEF TillTypes
        <5> QED BY <1>4, <4>1, <5>1 DEF Gesture, Account
      <4> QED BY <4>2, <4>3, TillAccessAssumption DEF Owns
    <3> QED BY <3>2, <3>3
  <2>4. \A g \in gestures : g.user \in Users /\ accounts'[g.user] # None
    BY <1>6 DEF ManagedInv, TillTypes, Gesture
  <2> QED BY <1>1, <1>6, <1>9, <2>1, <2>2, <2>3, <2>4 DEF ManagedInv
<1> QED BY <1>7, <1>8, <1>9, <1>10, <1>11

LEMMA CheckChangeKeeps ==
  ASSUME CoreInv, NEW u \in Users, NEW to \in Account, CheckChange(u, to)
  PROVE  CoreInv'
<1> USE DEF CoreInv
<1> DEFINE new == [user |-> u, to |-> to, written |-> FALSE,
                   field |-> IF to.role = shown[u].role THEN "active" ELSE "role"]
<1>1. /\ Managing /\ shown[u] # None /\ spent < MaxEvents /\ spent' = spent + 1
      /\ \/ to = [shown[u] EXCEPT !.active = ~@]
         \/ shown[u].active /\ to # shown[u] /\ to = [shown[u] EXCEPT !.role = to.role]
      /\ Allowed(u, to) /\ gestures' = gestures \cup {new}
      /\ crossed' = (crossed \/ gestures # {} \/ shown[u] # accounts[u])
      /\ UNCHANGED <<clock, tables, meta, accounts, remote, phase, session, install, guard, attempt,
                     shown, crashes, wrong>>
  BY DEF CheckChange, Spend, places, screen, pins
<1>2. phase = "ready" /\ attempt = None /\ install = None /\ Enrolled /\ meta["register"] # None
  BY <1>1, Open4Changes DEF ScreenInv
<1>3. new \in Gesture /\ ~new.written /\ new.user = u /\ new.to = to
      /\ (new.field = "active" <=> to.role = shown[u].role)
  BY DEF Gesture
<1>4. shown[u] \in Account /\ accounts[u] # None
  BY <1>1, <1>2 DEF ManagedInv, TillTypes
<1>5. ~crossed' => OtherActiveOwner(u) \/ Owns(Written(new))
  <2> SUFFICES ASSUME ~crossed', ~OtherActiveOwner(u) PROVE Owns(Written(new))
    OBVIOUS
  <2>1. ~crossed /\ gestures = {} /\ shown[u] = accounts[u]
    BY <1>1
  <2>3. Owns(accounts[u])
    BY <1>2, <2>1 DEF ManagedInv, OtherActiveOwner, Owns
  <2>4. to.active /\ to.role = "owner"
    BY <1>1, <2>1, <2>3 DEF Allowed, Owns
  <2>5. Written(new) = to
    BY <1>1, <1>3, <1>4, <2>1 DEF Written, Account
  <2> QED BY <2>4, <2>5, TillAccessAssumption DEF Owns
<1> HIDE DEF new
<1>6. TillTypes'
  BY <1>1, <1>3, TillAccessAssumption DEF TillTypes
<1>7. ScreenInv'
  BY <1>1, <1>2 DEF ScreenInv
<1>8. WholeInv' /\ InstallInv' /\ Enrolled' = Enrolled
  BY <1>1, WholeKept, InstallKept
<1>9. ManagedInv'
  <2>1. /\ \A v : OtherActiveOwner(v)' = OtherActiveOwner(v)
        /\ \A g : Written(g)' = Written(g)
    BY <1>1 DEF OtherActiveOwner, Written
  <2> QED BY <1>1, <1>2, <1>3, <1>4, <1>5, <1>8, <2>1 DEF ManagedInv
<1> QED BY <1>6, <1>7, <1>8, <1>9

LEMMA WriteChangeKeeps == ASSUME CoreInv, NEW g \in gestures, WriteChange(g) PROVE CoreInv'
<1> USE DEF CoreInv
<1> DEFINE u == g.user  done == [g EXCEPT !.written = TRUE]
<1>1. /\ ~g.written /\ accounts' = [accounts EXCEPT ![u] =
                         IF g.field = "active" THEN [@ EXCEPT !.active = g.to.active]
                         ELSE [@ EXCEPT !.role = g.to.role]]
      /\ gestures' = (gestures \ {g}) \cup {done}
      /\ UNCHANGED <<clock, tables, meta, remote, phase, session, install, guard, attempt, shown,
                     spent, crashes, wrong, crossed>>
  BY DEF WriteChange, places, screen, pins, ghosts
<1>2. g \in Gesture /\ u \in Users /\ accounts[u] \in Account /\ accounts[u] # None
  BY DEF TillTypes, ManagedInv, Gesture
<1>3. done \in Gesture /\ done.written /\ done.user = u
  BY <1>2 DEF Gesture
<1>4. /\ Written(g) \in Account /\ Written(g) # None /\ Written(g).pin = accounts[u].pin
  <2>1. Written(g) \in Account /\ Written(g).pin = accounts[u].pin
    BY <1>2 DEF Written, Account, Gesture
  <2> QED BY <2>1, TillAccessAssumption
<1>5. /\ accounts' = [accounts EXCEPT ![u] = Written(g)]
  BY <1>1, <1>2 DEF Written, TillTypes
<1>6. /\ accounts' \in [Users -> Account \cup {None}] /\ accounts'[u] = Written(g)
      /\ \A v \in Users : v # u => accounts'[v] = accounts[v]
      /\ \A v \in Users : accounts[v] # None <=> accounts'[v] # None
  BY <1>2, <1>4, <1>5 DEF TillTypes
<1> HIDE DEF done, u
<1>7. TillTypes'
  BY <1>1, <1>3, <1>6 DEF TillTypes
<1>8. ScreenInv'
  <2>1. phase # "enroll" /\ (attempt # None => attempt.user \in Users)
    BY DEF ScreenInv, Attempt
  <2> QED BY <1>1, <1>6, <2>1 DEF ScreenInv
<1>9. WholeInv' /\ Enrolled' = Enrolled
  <2>1. accounts'[Boss] # None => accounts'[Boss].pin
    BY <1>2, <1>4, <1>6, TillAccessAssumption DEF WholeInv
  <2> QED BY <1>1, <1>6, <2>1, TillAccessAssumption DEF WholeInv, Enrolled
<1>10. InstallInv'
  <2>1. install # None => install.kind = "recover"
    BY DEF ScreenInv
  <2> QED BY <1>1, <2>1, InstallKept
<1>11. ManagedInv'
  <2>1. \A h \in gestures' : accounts'[h.user] # None
    BY <1>1, <1>2, <1>3, <1>6 DEF ManagedInv, TillTypes, Gesture
  <2>2. ~crossed => \E v \in Users : Owns(accounts'[v])
    BY <1>1, <1>2, <1>6 DEF ManagedInv, OtherActiveOwner, Owns, u
  <2>3. ~crossed => \A h \in gestures' : h = done
    BY <1>1 DEF ManagedInv
  <2> QED BY <1>1, <1>3, <1>6, <2>1, <2>2, <2>3 DEF ManagedInv
<1> QED BY <1>7, <1>8, <1>9, <1>10, <1>11

LEMMA ReloadKeeps == ASSUME CoreInv, NEW g \in gestures, Reload(g) PROVE CoreInv'
<1> USE DEF CoreInv
<1>1. /\ gestures' = gestures \ {g} /\ shown' = accounts
      /\ UNCHANGED <<clock, tables, meta, accounts, remote, phase, session, install, guard, attempt,
                     spent, crashes, wrong, crossed>>
  BY DEF Reload, places, screen, pins, ghosts
<1>2. TillTypes' /\ ScreenInv'
  BY <1>1 DEF TillTypes, ScreenInv
<1>3. WholeInv' /\ InstallInv' /\ Enrolled' = Enrolled
  BY <1>1, WholeKept, InstallKept
<1>4. ManagedInv'
  <2>1. /\ \A v : OtherActiveOwner(v)' = OtherActiveOwner(v)
        /\ \A h : Written(h)' = Written(h)
    BY <1>1 DEF OtherActiveOwner, Written
  <2> QED BY <1>1, <1>3, <2>1 DEF ManagedInv
<1> QED BY <1>2, <1>3, <1>4

\* An account pulled leaves the till open, whole and with the PIN of Boss.
LEMMA PullAccountKeeps ==
  ASSUME CoreInv, NEW u \in Users, NEW to \in Account, PullAccount(u, to)
  PROVE  CoreInv'
<1> USE DEF CoreInv
<1>1. /\ phase = "ready" /\ meta["mode"] = "connected" /\ spent < MaxEvents /\ spent' = spent + 1
      /\ accounts[u] # None => to.pin \/ ~accounts[u].pin
      /\ accounts' = [accounts EXCEPT ![u] = to]
      /\ remote' = IF u = Boss THEN to ELSE remote
      /\ crossed' = (crossed \/ gestures # {} \/ ~HasOwner(accounts'))
      /\ UNCHANGED <<clock, tables, meta, phase, session, install, guard, attempt, shown, gestures,
                     crashes, wrong>>
  BY DEF PullAccount, Spend, places, screen, pins, panel
<1>2. attempt = None /\ install = None /\ meta["register"] # None /\ Enrolled /\ accounts[Boss] # None
  BY <1>1 DEF ScreenInv, WholeInv
<1>3. /\ to # None /\ accounts' \in [Users -> Account \cup {None}] /\ accounts'[u] = to
      /\ \A v \in Users : v # u => accounts'[v] = accounts[v]
      /\ \A v \in Users : accounts[v] # None => accounts'[v] # None
  BY <1>1, TillAccessAssumption DEF TillTypes
<1>4. TillTypes'
  <2>1. spent' \in Nat /\ clock <= spent' /\ spent' <= MaxEvents /\ remote' \in Account
    BY <1>1, TillAccessAssumption DEF TillTypes
  <2>2. crossed' \in BOOLEAN
    BY <1>1
  <2> QED BY <1>1, <1>3, <2>1, <2>2 DEF TillTypes
<1>5. ScreenInv'
  BY <1>1, <1>2 DEF ScreenInv
<1>6. WholeInv' /\ Enrolled' = Enrolled
  BY <1>1, <1>2, <1>3, TillAccessAssumption DEF WholeInv, Enrolled
<1>7. InstallInv'
  BY <1>1, <1>2 DEF InstallInv
<1>8. ManagedInv'
  <2>1. \A g \in gestures : g.user \in Users /\ accounts'[g.user] # None
    BY <1>3 DEF ManagedInv, TillTypes, Gesture
  <2>2. ~crossed' => gestures = {} /\ \E v \in Users : Owns(accounts'[v])
    BY <1>1 DEF HasOwner, Owns
  <2> QED BY <1>1, <1>2, <1>3, <2>1, <2>2 DEF ManagedInv
<1> QED BY <1>4, <1>5, <1>6, <1>7, <1>8

LEMMA CoreSteps == ASSUME CoreInv, [TillNext]_tillVars PROVE CoreInv'
<1>1. CASE UNCHANGED tillVars
  <2>1. UNCHANGED <<clock, tables, meta, accounts, remote, phase, session, install, guard, attempt,
                    shown, gestures, spent, crashes, wrong, crossed>>
    BY <1>1 DEF tillVars, places, screen, pins, panel, ghosts
  <2>2. TillTypes' /\ ScreenInv'
    BY <2>1 DEF CoreInv, TillTypes, ScreenInv
  <2>3. WholeInv' /\ ManagedInv' /\ InstallInv'
    BY <2>1, WholeKept, ManagedKept, InstallKept
  <2> QED BY <2>2, <2>3 DEF CoreInv
<1>2. CASE TillNext
  BY <1>2, InstallKeeps, ShowLockScreenKeeps, BeginKeeps, InstalledKeeps, PinKeeps, RightPinKeeps,
     SignOutKeeps, StopKeeps, TickKeeps, PushBossKeeps, CreateUserKeeps, SetPinKeeps,
     CheckChangeKeeps, WriteChangeKeeps, ReloadKeeps, PullAccountKeeps DEF TillNext, Kinds
<1> QED BY <1>1, <1>2

LEMMA CoreStarts == TillInit => CoreInv
<1> SUFFICES ASSUME TillInit PROVE CoreInv
  OBVIOUS
<1> USE TillAccessAssumption
<1>1. /\ clock = 0 /\ tables = [k \in Keys |-> <<>>] /\ accounts = [u \in Users |-> None]
      /\ meta = [k \in Keys \cup {"mode"} |-> None]
      /\ remote = [role |-> "owner", active |-> TRUE, pin |-> FALSE]
      /\ phase = "loading" /\ session = None /\ install = None
      /\ guard = [u \in Users |-> Free] /\ attempt = None
      /\ shown = accounts /\ gestures = {} /\ spent = 0 /\ crashes = 0
      /\ wrong = [u \in Users |-> [t \in Ticks |-> 0]] /\ crossed = FALSE
  BY DEF TillInit
<1>2. <<>> \in Seq(Identifier) /\ Free \in Lock /\ remote \in Account
  BY <1>1 DEF Free, Lock, Account
<1>3. TillTypes
  <2>1. /\ tables \in [Keys -> Seq(Identifier)]
        /\ accounts \in [Users -> Account \cup {None}] /\ shown \in [Users -> Account \cup {None}]
        /\ guard \in [Users -> Lock] /\ wrong \in [Users -> [Ticks -> Nat]]
        /\ DOMAIN meta = Keys \cup {"mode"} /\ \A k \in Keys : meta[k] = None
        /\ meta["mode"] = None
    BY <1>1, <1>2
  <2>2. /\ clock \in Nat /\ spent \in Nat /\ clock <= spent /\ spent <= MaxEvents /\ crashes \in Nat
    BY <1>1
  <2>3. /\ phase \in {"loading", "enroll", "locked", "ready"} /\ session \in Session \cup {None}
        /\ gestures \in SUBSET Gesture /\ crossed \in BOOLEAN
    BY <1>1
  <2> QED BY <1>2, <2>1, <2>2, <2>3 DEF TillTypes
<1>4. meta["register"] = None /\ ~Enrolled
  BY <1>1 DEF Keys, Enrolled
<1>5. ScreenInv /\ WholeInv /\ InstallInv /\ ManagedInv
  BY <1>1, <1>4 DEF ScreenInv, WholeInv, InstallInv, ManagedInv
<1> QED BY <1>3, <1>5 DEF CoreInv

\* The wrong PINs of one user are counted by a clock that only their own sign-ins touch.
LEMMA TicksAreFinite ==
  /\ IsFiniteSet(Ticks) /\ Ticks \subseteq Nat
  /\ \A b \in Int : IsFiniteSet(Since(b))
  /\ \A t \in Ticks : IsFiniteSet({s \in Ticks : s >= t /\ s < t + LockDuration})
<1>1. IsFiniteSet(Ticks) /\ Ticks \subseteq Nat
  BY TillAccessAssumption, FS_Interval DEF Ticks
<1> QED BY <1>1, FS_Subset DEF Since

\* Nothing about the PINs has changed.
LEMMA PinKept ==
  ASSUME PinInv, UNCHANGED <<clock, guard, attempt, crashes, wrong>>
  PROVE  PinInv'
<1>1. \A u, b : Counted(u, b)' = Counted(u, b)
  BY DEF Counted, Pending
<1> QED BY <1>1 DEF PinInv, PinAttemptsBounded

LEMMA TickCounts ==
  ASSUME CoreInv, PinInv, Tick
  PROVE  PinInv'
<1>1. clock' = clock + 1 /\ clock \in Nat /\ UNCHANGED <<guard, attempt, crashes, wrong>>
  BY DEF Tick, pins, ghosts, CoreInv, TillTypes
<1>2. \A u \in Users, b \in 0..(MaxEvents + LockDuration) : Counted(u, b) => Counted(u, b)'
  BY <1>1 DEF Counted, Pending
<1>3. Ticks \subseteq Nat
  BY TicksAreFinite
<1> QED BY <1>1, <1>2, <1>3 DEF PinInv, PinAttemptsBounded

LEMMA SubmitPinCounts ==
  ASSUME CoreInv, PinInv, NEW v \in Users, NEW right \in BOOLEAN, SubmitPin(v, right)
  PROVE  PinInv'
<1>1. /\ attempt = None /\ guard[v].until <= clock
      /\ attempt' = [user |-> v, right |-> right, guard |-> guard[v], checked |-> FALSE]
      /\ UNCHANGED <<clock, guard, crashes, wrong>>
  BY DEF SubmitPin, ghosts
<1>2. attempt'.user = v /\ ~attempt'.checked
  BY <1>1
<1>3. ASSUME NEW u \in Users, NEW b \in 0..(MaxEvents + LockDuration), Counted(u, b)
      PROVE  Counted(u, b)'
  <2>1. Pending(u) = 0 /\ Pending(u)' = 0
    BY <1>1, <1>2 DEF Pending
  <2>2. b <= clock \/ (guard[u].until = b /\ u # v)
    BY <1>1, <1>3, TillAccessAssumption DEF Counted, CoreInv, TillTypes
  <2> QED BY <1>1, <1>2, <1>3, <2>1, <2>2 DEF Counted
<1> QED BY <1>1, <1>2, <1>3 DEF PinInv, PinAttemptsBounded

\* What is counted of a stretch and of what comes since b are numbers.
LEMMA SumsAre ==
  ASSUME CoreInv, NEW u \in Users
  PROVE  /\ wrong[u] \in [Ticks -> Nat]
         /\ \A S \in SUBSET Ticks : IsFiniteSet(S) /\ SumFunctionOnSet(wrong[u], S) \in Int
<1>1. wrong[u] \in [Ticks -> Nat]
  BY DEF CoreInv, TillTypes
<1>2. \A S \in SUBSET Ticks : IsFiniteSet(S)
  BY TicksAreFinite, FS_Subset
<1>3. \A S \in SUBSET Ticks : \A s \in S : wrong[u][s] \in Int
  BY <1>1
<1> QED BY <1>1, <1>2, <1>3, SumType

LEMMA RightChecked ==
  ASSUME CoreInv, CoreInv', PinInv, VerifyPin, attempt.right
  PROVE  PinInv'
<1> DEFINE v == attempt.user
<1>1. /\ attempt # None /\ ~attempt.checked
      /\ attempt' = [attempt EXCEPT !.checked = TRUE]
      /\ wrong' = [wrong EXCEPT ![v] = [t \in Ticks |-> 0]]
      /\ UNCHANGED <<clock, guard, crashes>>
  BY DEF VerifyPin
<1>2. attempt \in Attempt /\ v \in Users
  BY <1>1 DEF CoreInv, ScreenInv, Attempt
<1>3. attempt' # None /\ attempt'.user = v /\ attempt'.right /\ attempt'.checked
  <2>1. attempt'.user = v /\ attempt'.right /\ attempt'.checked /\ attempt' \in Attempt
    BY <1>1, <1>2 DEF Attempt
  <2>2. attempt' # None
    BY <2>1, TillAccessAssumption
  <2> QED BY <2>1, <2>2
<1>4. wrong'[v] = [t \in Ticks |-> 0] /\ \A u \in Users : u # v => wrong'[u] = wrong[u]
  BY <1>1, <1>2 DEF CoreInv, TillTypes
<1> HIDE DEF v
<1>5. \A S \in SUBSET Ticks : SumFunctionOnSet(wrong'[v], S) = 0
  <2> SUFFICES ASSUME NEW S \in SUBSET Ticks PROVE SumFunctionOnSet(wrong'[v], S) = 0
    OBVIOUS
  <2>1. IsFiniteSet(S) /\ \A s \in S : wrong'[v][s] = 0
    BY <1>4, TicksAreFinite, FS_Subset
  <2> QED BY <2>1, SumZeros
<1>6. /\ \A u \in Users : guard[u].failed \in Nat /\ Pending(u)' = IF u = v THEN 0 ELSE Pending(u)
      /\ crashes \in Nat
  <2>1. \A u \in Users : guard[u].failed \in Nat
    BY DEF CoreInv, TillTypes, Lock
  <2>2. \A u \in Users : Pending(u)' = IF u = v THEN 0 ELSE Pending(u)
    BY <1>3, <1>1 DEF Pending, v
  <2> QED BY <2>1, <2>2 DEF CoreInv, TillTypes
<1>7. ASSUME NEW u \in Users, NEW b \in 0..(MaxEvents + LockDuration), Counted(u, b)
      PROVE  Counted(u, b)'
  <2>1. CASE u # v
    BY <1>1, <1>3, <1>4, <1>6, <1>7, <2>1 DEF Counted, v
  <2>2. CASE u = v
    <3>1. b <= clock
      BY <1>1, <1>7, <2>2 DEF Counted, v
    <3>2. SumFunctionOnSet(wrong'[v], Since(b)) = 0
      BY <1>5 DEF Since
    <3>3. 0 <= guard[v].failed + 0 + crashes
      BY <1>6, <2>2
    <3>4. \A s \in Ticks : wrong'[v][s] = 0
      BY <1>4
    <3> QED BY <1>1, <1>6, <2>2, <3>1, <3>2, <3>3, <3>4 DEF Counted
  <2> QED BY <2>1, <2>2
<1>8. PinAttemptsBounded'
  <2> SUFFICES ASSUME NEW u \in Users, NEW t \in Ticks
               PROVE  SumFunctionOnSet(wrong'[u], {s \in Ticks : s >= t /\ s < t + LockDuration})
                        <= MaxPinAttempts + crashes
    BY <1>1 DEF PinAttemptsBounded
  <2> DEFINE stretch == {s \in Ticks : s >= t /\ s < t + LockDuration}
  <2>1. stretch \in SUBSET Ticks /\ SumFunctionOnSet(wrong[u], stretch) <= MaxPinAttempts + crashes
    BY DEF PinInv, PinAttemptsBounded
  <2> HIDE DEF stretch
  <2>2. 0 <= MaxPinAttempts + crashes
    BY <1>6, TillAccessAssumption
  <2>3. SumFunctionOnSet(wrong'[u], stretch) <= MaxPinAttempts + crashes
    BY <1>4, <1>5, <2>1, <2>2
  <2> QED BY <2>3 DEF stretch
<1> QED BY <1>1, <1>3, <1>4, <1>7, <1>8 DEF PinInv

LEMMA WrongChecked ==
  ASSUME CoreInv, CoreInv', PinInv, VerifyPin, ~attempt.right
  PROVE  PinInv'
<1> DEFINE v == attempt.user
<1>1. /\ attempt # None /\ ~attempt.checked
      /\ attempt' = [attempt EXCEPT !.checked = TRUE]
      /\ wrong' = [wrong EXCEPT ![v][clock] = @ + 1]
      /\ UNCHANGED <<clock, guard, crashes>>
  BY DEF VerifyPin
<1>2. attempt \in Attempt /\ v \in Users /\ clock \in Ticks /\ clock \in Nat
  BY <1>1, TillAccessAssumption DEF CoreInv, ScreenInv, TillTypes, Attempt, Ticks
<1>3. attempt' # None /\ attempt'.user = v /\ ~attempt'.right /\ attempt'.checked
  <2>1. attempt'.user = v /\ ~attempt'.right /\ attempt'.checked /\ attempt' \in Attempt
    BY <1>1, <1>2 DEF Attempt
  <2>2. attempt' # None
    BY <2>1, TillAccessAssumption
  <2> QED BY <2>1, <2>2
<1>4. /\ wrong'[v] = [wrong[v] EXCEPT ![clock] = @ + 1]
      /\ \A u \in Users : u # v => wrong'[u] = wrong[u]
  BY <1>1, <1>2 DEF CoreInv, TillTypes
<1>5. /\ wrong[v] \in [Ticks -> Nat] /\ wrong'[v] \in [Ticks -> Nat]
      /\ wrong'[v][clock] = wrong[v][clock] + 1
      /\ \A s \in Ticks : s # clock => wrong'[v][s] = wrong[v][s]
  BY <1>2, <1>4, SumsAre
<1>6. /\ \A u \in Users : guard[u].failed \in 0..(MaxPinAttempts - 1)
      /\ \A u \in Users : Pending(u)' = IF u = v THEN 1 ELSE Pending(u)
      /\ Pending(v) = 0 /\ crashes \in Nat /\ MaxPinAttempts \in Nat \ {0}
  <2>1. \A u \in Users : guard[u].failed \in 0..(MaxPinAttempts - 1)
    BY DEF CoreInv, TillTypes, Lock
  <2>2. \A u \in Users : Pending(u)' = IF u = v THEN 1 ELSE Pending(u)
    BY <1>1, <1>3 DEF Pending
  <2>3. Pending(v) = 0
    BY <1>1 DEF Pending
  <2> QED BY <2>1, <2>2, <2>3, TillAccessAssumption DEF CoreInv, TillTypes
<1> HIDE DEF v
\* One more in a set that holds the hour, none in another.
<1>7. \A S \in SUBSET Ticks :
        SumFunctionOnSet(wrong'[v], S) =
          SumFunctionOnSet(wrong[v], S) + (IF clock \in S THEN 1 ELSE 0)
  <2> SUFFICES ASSUME NEW S \in SUBSET Ticks
               PROVE  SumFunctionOnSet(wrong'[v], S) =
                        SumFunctionOnSet(wrong[v], S) + (IF clock \in S THEN 1 ELSE 0)
    OBVIOUS
  <2>1. /\ IsFiniteSet(S) /\ SumFunctionOnSet(wrong[v], S) \in Int
        /\ \A s \in S : wrong[v][s] \in Int /\ wrong'[v][s] \in Int
    BY <1>2, <1>5, SumsAre
  <2>2. CASE clock \in S
    <3>1. \A s \in S : s # clock => wrong'[v][s] = wrong[v][s]
      BY <1>5
    <3>2. SumFunctionOnSet(wrong'[v], S) =
            SumFunctionOnSet(wrong[v], S) + wrong'[v][clock] - wrong[v][clock]
      BY <2>1, <2>2, <3>1, SumPut
    <3>3. wrong[v][clock] \in Nat
      BY <1>2, <1>5
    <3> QED BY <1>5, <2>1, <2>2, <3>2, <3>3
  <2>3. CASE clock \notin S
    <3>1. \A s \in S : wrong[v][s] \in Int /\ wrong'[v][s] = wrong[v][s]
      BY <1>5, <2>1, <2>3
    <3>2. SumFunctionOnSet(wrong[v], S) = SumFunctionOnSet(wrong'[v], S)
      BY <2>1, <3>1, SumSame
    <3> QED BY <2>1, <2>3, <3>2
  <2> QED BY <2>2, <2>3
<1>8. ASSUME NEW u \in Users, NEW b \in 0..(MaxEvents + LockDuration), Counted(u, b)
      PROVE  Counted(u, b)'
  <2>1. CASE u # v
    BY <1>1, <1>3, <1>4, <1>6, <1>8, <2>1 DEF Counted, v
  <2>2. CASE u = v
    <3>1. b <= clock /\ b \in Int
      BY <1>1, <1>8, <2>2 DEF Counted, v
    <3>2. /\ Since(b) \in SUBSET Ticks /\ clock \in Since(b)
          /\ SumFunctionOnSet(wrong[v], Since(b)) \in Int
      BY <1>2, <3>1, SumsAre DEF Since
    <3>3. SumFunctionOnSet(wrong'[v], Since(b)) = SumFunctionOnSet(wrong[v], Since(b)) + 1
      BY <1>7, <3>2
    <3>4. SumFunctionOnSet(wrong[v], Since(b)) <= guard[v].failed + 0 + crashes
      BY <1>6, <1>8, <2>2 DEF Counted
    <3>5. guard[v].failed \in Int /\ crashes \in Int
      BY <1>2, <1>6
    <3>6. SumFunctionOnSet(wrong'[v], Since(b)) <= guard[v].failed + 1 + crashes
      BY <3>2, <3>3, <3>4, <3>5
    <3>7. \A s \in Ticks : s > b - LockDuration /\ s < b => wrong'[v][s] = 0
      <4>1. \A s \in Ticks : s < b => s # clock
        BY <1>2, <3>1, TicksAreFinite
      <4> QED BY <1>5, <1>8, <2>2, <4>1 DEF Counted
    <3>8. Pending(u)' = 1
      BY <1>2, <1>6, <2>2
    <3>9. SumFunctionOnSet(wrong'[u], Since(b)) <= guard'[u].failed + Pending(u)' + crashes'
      <4>1. SumFunctionOnSet(wrong'[u], Since(b)) <= guard'[u].failed + 1 + crashes'
        BY <1>1, <2>2, <3>6
      <4> QED BY <3>8, <4>1
    <3> QED BY <1>1, <2>2, <3>1, <3>7, <3>9 DEF Counted
  <2> QED BY <2>1, <2>2
\* A stretch that holds the hour has nothing before b that counts.
<1>9. PinAttemptsBounded'
  <2> SUFFICES ASSUME NEW u \in Users, NEW t \in Ticks
               PROVE  SumFunctionOnSet(wrong'[u], {s \in Ticks : s >= t /\ s < t + LockDuration})
                        <= MaxPinAttempts + crashes
    BY <1>1 DEF PinAttemptsBounded
  <2> DEFINE stretch == {s \in Ticks : s >= t /\ s < t + LockDuration}
  <2>1. stretch \in SUBSET Ticks /\ SumFunctionOnSet(wrong[u], stretch) <= MaxPinAttempts + crashes
    BY DEF PinInv, PinAttemptsBounded
  <2>2. \A s \in stretch : s \in Nat /\ t \in Nat /\ s >= t /\ s < t + LockDuration
    BY TicksAreFinite
  <2>3. stretch \in SUBSET Ticks
    OBVIOUS
  <2> HIDE DEF stretch
  <2>4. CASE u # v
    BY <1>4, <2>1, <2>4 DEF stretch
  <2>5. CASE u = v /\ clock \notin stretch
    <3>1. SumFunctionOnSet(wrong'[v], stretch) = SumFunctionOnSet(wrong[v], stretch) + 0
      BY <1>7, <2>3, <2>5
    <3>2. SumFunctionOnSet(wrong[v], stretch) \in Int
      BY <1>2, <2>3, SumsAre
    <3> QED BY <2>1, <2>5, <3>1, <3>2 DEF stretch
  <2>6. CASE u = v /\ clock \in stretch
    <3>1. PICK b \in 0..(MaxEvents + LockDuration) : Counted(v, b)
      BY <1>2 DEF PinInv
    <3>2. b <= clock /\ b \in Int
      BY <1>1, <3>1 DEF Counted, v
    <3>3. IsFiniteSet(stretch) /\ IsFiniteSet(Since(b)) /\ Since(b) \in SUBSET Ticks
      <4>1. IsFiniteSet(stretch)
        BY <2>3, TicksAreFinite, FS_Subset
      <4>2. IsFiniteSet(Since(b))
        BY <3>2, TicksAreFinite
      <4> QED BY <4>1, <4>2 DEF Since
    <3>4. \A s \in stretch \ Since(b) : wrong[v][s] = 0 /\ s # clock
      <4>1. ASSUME NEW s \in stretch \ Since(b) PROVE s < b /\ s > b - LockDuration /\ s # clock
        <5>1. s < b
          BY <2>2, <2>3, <3>2 DEF Since
        <5>2. clock < t + LockDuration /\ s >= t /\ s \in Nat /\ t \in Nat
          BY <2>2, <2>6
        <5>3. LockDuration \in Nat
          BY TillAccessAssumption
        <5> QED BY <1>2, <3>2, <5>1, <5>2, <5>3
      <4> QED BY <2>3, <3>1, <4>1 DEF Counted
    <3>5. \A s \in stretch \ Since(b) : wrong'[v][s] = 0
      BY <1>5, <2>3, <3>4
    <3>6. \A s \in stretch \cup Since(b) : wrong'[v][s] \in Nat
      BY <1>5, <2>3, <3>3
    <3>7. SumFunctionOnSet(wrong'[v], stretch) <= SumFunctionOnSet(wrong'[v], Since(b))
      BY <3>3, <3>5, <3>6, SumWithin
    <3>8. clock \in Since(b)
      BY <1>2, <3>2 DEF Since
    <3>9. SumFunctionOnSet(wrong'[v], Since(b)) = SumFunctionOnSet(wrong[v], Since(b)) + 1
      BY <1>7, <3>3, <3>8
    <3>10. SumFunctionOnSet(wrong[v], Since(b)) <= guard[v].failed + 0 + crashes
      BY <1>6, <3>1 DEF Counted
    <3>11. /\ SumFunctionOnSet(wrong[v], Since(b)) \in Int
           /\ SumFunctionOnSet(wrong'[v], stretch) \in Int
      <4>1. \A s \in stretch : wrong'[v][s] \in Int
        BY <3>6
      <4> QED BY <1>2, <3>3, <4>1, SumsAre, SumType
    <3>12. guard[v].failed \in 0..(MaxPinAttempts - 1)
      BY <1>2, <1>6
    <3>13. SumFunctionOnSet(wrong'[v], stretch) <= MaxPinAttempts + crashes
      BY <1>6, <3>7, <3>9, <3>10, <3>11, <3>12
    <3> QED BY <2>6, <3>13 DEF stretch
  <2> QED BY <2>4, <2>5, <2>6
<1>10. \A u \in Users, s \in Ticks : s > clock => wrong'[u][s] = 0
  <2>1. \A s \in Ticks : s > clock => s # clock
    BY <1>2, TicksAreFinite
  <2> QED BY <1>4, <1>5, <2>1 DEF PinInv
<1> QED BY <1>1, <1>3, <1>8, <1>9, <1>10 DEF PinInv

LEMMA WrongPinCounts ==
  ASSUME CoreInv, PinInv, WrongPin
  PROVE  PinInv'
<1> DEFINE v == attempt.user
<1>1. /\ attempt # None /\ attempt.checked /\ ~attempt.right
      /\ guard' = [guard EXCEPT ![v] = AfterFailure(attempt.guard)]
      /\ attempt' = None /\ UNCHANGED <<clock, crashes, wrong>>
  BY DEF WrongPin, ghosts
<1>2. v \in Users /\ attempt.guard = guard[v] /\ clock \in Nat /\ clock <= MaxEvents /\ crashes \in Nat
  BY <1>1, TillAccessAssumption DEF CoreInv, ScreenInv, Attempt, TillTypes
<1>3. guard'[v] = AfterFailure(guard[v]) /\ \A u \in Users : u # v => guard'[u] = guard[u]
  BY <1>1, <1>2 DEF CoreInv, TillTypes
<1>4. /\ \A u \in Users : Pending(u)' = 0
      /\ \A u \in Users : Pending(u) = IF u = v THEN 1 ELSE 0
  BY <1>1 DEF Pending
<1>5. guard[v].failed \in Nat
  BY <1>2 DEF CoreInv, TillTypes, Lock
<1> HIDE DEF v
<1>6. ASSUME NEW u \in Users
      PROVE  \E b \in 0..(MaxEvents + LockDuration) : Counted(u, b)'
  <2>1. PICK b \in 0..(MaxEvents + LockDuration) : Counted(u, b)
    BY DEF PinInv
  <2>2. CASE u # v
    <3>1. Counted(u, b)'
      BY <1>1, <1>3, <1>4, <2>1, <2>2 DEF Counted
    <3> QED BY <3>1
  <2>3. CASE u = v /\ guard[v].failed + 1 < MaxPinAttempts
    <3>1. guard'[v] = [failed |-> guard[v].failed + 1, until |-> 0]
      BY <1>3, <1>5, <2>3, TillAccessAssumption DEF AfterFailure
    <3>2. guard'[v].failed = guard[v].failed + 1
      BY <3>1
    <3>3. b <= clock
      BY <1>1, <2>1, <2>3 DEF Counted, v
    <3>4. SumFunctionOnSet(wrong[v], Since(b)) <= guard[v].failed + 1 + crashes
      BY <1>4, <2>1, <2>3 DEF Counted
    <3>5. guard[v].failed + 1 + crashes = guard'[v].failed + 0 + crashes
      BY <1>2, <1>5, <3>2
    <3>6. Counted(u, b)'
      BY <1>1, <1>4, <2>1, <2>3, <3>3, <3>4, <3>5 DEF Counted
    <3> QED BY <3>6
  <2>4. CASE u = v /\ ~(guard[v].failed + 1 < MaxPinAttempts)
    <3> DEFINE c == clock + LockDuration
    <3>1. guard'[v] = [failed |-> 0, until |-> c]
      BY <1>3, <1>5, <2>4, TillAccessAssumption DEF AfterFailure
    <3>2. guard'[v].failed = 0 /\ guard'[v].until = c
      BY <3>1
    <3>3. c \in 0..(MaxEvents + LockDuration) /\ c > clock /\ c - LockDuration = clock
      BY <1>2, TillAccessAssumption
    <3>4. \A s \in Ticks : s > clock => wrong[v][s] = 0
      BY <1>2 DEF PinInv
    <3>5. \A s \in Since(c) : s \in Ticks /\ s > clock
      <4>1. \A s \in Since(c) : s \in Ticks /\ s \in Nat /\ s >= c
        BY TicksAreFinite DEF Since
      <4> HIDE DEF c
      <4> QED BY <1>2, <3>3, <4>1
    <3> HIDE DEF c
    <3>6. SumFunctionOnSet(wrong[v], Since(c)) = 0
      <4>1. IsFiniteSet(Since(c)) /\ \A s \in Since(c) : wrong[v][s] = 0
        BY <3>3, <3>4, <3>5, TicksAreFinite
      <4> QED BY <4>1, SumZeros
    <3>7. 0 <= guard'[v].failed + 0 + crashes
      BY <1>2, <3>2
    <3>8. SumFunctionOnSet(wrong'[u], Since(c)) <= guard'[u].failed + Pending(u)' + crashes'
      BY <1>1, <1>4, <2>4, <3>6, <3>7
    <3>10. \A s \in Ticks : s > c - LockDuration /\ s < c => wrong'[u][s] = 0
      BY <1>1, <2>4, <3>3, <3>4
    <3>11. PICK e \in 0..(MaxEvents + LockDuration) : e = c
      BY <3>3
    <3>12. Counted(u, e)'
      BY <1>1, <2>4, <3>2, <3>8, <3>10, <3>11 DEF Counted
    <3> QED BY <3>12
  <2> QED BY <2>2, <2>3, <2>4
<1> QED BY <1>1, <1>6 DEF PinInv, PinAttemptsBounded

LEMMA RightPinCounts ==
  ASSUME CoreInv, PinInv, RightPin
  PROVE  PinInv'
<1> DEFINE v == attempt.user
<1>1. /\ attempt # None /\ attempt.checked /\ attempt.right
      /\ guard' = [guard EXCEPT ![v] = Free]
      /\ attempt' = None /\ UNCHANGED <<clock, crashes, wrong>>
  BY DEF RightPin, ghosts
<1>2. v \in Users /\ crashes \in Nat
  BY <1>1 DEF CoreInv, ScreenInv, Attempt, TillTypes
<1>3. guard'[v] = Free /\ \A u \in Users : u # v => guard'[u] = guard[u]
  BY <1>1, <1>2 DEF CoreInv, TillTypes
<1>4. \A u \in Users : Pending(u)' = 0 /\ Pending(u) = 0
  BY <1>1 DEF Pending
<1>5. \A s \in Ticks : wrong[v][s] = 0
  BY <1>1 DEF PinInv
<1> HIDE DEF v
<1>6. ASSUME NEW u \in Users, NEW b \in 0..(MaxEvents + LockDuration), Counted(u, b)
      PROVE  Counted(u, b)'
  <2>1. CASE u # v
    BY <1>1, <1>3, <1>4, <1>6, <2>1 DEF Counted
  <2>2. CASE u = v
    <3>1. b <= clock
      BY <1>1, <1>6, <2>2 DEF Counted, v
    <3>2. SumFunctionOnSet(wrong[v], Since(b)) = 0
      <4>1. IsFiniteSet(Since(b)) /\ \A s \in Since(b) : wrong[v][s] = 0
        BY <1>5, TicksAreFinite DEF Since
      <4> QED BY <4>1, SumZeros
    <3>3. 0 <= guard'[v].failed + 0 + crashes
      BY <1>2, <1>3 DEF Free
    <3> QED BY <1>1, <1>4, <1>5, <2>2, <3>1, <3>2, <3>3 DEF Counted
  <2> QED BY <2>1, <2>2
<1> QED BY <1>1, <1>6 DEF PinInv, PinAttemptsBounded

LEMMA StopCounts ==
  ASSUME CoreInv, PinInv, Stop
  PROVE  PinInv'
<1>1. attempt' = None /\ crashes' = crashes + 1 /\ UNCHANGED <<clock, guard, wrong>>
  BY DEF Stop
<1>2. crashes \in Nat
  BY DEF CoreInv, TillTypes
<1>3. ASSUME NEW u \in Users, NEW b \in 0..(MaxEvents + LockDuration), Counted(u, b)
      PROVE  Counted(u, b)'
  <2>1. Pending(u)' = 0 /\ Pending(u) \in {0, 1}
    BY <1>1 DEF Pending
  <2>2. guard[u].failed \in Nat /\ SumFunctionOnSet(wrong[u], Since(b)) \in Int
    BY SumsAre DEF CoreInv, TillTypes, Lock, Since
  <2>3. SumFunctionOnSet(wrong[u], Since(b)) <= guard[u].failed + Pending(u) + crashes
    BY <1>3 DEF Counted
  <2>4. SumFunctionOnSet(wrong[u], Since(b)) <= guard[u].failed + 0 + (crashes + 1)
    BY <1>2, <2>1, <2>2, <2>3
  <2> QED BY <1>1, <1>3, <2>1, <2>4 DEF Counted
<1>4. PinAttemptsBounded'
  <2> SUFFICES ASSUME NEW u \in Users, NEW t \in Ticks
               PROVE  SumFunctionOnSet(wrong[u], {s \in Ticks : s >= t /\ s < t + LockDuration})
                        <= MaxPinAttempts + (crashes + 1)
    BY <1>1 DEF PinAttemptsBounded
  <2> DEFINE stretch == {s \in Ticks : s >= t /\ s < t + LockDuration}
  <2>1. SumFunctionOnSet(wrong[u], stretch) <= MaxPinAttempts + crashes
    BY DEF PinInv, PinAttemptsBounded
  <2>2. SumFunctionOnSet(wrong[u], stretch) \in Int
    BY SumsAre
  <2> HIDE DEF stretch
  <2>3. SumFunctionOnSet(wrong[u], stretch) <= MaxPinAttempts + (crashes + 1)
    BY <1>2, <2>1, <2>2, TillAccessAssumption
  <2> QED BY <2>3 DEF stretch
<1> QED BY <1>1, <1>3, <1>4 DEF PinInv

LEMMA PinSteps == ASSUME CoreInv, CoreInv', PinInv, [TillNext]_tillVars PROVE PinInv'
<1>1. CASE UNCHANGED <<clock, guard, attempt, crashes, wrong>>
  BY <1>1, PinKept
<1>2. CASE \/ UNCHANGED tillVars \/ ShowLockScreen \/ Install \/ Installed \/ Unreachable
           \/ \E kind \in {"alone", "server", "recover"} : Begin(kind)
           \/ SignOut \/ PushBoss
  BY <1>1, <1>2 DEF tillVars, pins, ghosts, ShowLockScreen, Install, Installed, Unreachable, Begin,
                    SignOut, PushBoss
<1>3. CASE \/ \E u \in Users : \/ SetPin(u)
                               \/ \E role \in {"owner", "cashier"} : CreateUser(u, role)
                               \/ \E to \in Account : CheckChange(u, to) \/ PullAccount(u, to)
           \/ \E g \in gestures : WriteChange(g) \/ Reload(g)
  BY <1>1, <1>3 DEF pins, ghosts, SetPin, CreateUser, CheckChange, WriteChange, Reload,
                    PullAccount
<1>4. CASE VerifyPin
  BY <1>4, RightChecked, WrongChecked
<1>5. CASE \/ \E u \in Users, right \in BOOLEAN : SubmitPin(u, right)
           \/ WrongPin \/ RightPin \/ Stop \/ Tick
  BY <1>5, SubmitPinCounts, WrongPinCounts, RightPinCounts, StopCounts, TickCounts
<1> QED BY <1>2, <1>3, <1>4, <1>5 DEF TillNext

LEMMA PinStarts == TillInit => PinInv
<1> SUFFICES ASSUME TillInit PROVE PinInv
  OBVIOUS
<1>1. /\ clock = 0 /\ attempt = None /\ crashes = 0
      /\ guard = [u \in Users |-> Free] /\ wrong = [u \in Users |-> [t \in Ticks |-> 0]]
  BY DEF TillInit
<1>2. \A u \in Users : \A S \in SUBSET Ticks : SumFunctionOnSet(wrong[u], S) = 0
  <2> SUFFICES ASSUME NEW u \in Users, NEW S \in SUBSET Ticks PROVE SumFunctionOnSet(wrong[u], S) = 0
    OBVIOUS
  <2>1. IsFiniteSet(S) /\ \A s \in S : wrong[u][s] = 0
    BY <1>1, TicksAreFinite, FS_Subset
  <2> QED BY <2>1, SumZeros
<1>3. \A u \in Users : Counted(u, 0)
  <2>1. \A u \in Users : SumFunctionOnSet(wrong[u], Since(0)) = 0
    BY <1>2 DEF Since
  <2>2. \A u \in Users : guard[u].failed = 0 /\ Pending(u) = 0
    BY <1>1 DEF Free, Pending
  <2> QED BY <1>1, <2>1, <2>2 DEF Counted
<1>4. 0 \in 0..(MaxEvents + LockDuration)
  BY TillAccessAssumption
<1>5. PinAttemptsBounded
  <2>1. 0 <= MaxPinAttempts + crashes
    BY <1>1, TillAccessAssumption
  <2> QED BY <1>2, <2>1 DEF PinAttemptsBounded
<1> QED BY <1>1, <1>3, <1>4, <1>5 DEF PinInv

\* What the invariant says of the till.
LEMMA TillIs ==
  ASSUME CoreInv, PinInv
  PROVE  TillSound /\ OwnerRemains
<1>1. TillTypeOK
  BY TillAccessAssumption DEF CoreInv, TillTypes, ScreenInv, TillTypeOK, Ticks, Lock
<1>2. EnrolledIsComplete
  <2> SUFFICES ASSUME Enrolled PROVE EnrolledIsComplete
    BY DEF EnrolledIsComplete
  <2>1. \A k \in Keys : meta[k] # None /\ meta[k] \in Range(tables[k]) /\ tables[k] \in Seq(Identifier)
    BY DEF Enrolled, CoreInv, WholeInv, TillTypes
  <2>2. accounts[Boss] # None /\ accounts[Boss].pin
    BY <2>1, TillAccessAssumption DEF CoreInv, WholeInv, Keys
  <2>3. tables["company"] # <<>> /\ tables["company"] \in Seq(Identifier)
    BY <2>1 DEF Keys, Range
  <2>4. Head(tables["company"]) \in Identifier
    BY <2>3
  <2>5. Context # None
    BY <2>1, <2>3, <2>4, TillAccessAssumption DEF Context, Keys
  <2> QED BY <2>1, <2>2, <2>5 DEF EnrolledIsComplete
<1>3. OwnerRemains
  BY DEF CoreInv, ManagedInv, OwnerRemains, HasOwner, Owns
<1> QED BY <1>1, <1>2, <1>3 DEF TillSound, PinInv

----------------------------------------------------------------------------
(* The passwords tried at the server, by requests one at a time.           *)

ThrottleTypeOK ==
  /\ instant \in Instants /\ shared \in BOOLEAN
  /\ counter \in Record \cup {Absent}
  /\ request \in [Requests -> Request \cup {Absent}]
  /\ guesses \in [Instants -> Nat]

\* A wrong password has been verified that the counter does not know of.
Unrecorded == \E r \in Requests : request[r] # Absent /\ request[r].at # "verify"

\* C wrong passwords from i on, as long as the window, at the instant n, with the counter c: those
\* of a window begun before i and what is not recorded, then less than a window and those of
\* the one begun since; then the lock, or the end.
Bounded(n, c, i, C, P) ==
  /\ n < i => C = 0
  /\ i <= n /\ n < i + WindowTicks /\ (c = Absent \/ c.windowStartedAt < i)
       => C <= (IF c = Absent THEN 0 ELSE c.failures) + P
  /\ i <= n /\ n < i + WindowTicks /\ c # Absent /\ c.windowStartedAt >= i
     /\ c.lockedUntil < i + WindowTicks
       => C <= MaxLogins - 1 + c.failures + P
  /\ C <= 2 * MaxLogins - 1

WindowInv(i) == Bounded(instant, counter, i, Guessed(i, i + WindowTicks), IF Unrecorded THEN 1 ELSE 0)

\* As long as requests come one at a time, none is let through a lock, and the counter a failure
\* is added to is the one that is there.
AloneInv ==
  /\ \A r, q \in Requests : request[r] # Absent /\ request[q] # Absent => r = q
  /\ Locked(counter) => \A r \in Requests : request[r] = Absent
  /\ counter # Absent => counter.failures < MaxLogins /\ counter.windowStartedAt <= instant
  /\ \A i \in Instants : i > instant => guesses[i] = 0
  /\ \A r \in Requests : request[r] # Absent /\ request[r].at = "write" =>
       /\ request[r].read = counter /\ request[r].when <= instant
       /\ counter # Absent => counter.windowStartedAt <= request[r].when
       /\ \A i \in Instants : i > request[r].when => guesses[i] = 0

ThrottleInv == ThrottleTypeOK /\ (~shared => AloneInv /\ \A i \in Instants : WindowInv(i))

\* The instants of the stretch from i.
Stretched(i) == {j \in Instants : j >= i /\ j < i + WindowTicks}

\* What a stretch has seen is a number.
LEMMA GuessesAre ==
  ASSUME guesses \in [Instants -> Nat], NEW i \in Instants
  PROVE  /\ Stretched(i) \in SUBSET Instants /\ IsFiniteSet(Stretched(i))
         /\ Guessed(i, i + WindowTicks) = SumFunctionOnSet(guesses, Stretched(i))
         /\ Guessed(i, i + WindowTicks) \in Nat
<1>1. IsFiniteSet(Instants)
  BY FS_Interval, LoginThrottleAssumption DEF Instants
<1>2. Stretched(i) \in SUBSET Instants /\ IsFiniteSet(Stretched(i))
  BY <1>1, FS_Subset DEF Stretched
<1>3. Guessed(i, i + WindowTicks) = SumFunctionOnSet(guesses, Stretched(i))
  BY DEF Guessed, Stretched
<1>4. SumFunctionOnSet(guesses, Stretched(i)) \in Nat
  <2>1. CASE Stretched(i) = {}
    BY <2>1, SumEmpty
  <2>2. CASE Stretched(i) # {}
    <3>1. \A j \in Stretched(i) : guesses[j] \in Nat
      BY <1>2
    <3> QED BY <1>2, <2>2, <3>1, SumTerm
  <2> QED BY <2>1, <2>2
<1> QED BY <1>2, <1>3, <1>4

\* Where nothing was tried from some instant on, a stretch that begins later is empty.
LEMMA NothingGuessed ==
  ASSUME guesses \in [Instants -> Nat], NEW i \in Instants, \A j \in Instants : j >= i => guesses[j] = 0
  PROVE  Guessed(i, i + WindowTicks) = 0
<1>1. IsFiniteSet(Stretched(i)) /\ Guessed(i, i + WindowTicks) = SumFunctionOnSet(guesses, Stretched(i))
  BY GuessesAre
<1>2. \A j \in Stretched(i) : guesses[j] = 0
  BY DEF Stretched
<1> QED BY <1>1, <1>2, SumZeros

\* The guesses of a stretch after one more now.
LEMMA GuessesGrow ==
  ASSUME guesses \in [Instants -> Nat], instant \in Instants,
         guesses' = [guesses EXCEPT ![instant] = @ + 1], NEW i \in Instants
  PROVE  Guessed(i, i + WindowTicks)' = Guessed(i, i + WindowTicks)
                                          + IF i <= instant /\ instant < i + WindowTicks THEN 1 ELSE 0
<1> DEFINE S == Stretched(i)
           g == guesses'
<1>1. /\ S \in SUBSET Instants /\ IsFiniteSet(S)
      /\ Guessed(i, i + WindowTicks) = SumFunctionOnSet(guesses, S)
      /\ Guessed(i, i + WindowTicks) \in Nat
  BY GuessesAre
<1>2. Guessed(i, i + WindowTicks)' = SumFunctionOnSet(g, S)
  BY DEF Guessed, Stretched, Instants
<1>3. g[instant] = guesses[instant] + 1 /\ \A j \in Instants : j # instant => g[j] = guesses[j]
  OBVIOUS
<1>4. \A j \in S : guesses[j] \in Int /\ g[j] \in Int
  BY <1>1
<1>5. instant \in S <=> i <= instant /\ instant < i + WindowTicks
  BY LoginThrottleAssumption DEF Stretched, Instants
<1> HIDE DEF S, g
<1>6. CASE instant \in S
  <2>1. \A j \in S : j # instant => g[j] = guesses[j]
    BY <1>1, <1>3
  <2>2. SumFunctionOnSet(g, S) = SumFunctionOnSet(guesses, S) + g[instant] - guesses[instant]
    BY ONLY <1>1, <1>4, <1>6, <2>1, SumPut
  <2>3. guesses[instant] \in Nat
    OBVIOUS
  <2> QED BY <1>1, <1>2, <1>3, <1>5, <1>6, <2>2, <2>3
<1>7. CASE instant \notin S
  <2>1. \A j \in S : guesses[j] \in Int /\ g[j] = guesses[j]
    BY <1>1, <1>3, <1>4, <1>7
  <2>2. SumFunctionOnSet(guesses, S) = SumFunctionOnSet(g, S)
    BY <1>1, <2>1, SumSame
  <2> QED BY <1>1, <1>2, <1>5, <1>7, <2>2
<1> QED BY <1>6, <1>7

\* Nothing is tried at the start.
LEMMA ThrottleStarts == ThrottleInit => ThrottleInv
<1> SUFFICES ASSUME ThrottleInit PROVE ThrottleInv
  OBVIOUS
<1>1. instant \in Instants /\ instant = 1 /\ counter = Absent /\ guesses \in [Instants -> Nat]
      /\ (\A j \in Instants : guesses[j] = 0) /\ \A r \in Requests : request[r] = Absent
  BY LoginThrottleAssumption DEF ThrottleInit, Instants
<1>2. ThrottleTypeOK
  BY <1>1 DEF ThrottleInit, ThrottleTypeOK
<1>3. AloneInv
  BY <1>1 DEF AloneInv, Locked
<1>4. ASSUME NEW i \in Instants PROVE WindowInv(i)
  <2>1. Guessed(i, i + WindowTicks) = 0
    BY <1>1, NothingGuessed
  <2>2. ~Unrecorded
    BY <1>1 DEF Unrecorded
  <2> QED BY <1>1, <2>1, <2>2, LoginThrottleAssumption DEF WindowInv, Bounded
<1> QED BY <1>2, <1>3, <1>4 DEF ThrottleInv

\* The counter after one more failure.
LEMMA OneMoreFailure ==
  ASSUME NEW c \in Record \cup {Absent}, NEW n \in Nat
  PROVE  /\ RegisterFailure(c, n) \in Record
         /\ RegisterFailure(c, n) # Absent
         /\ RegisterFailure(c, n).failures < MaxLogins
<1> DEFINE d == RegisterFailure(c, n)
<1>1. /\ MaxLogins \in Nat \ {0} /\ WindowTicks \in Nat \ {0} /\ Absent \notin Record
      /\ c # Absent => c.failures \in Nat /\ c.windowStartedAt \in Nat /\ c.lockedUntil \in Nat
  BY LoginThrottleAssumption DEF Record
<1>2. d \in Record /\ d.failures < MaxLogins
  BY <1>1 DEF RegisterFailure, Record
<1> QED BY <1>1, <1>2

\* Every step of a request, and of the clock, keeps the count.
LEMMA ThrottleSteps ==
  ASSUME ThrottleInv, [ThrottleNext]_throttleVars
  PROVE  ThrottleInv'
<1>0. MaxLogins \in Nat \ {0} /\ WindowTicks \in Nat \ {0} /\ LastInstant \in Nat \ {0}
      /\ Absent \notin Record /\ Absent \notin Request
  BY LoginThrottleAssumption
<1>1. /\ ThrottleTypeOK /\ instant \in Instants /\ instant \in Nat /\ shared \in BOOLEAN
      /\ counter \in Record \cup {Absent} /\ guesses \in [Instants -> Nat]
      /\ ~shared => AloneInv /\ \A i \in Instants : WindowInv(i)
  BY <1>0 DEF ThrottleInv, ThrottleTypeOK, Instants
<1>2. \A i \in Instants : i \in Int /\ i >= 1
  BY DEF Instants
<1>3. /\ counter # Absent => counter.failures \in Nat /\ counter.windowStartedAt \in Nat /\ counter.lockedUntil \in Nat
      /\ \A i \in Instants : Guessed(i, i + WindowTicks) \in Nat
  BY <1>1, GuessesAre DEF Record
<1>4. ASSUME NEW r \in Requests, NEW right \in BOOLEAN, Ask(r, right)
      PROVE  ThrottleInv'
  <2> DEFINE new == [right |-> right, at |-> "verify", read |-> Absent, when |-> 0]
  <2>1. new \in Request /\ new.at = "verify"
    BY DEF Request
  <2>2. /\ request[r] = Absent /\ ~Locked(counter) /\ request' = [request EXCEPT ![r] = new]
        /\ shared' = (shared \/ \E q \in Requests \ {r} : request[q] # Absent)
        /\ UNCHANGED <<instant, counter, guesses>>
    BY <1>4 DEF Ask
  <2> HIDE DEF new
  <2>3. ThrottleTypeOK'
    BY <1>1, <2>1, <2>2 DEF ThrottleTypeOK
  <2> SUFFICES ASSUME ~shared' PROVE AloneInv' /\ \A i \in Instants : WindowInv(i)'
    BY <2>3 DEF ThrottleInv, Instants
  <2>4. ~shared /\ \A q \in Requests : request[q] = Absent
    BY <2>2
  <2>5. request'[r] = new /\ \A q \in Requests \ {r} : request'[q] = Absent
    BY <1>1, <2>2, <2>4 DEF ThrottleTypeOK
  <2>6. AloneInv'
    BY <1>1, <2>1, <2>2, <2>4, <2>5 DEF AloneInv, Locked, Instants
  <2>7. ~Unrecorded /\ ~Unrecorded'
    BY <2>1, <2>4, <2>5 DEF Unrecorded
  <2>8. ASSUME NEW i \in Instants PROVE WindowInv(i)'
    BY <1>1, <2>2, <2>4, <2>7 DEF WindowInv, Guessed, Instants
  <2> QED BY <2>6, <2>8
<1>5. ASSUME NEW r \in Requests, VerifyGood(r)
      PROVE  ThrottleInv'
  <2>1. /\ counter' = Absent /\ request' = [request EXCEPT ![r] = Absent] /\ request[r] # Absent
        /\ guesses' = [i \in Instants |-> 0] /\ UNCHANGED <<instant, shared>>
    BY <1>5 DEF VerifyGood, Done
  <2>2. ThrottleTypeOK'
    BY <1>1, <2>1 DEF ThrottleTypeOK, Instants
  <2> SUFFICES ASSUME ~shared' PROVE AloneInv' /\ \A i \in Instants : WindowInv(i)'
    BY <2>2 DEF ThrottleInv, Instants
  <2>3. \A q \in Requests : request'[q] = Absent
    BY <1>1, <2>1 DEF AloneInv, ThrottleTypeOK
  <2>4. AloneInv'
    BY <1>1, <2>1, <2>3 DEF AloneInv, Locked, Instants
  <2>5. ASSUME NEW i \in Instants PROVE WindowInv(i)'
    <3> DEFINE g == guesses'
    <3>1. g \in [Instants -> Nat] /\ \A j \in Instants : g[j] = 0
      BY <2>1
    <3>2. IsFiniteSet(Stretched(i)) /\ Stretched(i) \in SUBSET Instants
      BY <1>1, GuessesAre
    <3>3. Guessed(i, i + WindowTicks)' = SumFunctionOnSet(g, Stretched(i))
      BY DEF Guessed, Stretched, Instants
    <3> HIDE DEF g
    <3>4. \A j \in Stretched(i) : g[j] = 0
      BY <3>1, <3>2
    <3>5. SumFunctionOnSet(g, Stretched(i)) = 0
      BY <3>2, <3>4, SumZeros
    <3>6. ~Unrecorded'
      BY <2>3 DEF Unrecorded
    <3> QED BY <1>0, <2>1, <3>3, <3>5, <3>6 DEF WindowInv, Bounded
  <2> QED BY <2>4, <2>5
<1>6. ASSUME NEW r \in Requests, VerifyWrong(r)
      PROVE  ThrottleInv'
  <2>1. /\ request[r] # Absent /\ request[r].at = "verify" /\ guesses' = [guesses EXCEPT ![instant] = @ + 1]
        /\ request' = [request EXCEPT ![r].at = "read"] /\ UNCHANGED <<instant, counter, shared>>
    BY <1>6 DEF VerifyWrong
  <2> DEFINE new == [request[r] EXCEPT !.at = "read"]
  <2>2. new \in Request /\ new.at = "read" /\ request' = [request EXCEPT ![r] = new] /\ request[r] \in Request
    BY <1>1, <2>1 DEF ThrottleTypeOK, Request
  <2> HIDE DEF new
  <2>3. ThrottleTypeOK'
    BY <1>1, <2>1, <2>2 DEF ThrottleTypeOK, Instants
  <2> SUFFICES ASSUME ~shared' PROVE AloneInv' /\ \A i \in Instants : WindowInv(i)'
    BY <2>3 DEF ThrottleInv, Instants
  <2>4. ~shared /\ AloneInv /\ ~Locked(counter) /\ \A q \in Requests \ {r} : request[q] = Absent
    BY <1>1, <2>1 DEF AloneInv
  <2>5. request'[r] = new /\ new # Absent /\ \A q \in Requests \ {r} : request'[q] = Absent
    BY <1>0, <1>1, <2>2, <2>4 DEF ThrottleTypeOK
  <2>6. AloneInv'
    <3>1. \A j \in Instants : j > instant => guesses'[j] = 0
      BY <1>1, <2>1, <2>4 DEF AloneInv
    <3> QED BY <2>1, <2>2, <2>4, <2>5, <3>1 DEF AloneInv, Locked, Instants
  <2>7. ~Unrecorded /\ Unrecorded'
    BY <2>1, <2>2, <2>4, <2>5 DEF Unrecorded
  <2>8. ASSUME NEW i \in Instants PROVE WindowInv(i)'
    <3> DEFINE C == Guessed(i, i + WindowTicks)
               C1 == Guessed(i, i + WindowTicks)'
    <3>1. C1 = C + IF i <= instant /\ instant < i + WindowTicks THEN 1 ELSE 0
      BY <1>1, <2>1, GuessesGrow
    <3>2. Bounded(instant, counter, i, C, 0)
      BY <1>1, <2>4, <2>7 DEF WindowInv
    <3>3. C \in Nat /\ i \in Int
      BY <1>2, <1>3
    <3> HIDE DEF C, C1
    <3>4. counter # Absent => counter.lockedUntil <= instant /\ counter.failures < MaxLogins
      BY <1>1, <1>3, <2>4 DEF Locked, AloneInv
    <3>5. Bounded(instant, counter, i, C1, 1)
      BY <1>0, <1>1, <1>3, <3>1, <3>2, <3>3, <3>4 DEF Bounded
    <3> QED BY <2>1, <2>7, <3>5 DEF WindowInv, C1
  <2> QED BY <2>6, <2>8
<1>7. ASSUME NEW r \in Requests, ReadCounter(r)
      PROVE  ThrottleInv'
  <2> DEFINE new == [request[r] EXCEPT !.at = "write", !.read = counter, !.when = instant]
  <2>1. /\ request[r] # Absent /\ request[r].at = "read" /\ request' = [request EXCEPT ![r] = new]
        /\ UNCHANGED <<instant, counter, guesses, shared>>
    BY <1>7 DEF ReadCounter
  <2>2. new \in Request /\ new.at = "write" /\ new.read = counter /\ new.when = instant
    <3>1. request[r] \in Request
      BY <1>1, <2>1 DEF ThrottleTypeOK
    <3> QED BY <1>1, <3>1 DEF Request
  <2> HIDE DEF new
  <2>3. ThrottleTypeOK'
    BY <1>1, <2>1, <2>2 DEF ThrottleTypeOK, Instants
  <2> SUFFICES ASSUME ~shared' PROVE AloneInv' /\ \A i \in Instants : WindowInv(i)'
    BY <2>3 DEF ThrottleInv, Instants
  <2>4. ~shared /\ AloneInv /\ ~Locked(counter) /\ \A q \in Requests \ {r} : request[q] = Absent
    BY <1>1, <2>1 DEF AloneInv
  <2>5. request'[r] = new /\ new # Absent /\ \A q \in Requests \ {r} : request'[q] = Absent
    BY <1>0, <1>1, <2>1, <2>2, <2>4 DEF ThrottleTypeOK
  <2>6. AloneInv'
    BY <1>1, <2>1, <2>2, <2>4, <2>5 DEF AloneInv, Locked, Instants
  <2>7. Unrecorded /\ Unrecorded'
    BY <2>1, <2>2, <2>5 DEF Unrecorded
  <2>8. ASSUME NEW i \in Instants PROVE WindowInv(i)'
    BY <1>1, <2>1, <2>4, <2>7 DEF WindowInv, Guessed, Instants
  <2> QED BY <2>6, <2>8
<1>8. ASSUME NEW r \in Requests, WriteCounter(r)
      PROVE  ThrottleInv'
  <2> DEFINE at == request[r].when
             d == RegisterFailure(request[r].read, request[r].when)
  <2>1. /\ request[r] # Absent /\ request[r].at = "write" /\ request' = [request EXCEPT ![r] = Absent]
        /\ counter' = d /\ UNCHANGED <<instant, guesses, shared>>
    BY <1>8 DEF WriteCounter, Done
  <2>2. request[r] \in Request /\ at \in Nat /\ request[r].read \in Record \cup {Absent}
    BY <1>1, <2>1 DEF ThrottleTypeOK, Request
  <2>3. d \in Record /\ d # Absent /\ d.failures < MaxLogins
    BY <2>2, OneMoreFailure
  <2> HIDE DEF d, at
  <2>4. ThrottleTypeOK'
    BY <1>1, <2>1, <2>3 DEF ThrottleTypeOK, Instants
  <2> SUFFICES ASSUME ~shared' PROVE AloneInv' /\ \A i \in Instants : WindowInv(i)'
    BY <2>4 DEF ThrottleInv, Instants
  <2>5. ~shared /\ AloneInv /\ \A q \in Requests \ {r} : request[q] = Absent
    BY <1>1, <2>1 DEF AloneInv
  <2>6. /\ request[r].read = counter /\ at <= instant
        /\ counter # Absent => counter.windowStartedAt <= at
        /\ \A i \in Instants : i > at => guesses[i] = 0
        /\ ~Locked(counter)
    BY <2>1, <2>5 DEF AloneInv, at
  <2>7. \A q \in Requests : request'[q] = Absent
    BY <1>1, <2>1, <2>5 DEF ThrottleTypeOK
  <2>8. d = RegisterFailure(counter, at)
    BY <2>6 DEF d, at
  <2>9. d.windowStartedAt <= instant
    BY <1>0, <1>1, <1>3, <2>2, <2>6, <2>8 DEF RegisterFailure
  <2>10. AloneInv'
    BY <1>1, <2>1, <2>3, <2>5, <2>7, <2>9 DEF AloneInv, Instants
  <2>11. Unrecorded /\ ~Unrecorded'
    BY <2>1, <2>7 DEF Unrecorded
  <2>12. ASSUME NEW i \in Instants PROVE WindowInv(i)'
    <3> DEFINE C == Guessed(i, i + WindowTicks)
    <3>1. Bounded(instant, counter, i, C, 1)
      BY <1>1, <2>5, <2>11 DEF WindowInv
    <3>2. C \in Nat /\ i \in Int
      BY <1>2, <1>3
    <3>3. at < i => C = 0
      <4> SUFFICES ASSUME at < i PROVE C = 0
        OBVIOUS
      <4>1. \A j \in Instants : j >= i => guesses[j] = 0
        BY <1>2, <2>2, <2>6
      <4> QED BY <1>1, <4>1, NothingGuessed
    <3> HIDE DEF C
    <3>4. counter # Absent => counter.lockedUntil <= instant /\ counter.failures < MaxLogins
      BY <1>1, <1>3, <2>5, <2>6 DEF Locked, AloneInv
    <3>5. Bounded(instant, d, i, C, 0)
      <4>1. CASE counter = Absent
        BY <1>0, <1>1, <2>2, <2>3, <2>6, <2>8, <3>1, <3>2, <3>3, <4>1 DEF Bounded, RegisterFailure
      <4>2. CASE counter # Absent
        BY <1>0, <1>1, <1>3, <2>2, <2>3, <2>6, <2>8, <3>1, <3>2, <3>3, <3>4, <4>2 DEF Bounded, RegisterFailure
      <4> QED BY <4>1, <4>2
    <3>6. Guessed(i, i + WindowTicks)' = C
      BY <2>1 DEF Guessed, Instants, C
    <3> QED BY <2>1, <2>11, <3>5, <3>6 DEF WindowInv
  <2> QED BY <2>10, <2>12
<1>9. CASE Later
  <2>1. instant' = instant + 1 /\ instant' \in Instants /\ UNCHANGED <<counter, request, guesses, shared>>
    BY <1>0, <1>1, <1>9 DEF Later, Instants
  <2>2. ThrottleTypeOK'
    BY <1>1, <2>1 DEF ThrottleTypeOK, Instants
  <2> SUFFICES ASSUME ~shared' PROVE AloneInv' /\ \A i \in Instants : WindowInv(i)'
    BY <2>2 DEF ThrottleInv, Instants
  <2>3. ~shared /\ AloneInv
    BY <1>1, <2>1
  <2>4. AloneInv'
    <3>1. Locked(counter)' => Locked(counter)
      BY <1>1, <1>3, <2>1 DEF Locked
    <3>2. counter # Absent => counter.windowStartedAt <= instant'
      BY <1>1, <1>3, <2>1, <2>3 DEF AloneInv
    <3>3. \A i \in Instants : i > instant' => guesses[i] = 0
      <4>1. \A i \in Instants : i > instant' => i > instant
        BY <1>1, <1>2, <2>1
      <4>2. \A i \in Instants : i > instant => guesses[i] = 0
        BY <2>3 DEF AloneInv
      <4> QED BY <4>1, <4>2
    <3>4. \A q \in Requests : request[q] # Absent /\ request[q].at = "write" =>
            request[q].when <= instant'
      BY <1>1, <2>1, <2>3 DEF AloneInv, ThrottleTypeOK, Request
    <3> QED BY <2>1, <2>3, <3>1, <3>2, <3>3, <3>4 DEF AloneInv, Instants
  <2>5. Unrecorded' = Unrecorded
    BY <2>1 DEF Unrecorded
  <2>6. ASSUME NEW i \in Instants PROVE WindowInv(i)'
    <3> DEFINE C == Guessed(i, i + WindowTicks)
               P == IF Unrecorded THEN 1 ELSE 0
    <3>1. Bounded(instant, counter, i, C, P)
      BY <1>1, <2>3 DEF WindowInv
    <3>2. C \in Nat /\ i \in Int /\ P \in Nat
      BY <1>2, <1>3
    <3>3. C' = C /\ P' = P
      BY <2>1, <2>5 DEF Guessed, Instants
    <3>4. i > instant => C = 0
      BY <3>1, <1>1, <3>2 DEF Bounded
    <3> HIDE DEF C, P
    <3>5. Bounded(instant + 1, counter, i, C, P)
      BY <1>0, <1>1, <1>3, <3>1, <3>2, <3>4 DEF Bounded
    <3> QED BY <2>1, <3>3, <3>5 DEF WindowInv, C, P
  <2> QED BY <2>4, <2>6
<1>10. CASE UNCHANGED throttleVars
  BY <1>10 DEF throttleVars, ThrottleInv, ThrottleTypeOK, AloneInv, WindowInv, Guessed, Locked, Unrecorded, Instants
<1> QED BY <1>4, <1>5, <1>6, <1>7, <1>8, <1>9, <1>10 DEF ThrottleNext

\* Less than two windows allow.
LEMMA GuessesAreBounded == ThrottleInv /\ ~shared => GuessesBounded
BY LoginThrottleAssumption DEF ThrottleInv, WindowInv, Bounded, GuessesBounded

----------------------------------------------------------------------------
(* The four parts together: a step of one leaves the others.               *)

AccessInv == CoreInv /\ PinInv /\ WaiterInv /\ TriesInv /\ ServerInv /\ ThrottleInv

LEMMA InitAccess == Init => AccessInv
BY CoreStarts, PinStarts, WaiterStarts, TriesStart, ServerStarts, ThrottleStarts DEF Init, AccessInv

LEMMA PartsMove ==
  ASSUME [Next]_vars
  PROVE  /\ [TillNext]_tillVars /\ [WaiterNext]_waiterVars /\ [ServerNext]_serverVars
         /\ [ThrottleNext]_throttleVars
BY DEF Next, vars

LEMMA NextAccess == AccessInv /\ [Next]_vars => AccessInv'
<1> SUFFICES ASSUME AccessInv, [Next]_vars PROVE AccessInv'
  OBVIOUS
<1>1. /\ [TillNext]_tillVars /\ [WaiterNext]_waiterVars /\ [ServerNext]_serverVars
      /\ [ThrottleNext]_throttleVars
  BY PartsMove
<1>2. CoreInv'
  BY <1>1, CoreSteps DEF AccessInv
<1>3. PinInv'
  BY <1>1, <1>2, PinSteps DEF AccessInv
<1>4. WaiterInv'
  BY <1>1, WaiterSteps DEF AccessInv
<1>5. ServerInv'
  BY <1>1, TokenSteps, OwnerSteps DEF AccessInv, ServerInv
<1>6. TriesInv'
  BY <1>1, TriesStep DEF AccessInv, WaiterInv
<1>7. ThrottleInv'
  BY <1>1, ThrottleSteps DEF AccessInv
<1> QED BY <1>2, <1>3, <1>4, <1>5, <1>6, <1>7 DEF AccessInv

\* Wherever the program stops, a till that says it is attached has the rows it names and an
\* account with a PIN; and, whatever is typed, a stretch as long as the lock sees no more wrong
\* PINs than allowed, one more for each stop that lost a count (enroll, save, signInWithPin).
THEOREM TillSoundCorrect == Spec => []TillSound
<1>1. AccessInv => TillSound
  BY TillIs DEF AccessInv
<1> QED BY <1>1, InitAccess, NextAccess, PTL DEF Spec

\* The till, and the company at the server, keep an active owner, whatever changes of accounts
\* are made there one after the other and whatever accounts come from elsewhere in between, but
\* for one that takes the last (hasOtherActiveOwner, countActiveOwners, apply, APP_USER).
THEOREM OwnersRemainCorrect == Spec => []OwnersRemain
<1>1. AccessInv => OwnersRemain
  BY TillIs, SessionsAre DEF AccessInv, OwnersRemain
<1> QED BY <1>1, InitAccess, NextAccess, PTL DEF Spec

\* A waiter's account is open on one device, but for logins that ran between the look-up and the
\* opening (active_session_of, close_all_of, open); and a stretch as long as the lock sees no more
\* wrong PINs of it than allowed, but for those the other phones had under way when it was locked,
\* and once more for each restart (may_attempt, record_failure, record_success).
THEOREM WaitersSoundCorrect == Spec => []WaitersSound
<1>1. AccessInv => WaitersSound
  BY OnePhone, TriesBound DEF AccessInv, WaitersSound
<1> QED BY <1>1, InitAccess, NextAccess, PTL DEF Spec

\* Unless an answer was lost, its account closed or logged out everywhere, or its token kept for
\* thirty days, a till that asks for nothing holds a token the server will take, whichever of its
\* callers refreshed it; and a removed account has no live token, of a till or of the back office,
\* but for a refresh or a sign-in let through before (accessToken, login, refresh, logout, remove).
THEOREM SessionsFollowCorrect == Spec => []SessionsFollow
<1>1. AccessInv => SessionsFollow
  BY SessionsAre DEF AccessInv
<1> QED BY <1>1, InitAccess, NextAccess, PTL DEF Spec

\* Requests of one address and one IP made one at a time verify fewer wrong passwords in a stretch
\* as long as the window than two windows allow, whatever the limit, the window and the delays
\* between the check, the password, the read and the write (assertAllowed, recordFailure).
THEOREM GuessesAloneCorrect == Spec => [](~shared => GuessesBounded)
<1>1. AccessInv => (~shared => GuessesBounded)
  BY GuessesAreBounded DEF AccessInv
<1> QED BY <1>1, InitAccess, NextAccess, PTL DEF Spec
=============================================================================
