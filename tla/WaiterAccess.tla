---------------------------- MODULE WaiterAccess ----------------------------
(***************************************************************************)
(* The phones of the waiters at the till's own server (server/sessions.rs, *)
(* login and require_session of server/mod.rs).  Each call on the store    *)
(* takes its own lock, so the logins of two phones interleave between any  *)
(* two calls; the store is lost when the program stops.                    *)
(***************************************************************************)
EXTENDS Integers, FiniteSets, Functions

CONSTANTS
  Phones, Waiters,
  MaxAttempts,       \* MAX_ATTEMPTS
  Window,            \* WINDOW and LOCK: a quarter of an hour each, in ticks
  SessionTtl,        \* SESSION_TTL, in ticks
  MaxTicks, MaxWrong, MaxRestarts, \* bounds
  Nothing

\* What a login under way is about to do.
LoginSteps == {"verify", "failure", "success", "lookup", "close", "open"}
Login == [user : Waiters, right : BOOLEAN, takeover : BOOLEAN, at : LoginSteps]

ASSUME WaiterAccessAssumption ==
  /\ IsFiniteSet(Phones) /\ Nothing \notin Login
  /\ {MaxAttempts, Window, SessionTtl} \subseteq Nat \ {0}
  /\ {MaxTicks, MaxRestarts} \subseteq Nat

VARIABLES
  now,
  active,    \* app_user.is_active
  owners,    \* app_user.role: it does not change here
  sessions,  \* live or expired: phone that was given the token, user, expires
  attempts,  \* of each account: failures, how many at each instant, and locked_until (0: never)
  login,     \* what the request of a phone has left to do
  restarts,
  tried,     \* of each account: wrong PINs checked at each instant since the last good one
  met        \* accounts of which two logins were looking up and opening at once

waiterVars == <<now, active, owners, sessions, attempts, login, restarts, tried, met>>

Moments == 1..(MaxTicks + 1)
NotOnce == [i \in Moments |-> 0]
Total(counts) == SumFunctionOnSet(counts, Moments)

NoFailure == [failures |-> NotOnce, until |-> 0]
Live(s) == s.expires > now

WaiterInit ==
  /\ now = 1 /\ active = Waiters /\ owners \in SUBSET Waiters /\ sessions = {} /\ restarts = 0
  /\ attempts = [w \in Waiters |-> NoFailure]
  /\ login = [p \in Phones |-> Nothing]
  /\ tried = [w \in Waiters |-> NotOnce] /\ met = {}

OneMore(counts) == [counts EXCEPT ![now] = @ + 1]
Step(p, at) == login' = [login EXCEPT ![p].at = at]
Answer(p)   == login' = [login EXCEPT ![p] = Nothing]

\* may_attempt, before anything is read.
StartLogin(p, w, right, takeover) ==
  /\ login[p] = Nothing
  /\ attempts[w].until <= now
  /\ ~right => Total(tried[w]) < MaxWrong
  /\ login' = [login EXCEPT ![p] = [user |-> w, right |-> right, takeover |-> takeover,
                                    at |-> "verify"]]
  /\ UNCHANGED <<now, active, owners, sessions, attempts, restarts, tried, met>>

\* The account is read and the PIN compared.
VerifyLogin(p) ==
  /\ login[p] # Nothing /\ login[p].at = "verify"
  /\ LET w == login[p].user
         valid == login[p].right /\ w \in active
     IN  /\ Step(p, IF valid THEN "success" ELSE "failure")
         /\ tried' = IF login[p].right THEN tried
                     ELSE [tried EXCEPT ![w] = OneMore(@)]
  /\ UNCHANGED <<now, active, owners, sessions, attempts, restarts, met>>

\* What has failed lately, and once more.
Recent(entry) ==
  OneMore([i \in Moments |-> IF now - i < Window THEN entry.failures[i] ELSE 0])

\* Seeded fault: the lock comes one failure late.
FailedLate(entry) ==
  IF Total(Recent(entry)) > MaxAttempts THEN [failures |-> NotOnce, until |-> now + Window]
  ELSE [failures |-> Recent(entry), until |-> entry.until]

\* The entry after one more failure.
Failed(entry) ==
  IF Total(Recent(entry)) >= MaxAttempts THEN [failures |-> NotOnce, until |-> now + Window]
  ELSE [failures |-> Recent(entry), until |-> entry.until]

\* record_failure, and the answer
RecordFailure(p) ==
  /\ login[p] # Nothing /\ login[p].at = "failure"
  /\ attempts' = [attempts EXCEPT ![login[p].user] = Failed(@)]
  /\ Answer(p)
  /\ UNCHANGED <<now, active, owners, sessions, restarts, tried, met>>

\* record_success: the owner may use several devices.
RecordSuccess(p) ==
  /\ login[p] # Nothing /\ login[p].at = "success"
  /\ attempts' = [attempts EXCEPT ![login[p].user] = NoFailure]
  /\ tried' = [tried EXCEPT ![login[p].user] = NotOnce]
  /\ Step(p, IF login[p].user \in owners THEN "open" ELSE "lookup")
  /\ UNCHANGED <<now, active, owners, sessions, restarts, met>>

\* active_session_of: another device is refused, unless it takes over.
LookUp(p) ==
  /\ login[p] # Nothing /\ login[p].at = "lookup"
  /\ LET w == login[p].user
         others == {q \in Phones \ {p} : /\ login[q] # Nothing /\ login[q].user = w
                                         /\ login[q].at \in {"close", "open"}}
     IN  /\ IF \E s \in sessions : s.user = w /\ Live(s)
            THEN IF login[p].takeover THEN Step(p, "close") ELSE Answer(p)
            ELSE Step(p, "open")
         /\ met' = IF others = {} THEN met ELSE met \cup {w}
  /\ UNCHANGED <<now, active, owners, sessions, attempts, restarts, tried>>

\* Seeded fault: only the sessions that are over are closed.
WithoutOldOnesOf(w) == {s \in sessions : s.user # w \/ Live(s)}

\* close_all_of
WithoutThoseOf(w) == {s \in sessions : s.user # w}

CloseAll(p) ==
  /\ login[p] # Nothing /\ login[p].at = "close"
  /\ sessions' = WithoutThoseOf(login[p].user)
  /\ Step(p, "open")
  /\ UNCHANGED <<now, active, owners, attempts, restarts, tried, met>>

\* open: what has expired is purged by the way.
Open(p) ==
  /\ login[p] # Nothing /\ login[p].at = "open"
  /\ sessions' = {s \in sessions : Live(s)}
                   \cup {[phone |-> p, user |-> login[p].user, expires |-> now + SessionTtl]}
  /\ Answer(p)
  /\ UNCHANGED <<now, active, owners, attempts, restarts, tried, met>>

\* An account is switched off or on at the till: its sessions stay.
Switch(w) ==
  /\ w \notin owners
  /\ active' = IF w \in active THEN active \ {w} ELSE active \cup {w}
  /\ UNCHANGED <<now, owners, sessions, attempts, login, restarts, tried, met>>

Restart ==
  /\ restarts < MaxRestarts /\ restarts' = restarts + 1
  /\ sessions' = {} /\ attempts' = [w \in Waiters |-> NoFailure]
  /\ login' = [p \in Phones |-> Nothing]
  /\ UNCHANGED <<now, active, owners, tried, met>>

WaiterTick ==
  /\ now <= MaxTicks /\ now' = now + 1
  /\ UNCHANGED <<active, owners, sessions, attempts, login, restarts, tried, met>>

WaiterNext ==
  \/ \E p \in Phones :
       \/ \E w \in Waiters, right, takeover \in BOOLEAN : StartLogin(p, w, right, takeover)
       \/ VerifyLogin(p) \/ RecordFailure(p) \/ RecordSuccess(p)
       \/ LookUp(p) \/ CloseAll(p) \/ Open(p)
  \/ \E w \in Waiters : Switch(w)
  \/ Restart \/ WaiterTick

----------------------------------------------------------------------------
\* Properties.

\* A waiter's account is open on one device at a time, a transfer being explicit
\* (active_session_of, close_all_of), unless two of its logins ran between the look-up and the
\* opening, which are two critical sections.
OneDevicePerAccount ==
  \A w \in Waiters \ (owners \cup met) :
    Cardinality({s.phone : s \in {s \in sessions : s.user = w /\ Live(s)}}) <= 1

\* In any stretch as long as the lock, an account sees no more wrong PINs than allowed, but for
\* those the other phones had under way when it was locked, and once more for each restart.
WrongPinsBounded ==
  \A w \in Waiters, t \in Moments :
    SumFunctionOnSet(tried[w], {i \in Moments : i >= t /\ i < t + Window})
      <= (MaxAttempts + Cardinality(Phones) - 1) * (restarts + 1)

WaitersSound == OneDevicePerAccount /\ WrongPinsBounded
=============================================================================
