---------------------------- MODULE LoginThrottle ---------------------------
(***************************************************************************)
(* The limit on passwords at the server, for one address and one IP (api   *)
(* login-throttle.service, login of auth.service).  The counter is read    *)
(* and written in two statements, and several requests may be under way.   *)
(***************************************************************************)
EXTENDS Integers, FiniteSets, Functions

CONSTANTS
  Requests,     \* what may be under way at once
  MaxLogins,    \* MAX_ATTEMPTS
  WindowTicks,  \* WINDOW_MS and LOCK_MS
  LastInstant, MaxGuesses, \* bounds
  Absent

\* A row of login_attempt, and what a request has left to do, with what it read.
Record  == [failures : Nat, windowStartedAt : Nat, lockedUntil : Nat]
Request == [right : BOOLEAN, at : {"verify", "read", "write"}, read : Record \cup {Absent}, when : Nat]

ASSUME LoginThrottleAssumption ==
  /\ {MaxLogins, WindowTicks, LastInstant} \subseteq Nat \ {0}
  /\ Absent \notin Record /\ Absent \notin Request

VARIABLES
  instant,
  counter,  \* the row of login_attempt, or Absent
  request,  \* each request, or Absent
  guesses,  \* wrong passwords verified at each instant since the last good one
  shared    \* two requests were past their check at once

throttleVars == <<instant, counter, request, guesses, shared>>

Instants == 1..LastInstant

ThrottleInit ==
  /\ instant = 1 /\ counter = Absent
  /\ request = [r \in Requests |-> Absent]
  /\ guesses = [i \in Instants |-> 0] /\ shared = FALSE

Done(r) == request' = [request EXCEPT ![r] = Absent]
Guessed(from, to) == SumFunctionOnSet(guesses, {i \in Instants : i >= from /\ i < to})

\* lockRemainingMs
Locked(record) == record # Absent /\ record.lockedUntil > instant

\* assertAllowed
Ask(r, right) ==
  /\ request[r] = Absent /\ ~Locked(counter)
  /\ request' = [request EXCEPT ![r] = [right |-> right, at |-> "verify", read |-> Absent,
                                    when |-> 0]]
  /\ shared' = (shared \/ \E q \in Requests \ {r} : request[q] # Absent)
  /\ UNCHANGED <<instant, counter, guesses>>

\* A good password clears the row (recordSuccess), a wrong one is recorded.
VerifyGood(r) ==
  /\ request[r] # Absent /\ request[r].at = "verify" /\ request[r].right
  /\ counter' = Absent /\ Done(r)
  /\ guesses' = [i \in Instants |-> 0]
  /\ UNCHANGED <<instant, shared>>

VerifyWrong(r) ==
  /\ request[r] # Absent /\ request[r].at = "verify" /\ ~request[r].right
  /\ Guessed(1, LastInstant + 1) < MaxGuesses
  /\ guesses' = [guesses EXCEPT ![instant] = @ + 1]
  /\ request' = [request EXCEPT ![r].at = "read"]
  /\ UNCHANGED <<instant, counter, shared>>

\* recordFailure: the clock, then the read
ReadCounter(r) ==
  /\ request[r] # Absent /\ request[r].at = "read"
  /\ request' = [request EXCEPT ![r].at = "write", ![r].read = counter,
                                  ![r].when = instant]
  /\ UNCHANGED <<instant, counter, guesses, shared>>

\* Seeded fault: the lock comes one failure late.
RegisterFailureLate(previous, at) ==
  LET expired  == previous = Absent \/ at - previous.windowStartedAt > WindowTicks
      failures == IF expired THEN 1 ELSE previous.failures + 1
  IN  IF failures > MaxLogins
      THEN [failures |-> 0, windowStartedAt |-> at, lockedUntil |-> at + WindowTicks]
      ELSE [failures |-> failures,
            windowStartedAt |-> IF expired THEN at ELSE previous.windowStartedAt,
            lockedUntil |-> IF previous = Absent THEN 0 ELSE previous.lockedUntil]

\* registerFailure
RegisterFailure(previous, at) ==
  LET expired  == previous = Absent \/ at - previous.windowStartedAt > WindowTicks
      failures == IF expired THEN 1 ELSE previous.failures + 1
  IN  IF failures >= MaxLogins
      THEN [failures |-> 0, windowStartedAt |-> at, lockedUntil |-> at + WindowTicks]
      ELSE [failures |-> failures,
            windowStartedAt |-> IF expired THEN at ELSE previous.windowStartedAt,
            lockedUntil |-> IF previous = Absent THEN 0 ELSE previous.lockedUntil]

\* recordFailure: the write, whatever was written meanwhile
WriteCounter(r) ==
  /\ request[r] # Absent /\ request[r].at = "write"
  /\ counter' = RegisterFailure(request[r].read, request[r].when)
  /\ Done(r)
  /\ UNCHANGED <<instant, guesses, shared>>

Later ==
  /\ instant < LastInstant /\ instant' = instant + 1
  /\ UNCHANGED <<counter, request, guesses, shared>>

ThrottleNext ==
  \/ \E r \in Requests : \/ \E right \in BOOLEAN : Ask(r, right)
                         \/ VerifyGood(r) \/ VerifyWrong(r) \/ ReadCounter(r) \/ WriteCounter(r)
  \/ Later

----------------------------------------------------------------------------
\* Property.

\* Requests made one at a time verify fewer wrong passwords in a stretch as long as the window
\* than two windows allow; when they overlap, failures are lost and a late write may lift a
\* lock, yet the extra passwords stay a handful (PrismaThrottleStore).
GuessesBounded ==
  \A i \in Instants :
    Guessed(i, i + WindowTicks) <= IF shared THEN MaxLogins * (MaxLogins + 4)
                                   ELSE 2 * MaxLogins - 1
=============================================================================
