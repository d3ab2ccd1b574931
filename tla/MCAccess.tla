------------------------------ MODULE MCAccess ------------------------------
(***************************************************************************)
(* Who gets in: the till, the waiters' phones, the server's tokens and its *)
(* limit on passwords share no state: `part' says which one a behaviour is *)
(* of, and the others stay as they began.                                  *)
(***************************************************************************)
EXTENDS TillAccess, WaiterAccess, ServerSessions, LoginThrottle, TLC

Symmetric == Permutations(Phones) \cup Permutations(Callers)

VARIABLE part

vars == <<part, tillVars, waiterVars, serverVars, throttleVars>>

Init ==
  /\ part \in {"door", "staff", "waiters", "tokens", "throttle"}
  /\ TillInit /\ WaiterInit /\ ServerInit /\ ThrottleInit
  /\ part # "waiters" => owners = {}

\* A till is tried at its door, or managed: PINs and time in one, changes of accounts, one event
\* less, in the other.
OfItsTill ==
  IF part = "staff"
  THEN clock' = clock /\ spent' < MaxEvents /\ (attempt' # None => attempt'.right)
  ELSE gestures' = {} /\ \A u \in Users :
         phase = "ready" /\ accounts[u] # None => accounts'[u] = accounts[u]

Next ==
  /\ UNCHANGED part
  /\ \/ part \in {"door", "staff"} /\ TillNext /\ OfItsTill
        /\ UNCHANGED <<waiterVars, serverVars, throttleVars>>
     \/ part = "waiters"  /\ WaiterNext   /\ UNCHANGED <<tillVars, serverVars, throttleVars>>
     \/ part = "tokens"   /\ ServerNext   /\ UNCHANGED <<tillVars, waiterVars, throttleVars>>
     \/ part = "throttle" /\ ThrottleNext /\ UNCHANGED <<tillVars, waiterVars, serverVars>>

Spec == Init /\ [][Next]_vars

\* The till and the server each keep an owner who can manage what is theirs.
OwnersRemain == OwnerRemains /\ CompanyKeepsOwner
=============================================================================
