----------------------------- MODULE TillAccess -----------------------------
(***************************************************************************)
(* Who may open one till: its installation (alone, or with a server), the  *)
(* PIN checked without a network and its lock, the accounts managed on the *)
(* till (auth.service, provision.repository, user.repository, and the      *)
(* screens that call them).  Every write to the tables is a statement of   *)
(* its own: the program may stop between two of them.  The tokens are      *)
(* module ServerSessions.                                                  *)
(***************************************************************************)
EXTENDS Integers, Sequences, FiniteSets, Functions

CONSTANTS
  Users,
  Boss,           \* the one who installs the till, an account of the server too
  MaxPinAttempts, \* MAX_PIN_ATTEMPTS
  LockDuration,   \* LOCK_DURATION_MS, in ticks
  MaxEvents,      \* bound: ticks, wrong PINs, changes of accounts and stops, together
  None

Account == [role : {"owner", "cashier"}, active : BOOLEAN, pin : BOOLEAN]

\* An identifier is drawn on the till, once for each installation, or is the server's.
Identifier == {"alone", "server"} \X Nat
Statements == {"setPin", "enrollDevice", "company", "store", "register", "user", "keyCompany",
               "keyStore", "keyRegister", "mode"}
Installation == [kind : {"alone", "server", "recover"}, id : Identifier, todo : Seq(Statements),
                 user : Account]
Session == [user : Users, role : {"owner", "cashier"}, company : Identifier]
Lock == [failed : 0..(MaxPinAttempts - 1), until : Nat]
Attempt == [user : Users, right : BOOLEAN, guard : Lock, checked : BOOLEAN]

ASSUME TillAccessAssumption ==
  /\ Boss \in Users
  /\ None \notin Account /\ None \notin Identifier /\ None \notin Session
  /\ None \notin Installation /\ None \notin Attempt /\ None \notin {"standalone", "connected"}
  /\ MaxPinAttempts \in Nat \ {0} /\ LockDuration \in Nat \ {0} /\ MaxEvents \in Nat

VARIABLES
  clock,
  tables,    \* company, store, register: identifiers in the order of their insertion
  accounts,  \* app_user: role, active, pin (is there a hash), or None
  meta,      \* company_id, store_id, register_id, mode
  remote,    \* the server's row of Boss
  phase,     \* loading, enroll, locked, ready
  session,   \* None, or who opened it: user, role, and company of the session
  install,   \* what an installation has left to do
  guard,     \* pin_guard:user: failed, until (0: no lock)
  attempt,   \* the PIN being checked
  shown,     \* the accounts as UsersPanel read them last
  gestures,  \* changes of accounts checked, then written, until the panel reads again
  spent,     \* of MaxEvents
  crashes,
  wrong,     \* wrong PINs checked, by user and tick, since the last good one
  crossed    \* two changes of accounts were under way at once, one of them was checked against
             \* a row that had changed since the panel read it, an account pulled took the last
             \* owner, or the server's row of Boss was written over changes it had not been told of

places == <<tables, meta>>
screen == <<phase, session, install>>
pins   == <<guard, attempt>>
ghosts == <<crashes, wrong, crossed>>

panel  == <<shown, gestures>>

tillVars == <<clock, places, accounts, remote, screen, pins, panel, spent, ghosts>>

Ticks == 0..MaxEvents
Keys == {"company", "store", "register"}
KeyStep == [company |-> "keyCompany", store |-> "keyStore", register |-> "keyRegister"]
Free == [failed |-> 0, until |-> 0]
Spend == spent < MaxEvents /\ spent' = spent + 1

\* deviceState().enrolled
Enrolled == \A k \in Keys : meta[k] # None

\* listSignableUsers
Signable(u) == accounts[u] # None /\ accounts[u].active /\ accounts[u].pin

\* hasOtherActiveOwner
OtherActiveOwner(u) ==
  \E o \in Users \ {u} : accounts[o] # None /\ accounts[o].role = "owner" /\ accounts[o].active

\* localContext: any company will do, the first; the store and the register are the till's.
Context ==
  IF /\ Enrolled /\ tables["company"] # <<>>
     /\ \A k \in {"store", "register"} : meta[k] \in Range(tables[k])
  THEN Head(tables["company"]) ELSE None

\* Someone can manage these accounts.
HasOwner(rows) == \E u \in Users : rows[u] # None /\ rows[u].role = "owner" /\ rows[u].active

TillInit ==
  /\ clock = 0
  /\ tables = [k \in Keys |-> <<>>]
  /\ accounts = [u \in Users |-> None]
  /\ meta = [k \in Keys \cup {"mode"} |-> None]
  /\ remote = [role |-> "owner", active |-> TRUE, pin |-> FALSE]
  /\ phase = "loading" /\ session = None /\ install = None
  /\ guard = [u \in Users |-> Free] /\ attempt = None
  /\ shown = accounts /\ gestures = {} /\ spent = 0 /\ crashes = 0
  /\ wrong = [u \in Users |-> [t \in Ticks |-> 0]] /\ crossed = FALSE

----------------------------------------------------------------------------
\* Installation.

\* showLockScreen
ShowLockScreen ==
  /\ phase = "loading"
  /\ phase' = IF Enrolled THEN "locked" ELSE "enroll"
  /\ UNCHANGED <<clock, places, accounts, remote, session, install, pins, panel, spent, ghosts>>

\* Seeded fault: the keys are written with their rows.
SaveKeysFirst == <<"company", "keyCompany", "store", "keyStore", "register", "keyRegister",
                   "user">>

\* ProvisionRepository.save: the rows, then the keys that say the till is attached.
Save == <<"company", "store", "register", "user",
          "keyCompany", "keyStore", "keyRegister">>

\* createStandalone, enroll, recoverPin: what each has to do, the server's part first.
Plan(kind) == (IF kind = "alone" THEN <<>> ELSE <<"setPin", "enrollDevice">>)
                \o Save \o (IF kind = "recover" THEN <<>> ELSE <<"mode">>)

\* The first statements of an installation: those of the server, if it has one.
Begin(kind) ==
  /\ install = None
  /\ phase = IF kind = "recover" THEN "locked" ELSE "enroll"
  /\ attempt = None
  /\ kind = "recover" => remote.active /\ meta["company"] = <<"server", 0>> \* api.login
  /\ install' = [kind |-> kind,
                 id |-> IF kind = "alone" THEN <<kind, crashes>> ELSE <<"server", 0>>,
                 todo |-> Plan(kind),
                 user |-> [role |-> "owner", active |-> TRUE, pin |-> TRUE]]
  /\ UNCHANGED <<clock, places, accounts, remote, phase, session, pins, panel, spent, ghosts>>

\* createStandalone, enroll, recoverPin: one statement or one answer of the server.
\* The server sends the accounts as they are when the till is enrolled.
Install ==
  /\ install # None /\ install.todo # <<>>
  /\ LET step == Head(install.todo)
         key == CHOOSE k \in Keys : step \in {k, KeyStep[k]}
     IN
       /\ install' = [install EXCEPT !.todo = Tail(@),
                                     !.user = IF step = "enrollDevice" THEN remote ELSE @]
       /\ remote' = IF step = "setPin" THEN [remote EXCEPT !.pin = TRUE] ELSE remote
       /\ tables' = IF step \in Keys /\ install.id \notin Range(tables[step])
                    THEN [tables EXCEPT ![step] = Append(@, install.id)] ELSE tables
       /\ accounts' = IF step = "user" /\ install.user.active
                      THEN [accounts EXCEPT ![Boss] = install.user] ELSE accounts
       /\ meta' = CASE step \in {"keyCompany", "keyStore", "keyRegister"} ->
                         [meta EXCEPT ![key] = install.id]
                    [] step = "mode" -> [meta EXCEPT !["mode"] = IF install.kind = "alone"
                                                              THEN "standalone" ELSE "connected"]
                    [] OTHER -> meta
       /\ crossed' = (\/ crossed
                      \/ /\ step = "user" /\ accounts[Boss] # None
                         /\ [accounts[Boss] EXCEPT !.pin = TRUE] # install.user)
  /\ UNCHANGED <<clock, phase, session, pins, panel, spent, crashes, wrong>>

Installed ==
  /\ install # None /\ install.todo = <<>>
  /\ install' = None /\ phase' = "loading"
  /\ UNCHANGED <<clock, places, accounts, remote, session, pins, panel, spent, ghosts>>

\* The server does not answer: the screen says so and starts over.
Unreachable ==
  /\ install # None /\ install.todo # <<>>
  /\ Head(install.todo) \in {"setPin", "enrollDevice"}
  /\ install' = None
  /\ UNCHANGED <<clock, places, accounts, remote, phase, session, pins, panel, spent, ghosts>>

----------------------------------------------------------------------------
\* The PIN.

\* signInWithPin, up to the check: the guard is read once and for all.
SubmitPin(u, right) ==
  /\ phase = "locked" /\ attempt = None /\ install = None
  /\ guard[u].until <= clock
  /\ Signable(u)
  /\ IF right THEN UNCHANGED spent ELSE Spend
  /\ attempt' = [user |-> u, right |-> right, guard |-> guard[u], checked |-> FALSE]
  /\ UNCHANGED <<clock, places, accounts, remote, screen, guard, panel, ghosts>>

VerifyPin ==
  /\ attempt # None /\ ~attempt.checked
  /\ attempt' = [attempt EXCEPT !.checked = TRUE]
  /\ wrong' = IF attempt.right THEN [wrong EXCEPT ![attempt.user] = [t \in Ticks |-> 0]]
              ELSE [wrong EXCEPT ![attempt.user][clock] = @ + 1]
  /\ UNCHANGED <<clock, places, accounts, remote, screen, guard, panel, spent, crashes, crossed>>

\* registerFailure
AfterFailure(g) ==
  IF g.failed + 1 >= MaxPinAttempts THEN [failed |-> 0, until |-> clock + LockDuration]
  ELSE [failed |-> g.failed + 1, until |-> 0]

WrongPin ==
  /\ attempt # None /\ attempt.checked /\ ~attempt.right
  /\ guard' = [guard EXCEPT ![attempt.user] = AfterFailure(attempt.guard)]
  /\ attempt' = None
  /\ UNCHANGED <<clock, places, accounts, remote, screen, panel, spent, ghosts>>

\* The guard is cleared and the session built, unless the till is not whole.
RightPin ==
  /\ attempt # None /\ attempt.checked /\ attempt.right
  /\ guard' = [guard EXCEPT ![attempt.user] = Free]
  /\ attempt' = None
  /\ IF Context = None THEN UNCHANGED <<phase, session>>
     ELSE /\ phase' = "ready"
          /\ session' = [user |-> attempt.user, role |-> accounts[attempt.user].role,
                         company |-> Context]
  /\ shown' = accounts
  /\ UNCHANGED <<clock, places, accounts, remote, install, gestures, spent, ghosts>>

SignOut ==
  /\ phase = "ready"
  /\ phase' = "loading" /\ session' = None
  /\ UNCHANGED <<clock, places, accounts, remote, install, pins, panel, spent, ghosts>>

----------------------------------------------------------------------------
\* The accounts (UsersPanel).

Managing == phase = "ready" /\ session.role = "owner"

CreateUser(u, role) ==
  /\ Managing /\ accounts[u] = None /\ Spend
  /\ accounts' = [accounts EXCEPT ![u] = [role |-> role, active |-> TRUE, pin |-> TRUE]]
  /\ shown' = accounts'
  /\ UNCHANGED <<clock, places, remote, screen, pins, gestures, ghosts>>

SetPin(u) ==
  /\ Managing /\ shown[u] # None /\ Spend
  /\ accounts' = [accounts EXCEPT ![u].pin = TRUE]
  /\ shown' = accounts'
  /\ UNCHANGED <<clock, places, remote, screen, pins, gestures, ghosts>>

\* Seeded fault: any other account will do.
AllowedAny(u, to) ==
  (shown[u].role = "owner" /\ shown[u].active /\ ~(to.active /\ to.role = "owner"))
    => \E o \in Users \ {u} : accounts[o] # None

\* Whether the check lets the change through: the account is the one shown, the others are read.
Allowed(u, to) ==
  (shown[u].role = "owner" /\ shown[u].active /\ ~(to.active /\ to.role = "owner"))
    => OtherActiveOwner(u)

\* basculer and changerRole, up to the write: nothing stops a second gesture meanwhile.
CheckChange(u, to) ==
  /\ Managing /\ shown[u] # None /\ Spend
  /\ \/ to = [shown[u] EXCEPT !.active = ~@]
     \/ shown[u].active /\ to # shown[u] /\ to = [shown[u] EXCEPT !.role = to.role]
  /\ Allowed(u, to)
  /\ gestures' = gestures \cup {[user |-> u, to |-> to, written |-> FALSE,
                                 field |-> IF to.role = shown[u].role THEN "active" ELSE "role"]}
  /\ crossed' = (crossed \/ gestures # {} \/ shown[u] # accounts[u])
  /\ UNCHANGED <<clock, places, accounts, remote, screen, pins, shown, crashes, wrong>>

\* setActive, setRole
WriteChange(g) ==
  /\ ~g.written
  /\ accounts' = [accounts EXCEPT ![g.user] =
                    IF g.field = "active" THEN [@ EXCEPT !.active = g.to.active]
                    ELSE [@ EXCEPT !.role = g.to.role]]
  /\ gestures' = (gestures \ {g}) \cup {[g EXCEPT !.written = TRUE]}
  /\ UNCHANGED <<clock, places, remote, screen, pins, shown, spent, ghosts>>

\* The panel reads the accounts again: the gesture is over.
Reload(g) ==
  /\ g.written
  /\ gestures' = gestures \ {g} /\ shown' = accounts
  /\ UNCHANGED <<clock, places, accounts, remote, screen, pins, spent, ghosts>>

\* The mutation of the outbox reaches the server (module SyncProtocol).
PushBoss ==
  /\ accounts[Boss] # None /\ meta["mode"] = "connected" /\ remote # accounts[Boss]
  /\ remote' = accounts[Boss]
  /\ UNCHANGED <<clock, places, accounts, screen, pins, panel, spent, ghosts>>

\* A cycle of the engine applies an account that the server has (apply): changed by another
\* till or by the back office, and put aside while the till has changes of it to send.  No one
\* counts the owners, and the panel is not told.  Nothing on the server takes a PIN away.
PullAccount(u, to) ==
  /\ phase = "ready" /\ meta["mode"] = "connected" /\ Spend
  /\ to # accounts[u] /\ (accounts[u] # None => to.pin \/ ~accounts[u].pin)
  /\ u = Boss => remote = accounts[Boss]
  /\ accounts' = [accounts EXCEPT ![u] = to]
  /\ remote' = IF u = Boss THEN to ELSE remote
  /\ crossed' = (crossed \/ gestures # {} \/ ~HasOwner(accounts'))
  /\ UNCHANGED <<clock, places, screen, pins, panel, crashes, wrong>>

----------------------------------------------------------------------------

Stop ==
  /\ Spend /\ crashes' = crashes + 1
  /\ phase' = "loading" /\ session' = None /\ install' = None /\ attempt' = None
  /\ gestures' = {}
  /\ UNCHANGED <<clock, places, accounts, remote, guard, shown, wrong, crossed>>

Tick ==
  /\ Spend /\ clock' = clock + 1
  /\ UNCHANGED <<places, accounts, remote, screen, pins, panel, ghosts>>

TillNext ==
  \/ ShowLockScreen \/ Install \/ Installed \/ Unreachable
  \/ \E kind \in {"alone", "server", "recover"} : Begin(kind)
  \/ \E u \in Users, right \in BOOLEAN : SubmitPin(u, right)
  \/ VerifyPin \/ WrongPin \/ RightPin \/ SignOut
  \/ \E u \in Users : \/ SetPin(u)
                      \/ \E role \in {"owner", "cashier"} : CreateUser(u, role)
                      \/ \E to \in Account : CheckChange(u, to) \/ PullAccount(u, to)
  \/ \E g \in gestures : WriteChange(g) \/ Reload(g)
  \/ PushBoss \/ Stop \/ Tick

----------------------------------------------------------------------------
\* Properties.

\* The shape of the state.
TillTypeOK ==
  /\ clock \in Ticks /\ \A u \in Users : accounts[u] # None => accounts[u] \in Account
  /\ remote \in Account /\ phase \in {"loading", "enroll", "locked", "ready"}
  /\ (phase = "ready" <=> session # None)
  /\ \A u \in Users : guard[u].failed \in 0..(MaxPinAttempts - 1)
  /\ meta["mode"] \in {None, "standalone", "connected"}

\* Wherever the program stopped, a till that says it is attached has the rows it names and
\* someone with a PIN: the first sign-in needs no network (enroll, ProvisionRepository.save).
EnrolledIsComplete ==
  Enrolled => /\ Context # None
              /\ \A k \in Keys : meta[k] \in Range(tables[k])
              /\ accounts[Boss] # None /\ accounts[Boss].pin

\* Whatever was typed and wherever the program stopped, no stretch as long as the lock saw
\* more wrong PINs than allowed, one more for each stop before the failure was written.
PinAttemptsBounded ==
  \A u \in Users, t \in Ticks :
    LET stretch == {s \in Ticks : s >= t /\ s < t + LockDuration}
    IN  SumFunctionOnSet(wrong[u], stretch) <= MaxPinAttempts + crashes

\* Changes made on the till one after the other, each of an account as the panel shows it,
\* leave an active owner who can manage the till (hasOtherActiveOwner), though the accounts
\* pulled come between them.  The ways out: the check of one and the write of another may
\* cross, an account pulled be the last owner's, and a recovery write the server's accounts
\* over changes still in the outbox.
OwnerRemains == crossed \/ ~Enrolled \/ HasOwner(accounts)

\* A till is well formed, whole as soon as it says it is attached, and its lock holds.
TillSound == TillTypeOK /\ EnrolledIsComplete /\ PinAttemptsBounded
=============================================================================
