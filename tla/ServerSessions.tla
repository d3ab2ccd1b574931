--------------------------- MODULE ServerSessions ---------------------------
(***************************************************************************)
(* The tokens of a till and of the back office on the server, and the      *)
(* accounts they stand for: login, refresh and its rotation, logout (api   *)
(* auth.service, token.service), storeTokens and its two callers on the    *)
(* till (auth.service of the till), the owners the back office may not do  *)
(* without (users.service) and the accounts the tills push (app_user of    *)
(* the entity handlers).  Each statement is a transaction of its own; an   *)
(* answer may be lost at any point, and the till may stop.                 *)
(***************************************************************************)
EXTENDS Integers, FiniteSets

CONSTANTS
  Staff,
  Holder,    \* whose tokens the till holds
  Callers,   \* the engine and DevicesPanel: both ask for the access token
  MaxTokens, MaxChanges, \* bounds: tokens issued, changes of accounts
  MaxLost,   \* bound: answers lost and tokens grown old, together
  Nobody

Ids == 1..MaxTokens
Uses == {"till", "office"}
Token == [user : Staff, of : Uses, revoked : BOOLEAN, expired : BOOLEAN]
Person == [role : {"owner", "manager"}, active : BOOLEAN, deleted : BOOLEAN]
Entry == [user : Staff, of : Uses]
Call == [sent : Ids, at : {"find", "revoke", "user", "issue", "answer"}, new : 0..MaxTokens]

ASSUME ServerSessionsAssumption ==
  /\ Holder \in Staff /\ Nobody \notin Token /\ Nobody \notin Call /\ Nobody \notin Entry
  /\ IsFiniteSet(Staff) /\ IsFiniteSet(Callers) /\ MaxTokens \in Nat \ {0}

VARIABLES
  tokens,   \* refresh_token, in the order of their issue: user, whose (a till's, or the
            \* back office's), revoked, past its thirty days
  staff,    \* User: role, active, deleted
  held,     \* meta of the till: the refresh token, and whether the access token is still good
  calls,    \* a caller's refresh: the token sent, what is left to do, the token issued
  entry,    \* a sign-in past its check, whose token is not issued yet
  updates,  \* changes of accounts between the count of the owners and the transaction
  edits, lost,
  late,     \* accounts removed while a request of theirs was past its check
  raced,    \* two changes of accounts were between their count and their transaction
  taken,    \* a till's push left the company without an owner
  cut       \* the till was cut off for a reason: an answer lost, its account closed or logged
            \* out everywhere, its token kept for more than thirty days

serverVars == <<tokens, staff, held, calls, entry, updates, edits, lost, late, raced, taken, cut>>

Usable(u) == staff[u].active /\ ~staff[u].deleted
LastToken == Cardinality({t \in Ids : tokens[t] # Nobody})
First == [user |-> Holder, of |-> "till", revoked |-> FALSE, expired |-> FALSE]
Issue(u, of) == [tokens EXCEPT ![LastToken + 1] = [First EXCEPT !.user = u, !.of = of]]
Revoked(of) == [t \in Ids |-> IF tokens[t] # Nobody /\ t \in of THEN [tokens[t] EXCEPT !.revoked = TRUE]
                              ELSE tokens[t]]

ServerInit ==
  /\ tokens = [t \in Ids |-> IF t = 1 THEN First ELSE Nobody]
  /\ staff = [u \in Staff |-> [role |-> "owner", active |-> TRUE, deleted |-> FALSE]]
  /\ held = [refresh |-> 1, fresh |-> TRUE]
  /\ calls = [c \in Callers |-> Nobody]
  /\ updates = {} /\ edits = 0 /\ lost = 0
  /\ entry = Nobody /\ late = {} /\ raced = FALSE /\ taken = FALSE /\ cut = FALSE

At(c, step) == calls[c] # Nobody /\ calls[c].at = step
GoTo(c, step) == calls' = [calls EXCEPT ![c].at = step]
Hang(c) == calls' = [calls EXCEPT ![c] = Nobody]

\* There is room for the tokens asked for, and for one more.
Room ==
  LastToken + Cardinality({d \in Callers : calls[d] # Nobody})
            + (IF entry = Nobody THEN 0 ELSE 1) < MaxTokens

\* The refreshes of an account that its closing no longer stops.
Past(u) == {c \in Callers : calls[c] # Nobody /\ tokens[calls[c].sent].user = u
                            /\ calls[c].at \in {"issue", "answer"}}
\* A refresh is past the check of its token: it will answer another one.
Renewing == \E c \in Callers : calls[c] # Nobody /\ calls[c].at # "find"

----------------------------------------------------------------------------
\* The till.

\* A quarter of an hour has passed.
AccessExpires ==
  /\ held.fresh
  /\ held' = [held EXCEPT !.fresh = FALSE]
  /\ UNCHANGED <<tokens, staff, calls, entry, updates, edits, lost, late, raced, taken, cut>>

\* accessToken, when the one stored is over: both callers may be here at once.
AskRefresh(c) ==
  /\ calls[c] = Nobody /\ ~held.fresh /\ Room
  /\ entry # Nobody => entry.of = "office"
  /\ calls' = [calls EXCEPT ![c] = [sent |-> held.refresh, at |-> "find", new |-> 0]]
  /\ UNCHANGED <<tokens, staff, held, entry, updates, edits, lost, late, raced, taken, cut>>

\* Seeded fault: the refresh token of the answer is not stored.
StoredAccess(c) == [refresh |-> held.refresh, fresh |-> TRUE]

\* What storeTokens leaves in meta.
Stored(c) == [refresh |-> calls[c].new, fresh |-> TRUE]

StoreTokens(c) ==
  /\ At(c, "answer")
  /\ held' = Stored(c) /\ Hang(c)
  /\ UNCHANGED <<tokens, staff, entry, updates, edits, lost, late, raced, taken, cut>>

\* The till, the network or the server fails under a call: accessToken answers null.
Lose(c) ==
  /\ calls[c] # Nobody /\ lost < MaxLost /\ lost' = lost + 1
  /\ Hang(c) /\ cut' = TRUE
  /\ UNCHANGED <<tokens, staff, held, entry, updates, edits, late, raced, taken>>

\* The till stops between two of the keys that storeTokens writes.
StopStoring(c) ==
  /\ At(c, "answer") /\ lost < MaxLost /\ lost' = lost + 1
  /\ held' = [held EXCEPT !.fresh = TRUE]
  /\ calls' = [d \in Callers |-> Nobody] /\ cut' = TRUE
  /\ UNCHANGED <<tokens, staff, entry, updates, edits, late, raced, taken>>

\* Thirty days have passed; an answer does not travel for so long.
Expire(t) ==
  /\ tokens[t] # Nobody /\ ~tokens[t].expired /\ lost < MaxLost /\ lost' = lost + 1
  /\ \A c \in Callers : At(c, "answer") => calls[c].new # t
  /\ tokens' = [tokens EXCEPT ![t].expired = TRUE]
  /\ cut' = (cut \/ (t = held.refresh /\ ~Renewing))
  /\ UNCHANGED <<staff, held, calls, entry, updates, edits, late, raced, taken>>

----------------------------------------------------------------------------
\* login and logout.

\* login, up to the issue of the token: from the back office (whose browser renews its token
\* with the same check and the same issue), or from the till that the holder attaches (enroll,
\* recoverPin), which is asking for nothing else.
SignIn(u, of) ==
  /\ entry = Nobody /\ Usable(u) /\ Room
  /\ of = "till" => u = Holder /\ \A c \in Callers : calls[c] = Nobody
  /\ entry' = [user |-> u, of |-> of]
  /\ UNCHANGED <<tokens, staff, held, calls, updates, edits, lost, late, raced, taken, cut>>

\* loadSession and buildSession; the till stores what it is answered.
OpenSession ==
  /\ entry # Nobody /\ entry' = Nobody
  /\ tokens' = Issue(entry.user, entry.of)
  /\ IF entry.of = "till" THEN held' = [refresh |-> LastToken + 1, fresh |-> TRUE] /\ cut' = FALSE
     ELSE UNCHANGED <<held, cut>>
  /\ UNCHANGED <<staff, calls, updates, edits, lost, late, raced, taken>>

\* The back office gives its token back, or an account all of its own (no client asks for
\* that, but the handler does it).  No screen of the till calls logout.
Logout(u, of) ==
  /\ \/ \E t \in Ids : of = {t} /\ tokens[t] # Nobody /\ tokens[t].of = "office" /\ UNCHANGED cut
     \/ of = Ids /\ cut' = (cut \/ u = Holder)
  /\ tokens' = Revoked({t \in of : tokens[t] # Nobody /\ tokens[t].user = u}) /\ tokens' # tokens
  /\ UNCHANGED <<staff, held, calls, entry, updates, edits, lost, late, raced, taken>>

----------------------------------------------------------------------------
\* refresh, one transaction at a time.

\* A token that is revoked, or past its thirty days, is refused.
FindToken(c) ==
  /\ At(c, "find")
  /\ IF tokens[calls[c].sent].revoked \/ tokens[calls[c].sent].expired THEN Hang(c)
     ELSE GoTo(c, "revoke")
  /\ UNCHANGED <<tokens, staff, held, entry, updates, edits, lost, late, raced, taken, cut>>

RevokeToken(c) ==
  /\ At(c, "revoke")
  /\ tokens' = Revoked({calls[c].sent}) /\ GoTo(c, "user")
  /\ UNCHANGED <<staff, held, entry, updates, edits, lost, late, raced, taken, cut>>

\* Whether the account may have another token.
MayRefresh(u) == Usable(u)

FindUser(c) ==
  /\ At(c, "user")
  /\ IF MayRefresh(tokens[calls[c].sent].user) THEN GoTo(c, "issue") /\ UNCHANGED cut
     ELSE Hang(c) /\ cut' = TRUE
  /\ UNCHANGED <<tokens, staff, held, entry, updates, edits, lost, late, raced, taken>>

\* loadSession and buildSession
IssueToken(c) ==
  /\ At(c, "issue")
  /\ tokens' = Issue(tokens[calls[c].sent].user, tokens[calls[c].sent].of)
  /\ calls' = [calls EXCEPT ![c].at = "answer", ![c].new = LastToken + 1]
  /\ UNCHANGED <<staff, held, entry, updates, edits, lost, late, raced, taken, cut>>

----------------------------------------------------------------------------
\* The accounts, from the back office.

ActiveOwners == {u \in Staff : staff[u].role = "owner" /\ Usable(u)}

\* Whether an owner may be changed.
OwnerMayChange(u) == staff[u].role = "owner" => Cardinality(ActiveOwners) > 1

\* update and remove, up to their transaction.
CheckUpdate(u, what) ==
  /\ edits < MaxChanges /\ edits' = edits + 1
  /\ ~staff[u].deleted
  /\ what \in {"demote", "deactivate", "remove"} => OwnerMayChange(u)
  /\ updates' = updates \cup {[user |-> u, what |-> what]}
  /\ raced' = (raced \/ updates # {})
  /\ UNCHANGED <<tokens, staff, held, calls, entry, lost, late, taken, cut>>

CommitUpdate(g) ==
  /\ staff' = [staff EXCEPT ![g.user] =
       CASE g.what = "demote"     -> [@ EXCEPT !.role = "manager"]
         [] g.what = "activate"   -> [@ EXCEPT !.active = TRUE]
         [] g.what = "deactivate" -> [@ EXCEPT !.active = FALSE]
         [] g.what = "remove"     -> [@ EXCEPT !.active = FALSE, !.deleted = TRUE]]
  /\ tokens' = IF g.what # "remove" THEN tokens
               ELSE Revoked({t \in Ids : tokens[t] # Nobody /\ tokens[t].user = g.user})
  /\ updates' = updates \ {g}
  /\ late' = IF /\ g.what = "remove"
                /\ Past(g.user) # {} \/ (entry # Nobody /\ entry.user = g.user)
             THEN late \cup {g.user} ELSE late
  /\ cut' = (cut \/ (g.what = "remove" /\ g.user = Holder))
  /\ UNCHANGED <<held, calls, entry, edits, lost, raced, taken>>

\* The mutation of a till reaches the handler of the accounts, which counts no owners: the
\* till did (hasOtherActiveOwner), over accounts that may be old.
PushAccount(u, to) ==
  /\ edits < MaxChanges /\ edits' = edits + 1
  /\ ~staff[u].deleted /\ to # staff[u]
  /\ to = [staff[u] EXCEPT !.role = to.role] \/ to = [staff[u] EXCEPT !.active = to.active]
  /\ u \in ActiveOwners => Staff # {u}
  /\ staff' = [staff EXCEPT ![u] = to]
  /\ raced' = (raced \/ (u \in ActiveOwners /\ updates # {}))
  /\ taken' = (taken \/ ActiveOwners = {u})
  /\ UNCHANGED <<tokens, held, calls, entry, updates, lost, late, cut>>

ServerNext ==
  \/ AccessExpires \/ OpenSession
  \/ \E t \in Ids : Expire(t)
  \/ \E u \in Staff, of \in Uses : SignIn(u, of)
  \/ \E u \in Staff, of \in {{t} : t \in Ids} \cup {Ids} : Logout(u, of)
  \/ \E c \in Callers : \/ AskRefresh(c) \/ StoreTokens(c) \/ Lose(c) \/ StopStoring(c)
                        \/ FindToken(c) \/ RevokeToken(c) \/ FindUser(c) \/ IssueToken(c)
  \/ \E u \in Staff, what \in {"demote", "activate", "deactivate", "remove"} : CheckUpdate(u, what)
  \/ \E g \in updates : CommitUpdate(g)
  \/ \E u \in Staff, to \in Person : PushAccount(u, to)

----------------------------------------------------------------------------
\* Properties.

\* The till that is asking for nothing holds a token the server will take, unless an answer
\* was lost, its account closed or logged out everywhere, or its token kept for more than
\* thirty days: the rotation never leaves it with a dead one, though two of its callers may
\* rotate the same token at once (accessToken, refresh).
StaysConnected ==
  (\A c \in Callers : calls[c] = Nobody)
    => cut \/ (~tokens[held.refresh].revoked /\ ~tokens[held.refresh].expired)

\* An account that was removed holds no live token, of a till or of the back office, but for a
\* refresh or a sign-in already let through.
RemovedIsOut ==
  \A u \in Staff \ late, t \in Ids :
    staff[u].deleted /\ tokens[t] # Nobody /\ tokens[t].user = u => tokens[t].revoked

\* Changes made one after the other leave the company an active owner (countActiveOwners is
\* read in a transaction of its own: two at once may leave none), unless a till's push, which
\* no one counts, took the last one.
CompanyKeepsOwner == raced \/ taken \/ ActiveOwners # {}

\* Sessions follow accounts: a till in order stays connected, a removed account is out.
SessionsFollow == StaysConnected /\ RemovedIsOut
=============================================================================
