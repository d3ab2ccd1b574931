------------------------- MODULE ServerTransactions -------------------------
(***************************************************************************)
(* The server handling several pushed mutations at a time, statement by    *)
(* statement (applyOne of apps/api/src/modules/sync/sync.service.ts).      *)
(* SyncProtocol takes a mutation for one step of the server; here it is    *)
(* the transaction it really is, at PostgreSQL's default READ COMMITTED:   *)
(* a SELECT reads what is committed when it runs, an UPDATE waits for the  *)
(* row's lock and changes the newest version of it, an INSERT waits for an *)
(* uncommitted row of the same key and throws if that row is committed,    *)
(* and a sequence gives its numbers at once and never takes them back.     *)
(*                                                                         *)
(* Each till has one mutation, made from version 1 of the shared product   *)
(* or creating a journal row of its own, and may send it again while an    *)
(* earlier sending is still being handled: its request timed out.          *)
(***************************************************************************)
EXTENDS Naturals, FiniteSets, MergeRules

CONSTANTS
    Device,    \* the tills: positive numbers, ordered as their identifiers
    Field,     \* the writable fields of the product
    Sensitive, \* those of MANUAL_CONFLICT_FIELDS
    Clock,     \* the dates of the edits
    MaxSends,  \* bound: sendings of a mutation
    MaxAborts  \* bound: transactions that fail for no reason of their own

ASSUME ServerAssumption ==
    /\ Device \subseteq Nat \ {0}
    /\ Sensitive \subseteq Field
    /\ Clock \subseteq Nat
    /\ MaxSends \in Nat \ {0}
    /\ MaxAborts \in Nat

VARIABLES
    edit,      \* what each till pushes
    \* Committed
    row,       \* the product
    journal,   \* the tills whose journal row is there
    log,       \* change_log
    processed, \* processed_mutation: the stored answer, "none" before
    \* Shared by the transactions
    seq,       \* the last number change_log has given
    lock,      \* the request that locks a row, Free if none
    \* Of each request
    pc,        \* its next statement
    found,     \* the product as it read it
    out,       \* the outcome of its resolution
    work,      \* its entry of the log, uncommitted
    reply,     \* its answer
    \* Of each till
    cursor,    \* the last seq it pulled
    got,       \* every seq it pulled
    overtaken, \* those drawn and not committed when it pulled (read by properties only)
    aborts

dbVars   == <<row, journal, log, processed>>
pullVars == <<cursor, got, overtaken>>
vars == <<edit, dbVars, seq, lock, pc, found, out, work, reply, pullVars, aborts>>

-----------------------------------------------------------------------------
Nobody  == 0
Product == 0
\* The product, or the journal row of till d.
Entity  == Device \cup {Product}
Request == Device \X (1..MaxSends)
Free    == <<Nobody, 0>>

Row == [v : Nat, val : [Field -> Device \cup {Nobody}], ts : Nat, del : BOOLEAN]
Seed == [v |-> 1, val |-> [f \in Field |-> Nobody], ts |-> 0, del |-> FALSE]

\* A till creates its journal row, or updates or deletes the product.
Mutation == [op : {"create", "update", "delete"}, fields : SUBSET Field, ts : Nat]
Edits == {[op |-> o, fields |-> {}, ts |-> t] : o \in {"create", "delete"}, t \in Clock}
           \cup {[op |-> "update", fields |-> F, ts |-> t] :
                   F \in (SUBSET Field) \ {{}}, t \in Clock}

Answer == {"none", "applied", "merged", "ignored", "conflict", "rejected"}
Labels == {"unsent", "sent", "new", "found", "weighed", "written", "logged", "stored", "done"}

Entry == [seq : Nat, dev : Device \cup {Nobody}, ent : Entity, row : Row, fields : SUBSET Field]
SeedEntry == [seq |-> 1, dev |-> Nobody, ent |-> Product, row |-> Seed, fields |-> Field]

Target(d) == IF edit[d].op = "create" THEN d ELSE Product

Init ==
    /\ edit \in [Device -> Edits]
    /\ row = Seed
    /\ journal = {}
    /\ log = {SeedEntry}
    /\ processed = [d \in Device |-> "none"]
    /\ seq = 1
    /\ lock = [e \in Entity |-> Free]
    /\ pc = [r \in Request |-> "unsent"]
    /\ found = [r \in Request |-> Seed]
    /\ out = [r \in Request |-> Outcome("ignore", {})]
    /\ work = [r \in Request |-> SeedEntry]
    /\ reply = [r \in Request |-> "none"]
    /\ cursor = [d \in Device |-> 1]
    /\ got = [d \in Device |-> {1}]
    /\ overtaken = [d \in Device |-> {}]
    /\ aborts = 0

-----------------------------------------------------------------------------
Go(r, label) == pc' = [pc EXCEPT ![r] = label]

\* The request ends with this answer.
Reply(r, a) == Go(r, "done") /\ reply' = [reply EXCEPT ![r] = a]

\* The till sends its mutation, again if the answer to the last was too long.
Send(d, n) ==
    /\ pc[<<d, n>>] = "unsent"
    /\ \A k \in 1..(n - 1) : pc[<<d, k>>] # "unsent"
    /\ Go(<<d, n>>, "sent")
    /\ UNCHANGED <<edit, dbVars, seq, lock, found, out, work, reply, pullVars, aborts>>

\* Has the mutation been processed?  The answer it got then is given again.
Dedupe(r) ==
    /\ pc[r] = "sent"
    /\ IF processed[r[1]] # "none"
       THEN Reply(r, processed[r[1]])
       ELSE Go(r, "new") /\ UNCHANGED reply
    /\ UNCHANGED <<edit, dbVars, seq, lock, found, out, work, pullVars, aborts>>

\* The row is read.  Nothing is written over a deleted row, and a journal row
\* that is there is not created.
Find(r) ==
    LET e    == edit[r[1]]
        kept == \/ e.op = "create" /\ r[1] \in journal
                \/ e.op # "create" /\ row.del IN
    /\ pc[r] = "new"
    /\ found' = [found EXCEPT ![r] = row]
    /\ out' = [out EXCEPT ![r] = Outcome(IF kept THEN "ignore" ELSE "apply", e.fields)]
    /\ Go(r, CASE kept -> "logged"
               [] ~kept /\ e.op = "update" -> "found"
               [] OTHER -> "weighed")
    /\ UNCHANGED <<edit, dbVars, seq, lock, work, reply, pullVars, aborts>>

ProductEntries == {x \in log : x.ent = Product}
FieldsChangedSince(base) == UNION {x.fields : x \in {y \in ProductEntries : y.row.v > base}}
LastWriter == (CHOOSE x \in ProductEntries : \A y \in ProductEntries : y.seq <= x.seq).dev

\* The log is read, and the update resolved against the row read before.
Weigh(r) ==
    LET e   == edit[r[1]]
        res == ResolveUpdate([clientFields  |-> e.fields,
                              fieldsSince   |-> FieldsChangedSince(1),
                              baseVersion   |-> 1,
                              serverVersion |-> found[r].v,
                              clientTs      |-> e.ts,
                              serverTs      |-> found[r].ts,
                              clientDev     |-> r[1],
                              serverDev     |-> LastWriter,
                              serverDeleted |-> FALSE], Sensitive) IN
    /\ pc[r] = "found"
    /\ out' = [out EXCEPT ![r] = res]
    /\ Go(r, IF res.kind \in {"apply", "merge"} THEN "weighed" ELSE "logged")
    /\ UNCHANGED <<edit, dbVars, seq, lock, found, work, reply, pullVars, aborts>>

\* What the write makes of the row `old`.
RowOver(r, old) ==
    LET e == edit[r[1]] IN
    CASE e.op = "create" -> [Seed EXCEPT !.ts = e.ts]
      [] e.op = "delete" -> [old EXCEPT !.v = old.v + 1, !.del = TRUE]
      [] OTHER -> [old EXCEPT !.v = old.v + 1, !.ts = e.ts,
                    !.val = [f \in Field |-> IF f \in out[r].fields THEN r[1] ELSE old.val[f]]]

\* Seeded fault: columns set over the row read before the lock was there.
WrittenStale(r) == RowOver(r, found[r])
Written(r) == RowOver(r, row)

\* The row is written and locked.  A journal row committed meanwhile by another
\* sending makes the insertion throw: see Throw.
WriteRow(r) ==
    LET e == Target(r[1]) IN
    /\ pc[r] = "weighed"
    /\ lock[e] = Free
    /\ ~(e # Product /\ e \in journal)
    /\ lock' = [lock EXCEPT ![e] = r]
    /\ work' = [work EXCEPT ![r] = [seq |-> 0, dev |-> r[1], ent |-> e, row |-> Written(r),
                                    fields |-> out[r].fields]]
    /\ Go(r, "written")
    /\ UNCHANGED <<edit, dbVars, seq, found, out, reply, pullVars, aborts>>

\* The change is logged: it takes the next number now, and shows at the commit.
LogChange(r) ==
    /\ pc[r] = "written"
    /\ seq' = seq + 1
    /\ work' = [work EXCEPT ![r].seq = seq + 1]
    /\ Go(r, "logged")
    /\ UNCHANGED <<edit, dbVars, lock, found, out, reply, pullVars, aborts>>

\* The answer is stored under the key of the mutation.  Another sending that has
\* inserted it is waited for; one that has committed it makes this one throw.
KeyFree(d) == \A n \in 1..MaxSends : pc[<<d, n>>] # "stored"
\* Seeded fault: the key is not unique.
StorableAny(r) == pc[r] = "logged"
Storable(r) == pc[r] = "logged" /\ KeyFree(r[1]) /\ processed[r[1]] = "none"

StoreAnswer(r) ==
    /\ Storable(r)
    /\ Go(r, "stored")
    /\ UNCHANGED <<edit, dbVars, seq, lock, found, out, work, reply, pullVars, aborts>>

Wrote(r) == \E e \in Entity : lock[e] = r
AnswerOf(r) ==
    CASE out[r].kind = "manual" -> "conflict"
      [] out[r].kind = "ignore" -> "ignored"
      [] out[r].kind = "merge"  -> "merged"
      [] OTHER -> "applied"

\* The locks a transaction held are free again; seeded fault: they outlive it.
Kept(r) == UNCHANGED lock
Released(r) == lock' = [e \in Entity |-> IF lock[e] = r THEN Free ELSE lock[e]]

CommitTx(r) ==
    /\ pc[r] = "stored"
    /\ row' = IF lock[Product] = r THEN work[r].row ELSE row
    /\ journal' = IF lock[r[1]] = r THEN journal \cup {r[1]} ELSE journal
    /\ log' = IF Wrote(r) THEN log \cup {work[r]} ELSE log
    /\ processed' = [processed EXCEPT ![r[1]] = AnswerOf(r)]
    /\ Released(r)
    /\ Reply(r, AnswerOf(r))
    /\ UNCHANGED <<edit, seq, found, out, work, pullVars, aborts>>

\* A key that is already there, a timeout of the transaction or a failure of the
\* database: the transaction is undone and the mutation refused.
Throw(r) ==
    LET twice == \/ pc[r] = "weighed" /\ edit[r[1]].op = "create" /\ r[1] \in journal
                 \/ pc[r] = "logged" /\ processed[r[1]] # "none" IN
    /\ pc[r] \in {"new", "found", "weighed", "written", "logged", "stored"}
    /\ \/ twice /\ UNCHANGED aborts
       \/ ~twice /\ aborts < MaxAborts /\ aborts' = aborts + 1
    /\ Released(r)
    /\ Reply(r, "rejected")
    /\ UNCHANGED <<edit, dbVars, seq, found, out, work, pullVars>>

\* A till pulls what is committed after its cursor, but for its own.
Fresh(d) == {x \in log : x.seq > cursor[d] /\ x.dev # d}
InFlight(d) ==
    {work[r].seq : r \in {q \in Request : q[1] # d /\ pc[q] \in {"logged", "stored"}}}
Pull(d) ==
    /\ Fresh(d) # {}
    /\ got' = [got EXCEPT ![d] = @ \cup {x.seq : x \in Fresh(d)}]
    /\ cursor' = [cursor EXCEPT ![d] =
                   CHOOSE s \in {x.seq : x \in Fresh(d)} : \A x \in Fresh(d) : x.seq <= s]
    /\ overtaken' = [overtaken EXCEPT ![d] = @ \cup {s \in InFlight(d) : s < cursor'[d]}]
    /\ UNCHANGED <<edit, dbVars, seq, lock, pc, found, out, work, reply, aborts>>

-----------------------------------------------------------------------------
Handle(r) ==
    \/ Dedupe(r) \/ Find(r) \/ Weigh(r) \/ WriteRow(r) \/ LogChange(r)
    \/ StoreAnswer(r) \/ CommitTx(r) \/ Throw(r)

Next ==
    \/ \E r \in Request : Handle(r) \/ Send(r[1], r[2])
    \/ \E d \in Device : Pull(d)

Spec == Init /\ [][Next]_vars

-----------------------------------------------------------------------------
\* Every variable has its type: what the columns and a transaction can hold.
TypeOK ==
    /\ edit \in [Device -> Mutation]
    /\ row \in Row
    /\ journal \subseteq Device
    /\ log \subseteq Entry
    /\ processed \in [Device -> Answer]
    /\ seq \in Nat
    /\ lock \in [Entity -> Request \cup {Free}]
    /\ pc \in [Request -> Labels]
    /\ found \in [Request -> Row]
    /\ out \in [Request -> [kind : {"apply", "merge", "manual", "ignore"},
                            fields : SUBSET Field]]
    /\ work \in [Request -> Entry]
    /\ reply \in [Request -> Answer]
    /\ cursor \in [Device -> Nat]
    /\ got \in [Device -> SUBSET Nat]
    /\ overtaken \in [Device -> SUBSET Nat]
    /\ aborts \in 0..MaxAborts

\* A mutation two of whose sendings are handled at a time is published once at
\* most, and exactly once when its stored answer says it was written.
PublishedOnce ==
    \A d \in Device :
        /\ \A x, y \in log : x.dev = d /\ y.dev = d => x = y
        /\ (\E x \in log : x.dev = d) <=> processed[d] \in {"applied", "merged"}

\* The log of the product has its versions in the order of seq, each once, up to
\* the row itself: a concurrent write is never lost under another.
LogFollowsVersions ==
    /\ \A x, y \in ProductEntries : x.seq < y.seq <=> x.row.v < y.row.v
    /\ {x.row.v : x \in ProductEntries} = 1..row.v
    /\ \E x \in ProductEntries : x.row = row

\* The answers a till gets to several sendings of one mutation never disagree,
\* but for a refusal (sync.service.ts:143).
AnswersAgree ==
    \A d \in Device, n \in 1..MaxSends :
        reply[<<d, n>>] \in {"none", "rejected", processed[d]}

\* A mutation is published once and answered the same, however often it is sent.
AnsweredOnce == PublishedOnce /\ AnswersAgree

\* A deletion once published is never undone, even when an update that read the
\* row before it is written after it.
DeletionWins == (\E x \in ProductEntries : x.row.del) => row.del

\* A change a till's cursor has passed, and that it was not given, had drawn its
\* number without being committed when the till pulled a later one: a pull skips
\* no other ("jamais sauter un changement", engine.ts:301).
SkipsOnlyOvertaken ==
    \A d \in Device : \A x \in log :
        x.dev # d /\ x.seq <= cursor[d] => x.seq \in got[d] \cup overtaken[d]

\* The row, its versions, its log and what the tills pull of it are one history,
\* every value well typed.
VersionsHold == TypeOK /\ LogFollowsVersions /\ DeletionWins /\ SkipsOnlyOvertaken

InProgress(r) == pc[r] \notin {"unsent", "done"}

\* Transactions that wait for a row or for a key never wait for each other: as
\* long as a request is being handled, one of them can go on, so all are answered
\* (a transaction writes one row, then inserts its key, sync.service.ts:157).
SomeRequestAdvances ==
    (\E r \in Request : InProgress(r)) => ENABLED (\E r \in Request : Handle(r))
=============================================================================
