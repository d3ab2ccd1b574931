---------------------------- MODULE EntityFields ----------------------------
(***************************************************************************)
(* What a field typed on one till becomes on the server and on the other   *)
(* tills, for one row of any kind: the repository sends it, the handler of *)
(* the server stores it (or not), the change is published with what the    *)
(* mapper makes of the row, and each till takes in the columns it has.     *)
(* The tables are in EntityTables.  The value of a field is the number of  *)
(* the mutation that wrote it, Unset where none did.                       *)
(*                                                                         *)
(* Crashes, lost answers, pages, foreign keys and the settling of          *)
(* conflicts are in SyncProtocol, which has no fields by name.             *)
(***************************************************************************)
EXTENDS Naturals, Sequences, FiniteSets, MergeRules, EntityTables

CONSTANTS
    Till,         \* positive numbers, ordered as the identifiers of the devices
    Kinds,        \* the kinds of row looked at
    Dates,        \* what the tills' clocks may show, which need not agree
    MaxMutations, \* creations, updates and deletions in all
    MaxAttempts,  \* MAX_ATTEMPTS of a refused mutation
    MaxDeferred   \* MAX_DEFERRED_ATTEMPTS of a change that does not apply

ASSUME FieldsAssumption ==
    /\ Till \subseteq Nat \ {0} /\ Dates \subseteq Nat \ {0}
    /\ Kinds \subseteq DOMAIN FieldsOf
    /\ {MaxMutations, MaxAttempts, MaxDeferred} \subseteq Nat \ {0}

VARIABLES
    kind,    \* the kind of the row
    server,  \* the row on the server
    log,     \* change_log
    replies, \* processed_mutations: the answers by mutation
    tillRow, \* the row on each till
    queue,   \* the outbox of each till, with what has left it
    cursor,  \* how far each till has read the log
    waiting  \* the changes each till has put aside, with their attempts

fieldsVars == <<kind, server, log, replies, tillRow, queue, cursor, waiting>>

Unset == 0
Fields == FieldsOf[kind]
Registered == kind \in DOMAIN ENTITY_HANDLERS
Handler == ENTITY_HANDLERS[kind]
Payload == PayloadOf[kind]
Columns == ColumnsOf[kind]
Sensitive == IF kind \in DOMAIN MANUAL_CONFLICT_FIELDS THEN MANUAL_CONFLICT_FIELDS[kind] ELSE {}

Blank == [f \in Fields |-> Unset]
FieldRow(val, version, date, deleted) ==
    [val |-> val, version |-> version, date |-> date, deleted |-> deleted]
NoRow == FieldRow(Blank, 0, 0, FALSE)
Present(row) == row.version > 0

Overwrite(val, fields, m) == [f \in Fields |-> IF f \in fields THEN m ELSE val[f]]

\* A company is on the server and on every till from the start.
FieldsInit ==
    /\ kind \in Kinds
    /\ server = IF kind = "company" THEN FieldRow(Blank, 1, 0, FALSE) ELSE NoRow
    /\ log = <<>>
    /\ replies = <<>>
    /\ tillRow = [t \in Till |-> server]
    /\ queue = [t \in Till |-> <<>>]
    /\ cursor = [t \in Till |-> 0]
    /\ waiting = [t \in Till |-> <<>>]

-----------------------------------------------------------------------------
(* Writes on a till: the row and its mutation.                              *)
Mutations == UNION {{queue[t][i] : i \in DOMAIN queue[t]} : t \in Till}
NextId == Cardinality(Mutations) + 1

Sent(op, fields, base, date) ==
    [id |-> NextId, op |-> op, fields |-> fields, base |-> base, date |-> date,
     status |-> "pending", tries |-> 0]

Enqueued(t, op, fields, base, date) ==
    /\ NextId <= MaxMutations
    /\ queue' = [queue EXCEPT ![t] = Append(@, Sent(op, fields, base, date))]
    /\ UNCHANGED <<kind, server, log, replies, cursor, waiting>>

CreateRow(t, d) ==
    /\ NextId = 1 /\ kind # "company"
    /\ tillRow' = [tillRow EXCEPT ![t] = FieldRow(Overwrite(Blank, EditsOf[kind].created, NextId), 1, d, FALSE)]
    /\ Enqueued(t, "create", EditsOf[kind].created, 0, d)

\* A session is closed once, by the register that opened it.
MayEdit(t) ==
    /\ Present(tillRow[t]) /\ ~tillRow[t].deleted
    /\ kind = "cash_session" =>
        /\ tillRow[t].val["status"] = 1
        /\ \E i \in DOMAIN queue[t] : queue[t][i].op = "create"

\* The version the update says it was made from: the number the row has here.
BaseSent(t) == IF EditsOf[kind].based THEN tillRow[t].version ELSE 0

EditRow(t, fields, d) ==
    /\ MayEdit(t)
    /\ tillRow' = [tillRow EXCEPT ![t] =
           FieldRow(Overwrite(@.val, fields, NextId), @.version + 1, d, FALSE)]
    /\ Enqueued(t, "update", fields, BaseSent(t), d)

DeleteRow(t, d) ==
    /\ EditsOf[kind].deletes
    /\ Present(tillRow[t]) /\ ~tillRow[t].deleted
    /\ tillRow' = [tillRow EXCEPT ![t] =
           [@ EXCEPT !.deleted = TRUE, !.version = @ + 1, !.date = d]]
    /\ Enqueued(t, "delete", {}, BaseSent(t), d)

-----------------------------------------------------------------------------
(* The server handles one mutation.                                         *)
Due(t) ==
    {i \in DOMAIN queue[t] :
        \/ queue[t][i].status = "pending"
        \/ queue[t][i].status = "failed" /\ queue[t][i].tries < MaxAttempts}

Handled(m) == m.id \in DOMAIN replies
NextDue(t) ==
    {i \in Due(t) : ~Handled(queue[t][i]) /\ \A j \in Due(t) : j < i => Handled(queue[t][j])}

NoState == NoRow
Reply(m, status, state) ==
    replies' = [i \in DOMAIN replies \cup {m.id} |->
                   IF i = m.id THEN [status |-> status, state |-> state] ELSE replies[i]]

Published(t, row, fields) ==
    /\ server' = row
    /\ log' = Append(log, [by |-> t, row |-> row, fields |-> fields])

Unpublished == UNCHANGED <<server, log>>

ServeNew(t, m) ==
    /\ m.op = "create"
    /\ LET row == FieldRow(Overwrite(Blank, m.fields \cap Handler.stored, m.id), 1, m.date, FALSE)
       IN Published(t, row, Payload)
    /\ Reply(m, "applied", NoState)

ServeGone(m) ==
    /\ m.op # "create" /\ server.deleted
    /\ Unpublished
    /\ Reply(m, "ignored", server)

ServeRemoval(t, m) ==
    /\ m.op = "delete" /\ ~server.deleted
    /\ LET row == [server EXCEPT !.deleted = TRUE, !.version = @ + 1, !.date = m.date]
       IN Published(t, row, {"deletedAt"})
    /\ Reply(m, "applied", NoState)

LoggedSince(version) == UNION {log[s].fields : s \in {n \in DOMAIN log : log[n].row.version > version}}

RowResolution(t, m) ==
    ResolveUpdate([clientFields  |-> m.fields \cap Handler.writable,
                   fieldsSince   |-> LoggedSince(m.base),
                   baseVersion   |-> m.base,
                   serverVersion |-> server.version,
                   clientTs      |-> m.date,
                   serverTs      |-> server.date,
                   clientDev     |-> t,
                   serverDev     |-> IF log = <<>> THEN 0 ELSE log[Len(log)].by,
                   serverDeleted |-> FALSE], Sensitive)

ServeChange(t, m) ==
    /\ m.op = "update" /\ ~server.deleted
    /\ LET outcome == RowResolution(t, m)
           row == FieldRow(Overwrite(server.val, outcome.fields, m.id),
                           server.version + 1, m.date, FALSE)
       IN \/ /\ outcome.kind \in {"apply", "merge"}
             /\ Published(t, row, outcome.fields)
             /\ Reply(m, "applied", row)
          \/ /\ outcome.kind = "ignore"
             /\ Unpublished
             /\ Reply(m, "ignored", server)
          \/ /\ outcome.kind = "manual"
             /\ Unpublished
             /\ Reply(m, "conflict", server)

ServerHandles(t) ==
    /\ Registered
    /\ \E i \in NextDue(t) : LET m == queue[t][i] IN
         ServeNew(t, m) \/ ServeGone(m) \/ ServeRemoval(t, m) \/ ServeChange(t, m)
    /\ UNCHANGED <<kind, tillRow, queue, cursor, waiting>>

-----------------------------------------------------------------------------
(* A till takes in what it receives: the columns it knows, no others.  The  *)
(* insert is refused, even over a row it would update, when a column that   *)
(* must not be null is not among them.                                      *)
Taken == Payload \cap Columns
Fits == WantedOf[kind] \subseteq Taken

Upserted(row, state) ==
    FieldRow([f \in Fields |-> IF f \in Taken THEN state.val[f] ELSE row.val[f]],
             IF "version" \in Taken THEN state.version
             ELSE IF Present(row) THEN row.version ELSE 1,
             IF "updatedAt" \in Taken THEN state.date ELSE row.date,
             IF "deletedAt" \in Taken THEN state.deleted ELSE row.deleted)

\* What a push's answers make of the outbox.
Marked(m) ==
    IF m.status \notin {"pending", "failed"} \/ ~Handled(m) THEN m
    ELSE [m EXCEPT !.status = IF replies[m.id].status = "conflict" THEN "conflict" ELSE "done"]

\* The states the answers carry are written one after the other, whatever has
\* been typed since; one that does not fit stops the cycle before anything is
\* marked, and the same answers come back at the next.
TakeReplies(t) ==
    LET answered == {i \in Due(t) : Handled(queue[t][i])}
        carried  == {i \in answered :
                        LET r == replies[queue[t][i].id] IN r.status # "conflict" /\ r.state # NoState}
    IN /\ answered # {}
       /\ carried # {} => Fits
       /\ tillRow' = IF carried = {} THEN tillRow
                     ELSE LET last == CHOOSE i \in carried : \A j \in carried : j <= i
                          IN [tillRow EXCEPT ![t] = Upserted(@, replies[queue[t][last].id].state)]
       /\ queue' = [queue EXCEPT ![t] = [i \in DOMAIN @ |-> Marked(@[i])]]
       /\ UNCHANGED <<kind, server, log, replies, cursor, waiting>>

\* A mutation of a kind the server has no handler for is answered "rejected".
TakeRefusal(t) ==
    /\ ~Registered /\ Due(t) # {}
    /\ queue' = [queue EXCEPT ![t] = [i \in DOMAIN @ |->
           IF i \in Due(t) THEN [@[i] EXCEPT !.status = "failed", !.tries = @ + 1] ELSE @[i]]]
    /\ UNCHANGED <<kind, server, log, replies, tillRow, cursor, waiting>>

\* A change is passed over for a pending edit, a row as recent, or a journal row
\* that is there.
PendingEdit(t) == \E i \in DOMAIN queue[t] : queue[t][i].status \in {"pending", "failed"}
Stale(t, row) ==
    "version" \in Columns /\ Present(tillRow[t]) /\ row.version <= tillRow[t].version
KnownJournal(t) == Handler.kind = "immutable" /\ Present(tillRow[t])
Passed(t, row) == PendingEdit(t) \/ Stale(t, row) \/ KnownJournal(t)

PutAside(t, s) ==
    waiting' = [waiting EXCEPT ![t] = [n \in DOMAIN @ \cup {s} |->
                   IF n # s THEN @[n] ELSE IF s \in DOMAIN @ THEN @[s] + 1 ELSE 1]]
NoLongerAside(t, s) ==
    waiting' = [waiting EXCEPT ![t] = [n \in DOMAIN @ \ {s} |-> @[n]]]

Applies(t, s) ==
    LET row == log[s].row IN
    \/ /\ Passed(t, row) /\ NoLongerAside(t, s) /\ UNCHANGED tillRow
    \/ /\ ~Passed(t, row) /\ Fits
       /\ tillRow' = [tillRow EXCEPT ![t] = Upserted(@, row)]
       /\ NoLongerAside(t, s)
    \/ /\ ~Passed(t, row) /\ ~Fits
       /\ PutAside(t, s) /\ UNCHANGED tillRow

\* A cycle pulls after its push, and only if the answers to what it sent could be
\* taken; what is typed meanwhile stays for the next.
Answered(t) == \A i \in Due(t) : ~Handled(queue[t][i])

\* A till is not sent its own changes.
PullChange(t) ==
    /\ Answered(t) /\ cursor[t] < Len(log)
    /\ cursor' = [cursor EXCEPT ![t] = @ + 1]
    /\ IF log[cursor'[t]].by = t THEN UNCHANGED <<tillRow, waiting>> ELSE Applies(t, cursor'[t])
    /\ UNCHANGED <<kind, server, log, replies, queue>>

Retriable(t) == {s \in DOMAIN waiting[t] : waiting[t][s] < MaxDeferred}
ReplayChange(t) ==
    /\ Answered(t) /\ \E s \in Retriable(t) : Applies(t, s)
    /\ UNCHANGED <<kind, server, log, replies, queue, cursor>>

-----------------------------------------------------------------------------
Round(t) == ServerHandles(t) \/ TakeReplies(t) \/ TakeRefusal(t) \/ PullChange(t) \/ ReplayChange(t)

FieldsNext ==
    \E t \in Till :
        \/ \E d \in Dates : CreateRow(t, d) \/ DeleteRow(t, d)
        \/ \E d \in Dates, fields \in EditsOf[kind].updates : EditRow(t, fields, d)
        \/ Round(t)

FieldsSpec == FieldsInit /\ [][FieldsNext]_fieldsVars

\* The engine's timer comes back as long as the session lasts.
FieldsFairSpec == FieldsSpec /\ \A t \in Till : WF_fieldsVars(Round(t))

-----------------------------------------------------------------------------
AtRest ==
    \A t \in Till :
        /\ Due(t) = {} /\ cursor[t] = Len(log) /\ Retriable(t) = {}
        /\ \A i \in DOMAIN queue[t] : queue[t][i].status = "done"

\* The fields that never travel, though a till may set them: whether an article
\* may be sold beyond its stock is not stored by the server, the count of the
\* notes of a session is stored and not taken in by the other tills.
KeptApart == {"allowNegativeStock", "imagePath", "openingCount", "closingCount"}

\* Once everything has been sent and read, and nothing is left to settle, a field
\* typed on one till is the same on the server and on every till ("une colonne
\* oubliee ... produirait une divergence silencieuse entre deux caisses", apply.ts).
\* A company is excepted: the state the server sends of it does not fit.
FieldsTravel ==
    AtRest /\ Registered /\ kind # "company" /\ ~server.deleted => \A t \in Till :
        /\ ~tillRow[t].deleted /\ Present(tillRow[t]) = Present(server)
        /\ \A f \in Fields \ KeptApart : tillRow[t].val[f] = server.val[f]

\* An update of fields that no other update writes is never set aside for a
\* conflict, and once accepted the server keeps it, however the tills' clocks
\* disagree ("champs disjoints : fusion, les deux modifications survivent",
\* merge.ts:12).  The accounts are excepted: their updates do not say which
\* version they were made from, and the one with the earlier date is dropped.
Alone(m) ==
    /\ m.op = "update"
    /\ \A n \in Mutations \ {m} : n.op = "update" => n.fields \cap m.fields = {}
LoneEditStands ==
    kind \notin {"app_user", "company"} /\ ~server.deleted =>
        \A m \in Mutations : Alone(m) =>
            /\ m.status # "conflict"
            /\ m.status = "done" => \A f \in m.fields \cap DOMAIN server.val : server.val[f] = m.id

\* Whatever is typed in whatever field reaches every till, and what one till alone has typed
\* is kept.
NothingTypedIsLost == FieldsTravel /\ LoneEditStands

\* What a till has typed is answered or refused for good, so that what is typed
\* after it can leave ("une caisse ne doit jamais se retrouver incapable de
\* remonter ses ventes", outbox.repository.ts:70).
QueueClears == \A t \in Till : []<>(Due(t) = {})
=============================================================================
