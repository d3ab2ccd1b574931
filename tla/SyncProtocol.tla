---------------------------- MODULE SyncProtocol ----------------------------
(***************************************************************************)
(* Synchronisation of the tills with the server: the outbox of each till   *)
(* (apps/desktop/src/core/db/repositories/outbox.repository.ts), the cycle *)
(* of its engine (core/sync/engine.ts, apply.ts, deferred.ts,              *)
(* conflicts.ts) and the server that arbitrates the pushed mutations and   *)
(* publishes the change log (apps/api/src/modules/sync/sync.service.ts).   *)
(*                                                                         *)
(* A step of a till is one SQL write with the reads that precede it, or a  *)
(* read whose result a later write uses: between two awaits the cashier    *)
(* may edit, the server may work for another till, the program may die.    *)
(* Forgetting a change put aside goes with the write that applies it: gone *)
(* through twice, it is passed over.  A mutation is one transaction of the *)
(* server.                                                                 *)
(*                                                                         *)
(* The value of a field is the number of the mutation that wrote it, 0 for *)
(* the value it had at the start.  Mutations are numbered in the order     *)
(* they are issued, which for one till is the order of its outbox.         *)
(***************************************************************************)
EXTENDS Naturals, Sequences, FiniteSets, MergeRules

CONSTANTS
    Device,      \* the tills: positive numbers, ordered as their identifiers
    Entity,      \* the synchronised rows
    Journal,     \* those of an append-only entity (IMMUTABLE_ENTITIES)
    Field,       \* the writable fields of a mutable entity
    Sensitive,   \* those of MANUAL_CONFLICT_FIELDS
    Needs,       \* the rows an entity references, on both databases
    Seeded,      \* the rows every till and the server hold at the start
    Clock,       \* the dates a till may stamp on an edit
    MaxEdits,    \* bound: edits of the cashiers
    MaxMut,      \* bound: mutations, with those that settle a conflict
    MaxFaults,   \* bound: lost replies, crashes and failed transactions
    MaxAttempts, \* MAX_ATTEMPTS of the outbox
    MaxDeferred, \* MAX_DEFERRED_ATTEMPTS of the deferred changes
    BatchSize,   \* SYNC_PUSH_BATCH_SIZE
    PageSize     \* SYNC_PULL_PAGE_SIZE

ASSUME SyncAssumption ==
    /\ Device \subseteq Nat \ {0}
    /\ Entity # {}
    /\ Journal \subseteq Entity
    /\ Sensitive \subseteq Field
    /\ Needs \in [Entity -> SUBSET Entity]
    /\ Seeded \in Seq(Entity \ Journal)
    /\ \A i, j \in 1..Len(Seeded) : Seeded[i] = Seeded[j] => i = j
    /\ Clock \subseteq Nat
    /\ MaxEdits \in Nat
    /\ MaxMut \in Nat
    /\ MaxFaults \in Nat
    /\ MaxAttempts \in Nat \ {0}
    /\ MaxDeferred \in Nat \ {0}
    /\ BatchSize \in Nat \ {0}
    /\ PageSize \in Nat \ {0}

VARIABLES
    \* The server
    srv,        \* its row of each entity
    total,      \* how often each journal row is counted in its stock level
    log,        \* change_log, in the order of seq
    processed,  \* processed_mutation: the stored answer of each mutation
    \* The network
    wire,       \* the mutations of each till's open request still to handle
    ghost,      \* those of a request its till has given up on
    reply,      \* the answers of the open requests
    \* Each till's database
    row,        \* its row of each entity
    level,      \* how often each journal row is counted in its stock level
    mut,        \* what the outbox row of each mutation holds
    st,         \* its status, "none" until it is enqueued
    att,        \* its attempts
    open,       \* pending sync_conflict rows of each mutation
    cursor,     \* sync_cursor
    deferred,   \* attempts of each change put aside, 0 when it is not
    \* Each till's memory
    edit,       \* the local write in progress
    pc,         \* the engine's next step
    sent,       \* the batch pushed
    todo,       \* its answers still to handle
    acked,      \* its accepted mutations, to mark as sent
    page,       \* the changes of the page or of the replay still to apply
    upto,       \* nextCursor of that page
    more,       \* hasMore
    replaying,  \* whether the engine replays deferred changes
    \* Bounds
    nextMut, faults

serverVars == <<srv, total, log, processed>>
netVars    == <<wire, ghost, reply>>
outboxVars == <<mut, st, att>>
replicaVars == <<row, level>>
pullVars   == <<page, upto, more, replaying>>
pushVars   == <<sent, todo, acked>>
vars == <<serverVars, netVars, outboxVars, replicaVars, open, cursor, deferred,
          edit, pc, pullVars, pushVars, nextMut, faults>>

-----------------------------------------------------------------------------
Mut    == 1..MaxMut
Change == 1..(MaxMut + Len(Seeded))
Nobody == 0

Row == [v : Nat, val : [Field -> 0..MaxMut], ts : Nat, del : BOOLEAN]
Absent == [v |-> 0, val |-> [f \in Field |-> 0], ts |-> 0, del |-> FALSE]
FirstRow(m, t) == [v |-> 1, val |-> [f \in Field |-> m], ts |-> t, del |-> FALSE]

\* `saw` is no column: it keeps, for the properties, what the author had on screen.
Mutation == [dev : Device \cup {Nobody}, ent : Entity, op : {"create", "update", "delete"},
             base : Nat, fields : SUBSET Field, val : 0..MaxMut, ts : Nat,
             saw : [Field -> 0..MaxMut]]

Unissued == [dev |-> Nobody, ent |-> CHOOSE e \in Entity : TRUE, op |-> "create",
             base |-> 0, fields |-> {}, val |-> 0, ts |-> 0, saw |-> Absent.val]

\* `state` is the serverState of the answer, Absent when it carries none.
Answer(status, state) == [status |-> status, state |-> state]
Status  == {"none", "applied", "merged", "ignored", "conflict", "rejected"}
Answers == [status : Status, state : Row]
NoAnswer == Answer("none", Absent)
Accepted == {"applied", "merged", "ignored"}

\* `mut` of an entry is not a column: it names the entry's author in properties.
Entry == [ent : Entity, row : Row, fields : SUBSET Field, dev : Nat, mut : 0..MaxMut]

\* A local write: the mutation still to enqueue, whether the stock level is still
\* to move, and the conflict it settles, still to close.
Edit == [mut : 0..MaxMut, bump : BOOLEAN, closes : 0..MaxMut]
NoEdit == [mut |-> 0, bump |-> FALSE, closes |-> 0]

\* A stock level once a movement is counted in it.
Counted(n) == n + 1

First(S, x) == x \in S /\ \A y \in S : x <= y
\* Seeded fault: the batch is read in descending order.
LastOf(S, n) == {x \in S : Cardinality({y \in S : y > x}) < n}
FirstOf(S, n) == {x \in S : Cardinality({y \in S : y < x}) < n}

Seed == [v |-> 1, val |-> [f \in Field |-> 0], ts |-> 0, del |-> FALSE]
IsSeeded(e) == \E i \in 1..Len(Seeded) : Seeded[i] = e
SeedRow(e) == IF IsSeeded(e) THEN Seed ELSE Absent

Init ==
    /\ srv = [e \in Entity |-> SeedRow(e)]
    /\ total = [e \in Entity |-> 0]
    /\ log = [i \in 1..Len(Seeded) |->
                [ent |-> Seeded[i], row |-> Seed, fields |-> Field, dev |-> Nobody, mut |-> 0]]
    /\ processed = [m \in Mut |-> NoAnswer]
    /\ wire = [d \in Device |-> {}]
    /\ ghost = [d \in Device |-> {}]
    /\ reply = [m \in Mut |-> NoAnswer]
    /\ row = [d \in Device |-> [e \in Entity |-> SeedRow(e)]]
    /\ level = [d \in Device |-> [e \in Entity |-> 0]]
    /\ mut = [m \in Mut |-> Unissued]
    /\ st = [m \in Mut |-> "none"]
    /\ att = [m \in Mut |-> 0]
    /\ open = [m \in Mut |-> 0]
    /\ cursor = [d \in Device |-> Len(Seeded)]
    /\ deferred = [d \in Device |-> [s \in Change |-> 0]]
    /\ edit = [d \in Device |-> NoEdit]
    /\ pc = [d \in Device |-> "idle"]
    /\ sent = [d \in Device |-> {}]
    /\ todo = [d \in Device |-> {}]
    /\ acked = [d \in Device |-> {}]
    /\ page = [d \in Device |-> {}]
    /\ upto = [d \in Device |-> 0]
    /\ more = [d \in Device |-> FALSE]
    /\ replaying = [d \in Device |-> FALSE]
    /\ nextMut = 1
    /\ faults = 0

-----------------------------------------------------------------------------
(* The cashier: a repository writes the row, then enqueues its mutation.    *)

Issued == 1..(nextMut - 1)
\* The outbox of a till, and what it still has to send.
Outbox(d)  == {m \in Mut : mut[m].dev = d /\ st[m] # "none"}
\* Seeded fault: a refused mutation is not sent again.
DueOnce(d) == {m \in Outbox(d) : st[m] = "pending"}
Due(d)     == {m \in Outbox(d) : st[m] = "pending" \/ (st[m] = "failed" /\ att[m] < MaxAttempts)}
Pending(d, e) == \E m \in Outbox(d) : mut[m].ent = e /\ st[m] \in {"pending", "failed"}

Holds(d, e) == row[d][e].v > 0
\* Seeded fault: the foreign keys are not enforced.
NeedsUnchecked(d, e) == TRUE
NeedsMet(d, e) == \A n \in Needs[e] : Holds(d, n)

\* Rows of a journal are never edited.
Editable(d, e) == e \notin Journal /\ Holds(d, e) /\ ~row[d][e].del

\* One local write: the row now, its mutation at the next statement.
Write(d, e, newRow, m) ==
    /\ nextMut <= MaxEdits /\ nextMut <= MaxMut
    /\ edit[d] = NoEdit
    /\ row' = [row EXCEPT ![d][e] = newRow]
    /\ mut' = [mut EXCEPT ![nextMut] = m]
    /\ edit' = [edit EXCEPT ![d] = [mut |-> nextMut, bump |-> e \in Journal, closes |-> 0]]
    /\ nextMut' = nextMut + 1
    /\ UNCHANGED <<serverVars, netVars, st, att, level, open, cursor, deferred, pc,
                   pullVars, pushVars, faults>>

\* A new row has a new identifier: nobody has ever written it.
LocalCreate(d, e, t) ==
    /\ srv[e].v = 0
    /\ \A m \in Issued : mut[m].ent # e
    /\ NeedsMet(d, e)
    /\ Write(d, e, FirstRow(nextMut, t),
             [dev |-> d, ent |-> e, op |-> "create", base |-> 0,
              fields |-> Field, val |-> nextMut, ts |-> t, saw |-> Absent.val])

LocalUpdate(d, e, F, t) ==
    LET cur == row[d][e] IN
    /\ Editable(d, e)
    /\ Write(d, e, [v |-> cur.v + 1, ts |-> t, del |-> FALSE,
                    val |-> [f \in Field |-> IF f \in F THEN nextMut ELSE cur.val[f]]],
             [dev |-> d, ent |-> e, op |-> "update", base |-> cur.v,
              fields |-> F, val |-> nextMut, ts |-> t, saw |-> cur.val])

LocalDelete(d, e, t) ==
    LET cur == row[d][e] IN
    /\ Editable(d, e)
    /\ Write(d, e, [v |-> cur.v + 1, val |-> cur.val, ts |-> t, del |-> TRUE],
             [dev |-> d, ent |-> e, op |-> "delete", base |-> cur.v,
              fields |-> {}, val |-> nextMut, ts |-> t, saw |-> cur.val])

\* A stock movement also moves the cached level of its product.
LocalLevel(d) ==
    LET m == edit[d].mut IN
    /\ m # 0 /\ edit[d].bump
    /\ level' = [level EXCEPT ![d][mut[m].ent] = Counted(level[d][mut[m].ent])]
    /\ edit' = [edit EXCEPT ![d] = [mut |-> m, bump |-> FALSE, closes |-> 0]]
    /\ UNCHANGED <<serverVars, netVars, outboxVars, row, open, cursor, deferred, pc,
                   pullVars, pushVars, nextMut, faults>>

Enqueue(d) ==
    /\ edit[d].mut # 0 /\ ~edit[d].bump
    /\ st' = [st EXCEPT ![edit[d].mut] = "pending"]
    /\ edit' = [edit EXCEPT ![d] = [mut |-> 0, bump |-> FALSE, closes |-> edit[d].closes]]
    /\ UNCHANGED <<serverVars, netVars, mut, att, replicaVars, open, cursor, deferred, pc,
                   pullVars, pushVars, nextMut, faults>>

Settles(d, m) == mut[m].dev = d /\ open[m] > 0 /\ edit[d] = NoEdit

\* A conflict settled for the server: the state it answered is written back.
ResolveServer(d, m) ==
    /\ Settles(d, m)
    /\ row' = [row EXCEPT ![d][mut[m].ent] = processed[m].state]
    /\ edit' = [edit EXCEPT ![d] = [mut |-> 0, bump |-> FALSE, closes |-> m]]
    /\ UNCHANGED <<serverVars, netVars, outboxVars, level, open, cursor, deferred, pc,
                   pullVars, pushVars, nextMut, faults>>

\* Settled for the till: its payload is written over the server's state and
\* sent again, based on the version of that state.
ResolveLocal(d, m, t) ==
    LET theirs == processed[m].state IN
    /\ Settles(d, m)
    /\ nextMut <= MaxMut
    /\ row' = [row EXCEPT ![d][mut[m].ent] =
                [v |-> theirs.v, ts |-> t, del |-> theirs.del,
                 val |-> [f \in Field |-> IF f \in mut[m].fields
                                          THEN mut[m].val ELSE theirs.val[f]]]]
    /\ mut' = [mut EXCEPT ![nextMut] =
                [dev |-> d, ent |-> mut[m].ent, op |-> "update", base |-> theirs.v,
                 fields |-> mut[m].fields, val |-> mut[m].val, ts |-> t, saw |-> theirs.val]]
    /\ edit' = [edit EXCEPT ![d] = [mut |-> nextMut, bump |-> FALSE, closes |-> m]]
    /\ nextMut' = nextMut + 1
    /\ UNCHANGED <<serverVars, netVars, st, att, level, open, cursor, deferred, pc,
                   pullVars, pushVars, faults>>

CloseConflict(d) ==
    LET m == edit[d].closes IN
    /\ m # 0 /\ edit[d].mut = 0
    /\ open' = [open EXCEPT ![m] = IF open[m] > 0 THEN open[m] - 1 ELSE 0]
    /\ edit' = [edit EXCEPT ![d] = NoEdit]
    /\ UNCHANGED <<serverVars, netVars, outboxVars, replicaVars, cursor, deferred, pc,
                   pullVars, pushVars, nextMut, faults>>

-----------------------------------------------------------------------------
(* The server: one transaction per mutation, in the order of the request.   *)
(* A request its till has abandoned is still served; its answers are lost.  *)

\* The next mutation of the open request of d, or of its abandoned one, is m,
\* and a is its answer.
Serve(d, m, a) ==
    \/ /\ First(wire[d], m)
       /\ wire' = [wire EXCEPT ![d] = @ \ {m}]
       /\ reply' = [reply EXCEPT ![m] = a]
       /\ UNCHANGED ghost
    \/ /\ First(ghost[d], m)
       /\ ghost' = [ghost EXCEPT ![d] = @ \ {m}]
       /\ UNCHANGED <<wire, reply>>

tillVars == <<outboxVars, replicaVars, open, cursor, deferred, edit, pc, pullVars,
              pushVars, nextMut>>

\* The transaction commits its answer with what it wrote.
Commit(d, m, a) ==
    /\ processed[m] = NoAnswer
    /\ processed' = [processed EXCEPT ![m] = a]
    /\ Serve(d, m, a)
    /\ UNCHANGED <<tillVars, faults>>

Publish(m, newRow, fields) ==
    /\ srv' = [srv EXCEPT ![mut[m].ent] = newRow]
    /\ log' = Append(log, [ent |-> mut[m].ent, row |-> newRow, fields |-> fields,
                           dev |-> mut[m].dev, mut |-> m])

NothingWritten == UNCHANGED <<srv, total, log>>

\* A mutation already processed gets the answer it got then.
ServeReplay(d, m) ==
    /\ processed[m] # NoAnswer
    /\ Serve(d, m, processed[m])
    /\ UNCHANGED <<serverVars, tillVars, faults>>

\* A row whose references are missing makes the transaction throw, as would a
\* failure of the database: rejected, and nothing of it is kept.
ServeThrow(d, m) ==
    LET orphan == mut[m].op = "create" /\ \E n \in Needs[mut[m].ent] : srv[n].v = 0 IN
    /\ processed[m] = NoAnswer
    /\ \/ orphan /\ UNCHANGED faults
       \/ ~orphan /\ faults < MaxFaults /\ faults' = faults + 1
    /\ Serve(d, m, Answer("rejected", Absent))
    /\ UNCHANGED <<serverVars, tillVars>>

\* Seeded fault: the row is written before anything is looked up.
CreateUnchecked(d, m) ==
    LET e == mut[m].ent IN
    /\ mut[m].op = "create"
    /\ \A n \in Needs[e] : srv[n].v > 0
    /\ Publish(m, FirstRow(mut[m].val, mut[m].ts), {})
    /\ total' = [total EXCEPT ![e] = Counted(total[e])]
    /\ processed' = [processed EXCEPT ![m] = Answer("applied", Absent)]
    /\ Serve(d, m, Answer("applied", Absent))
    /\ UNCHANGED <<tillVars, faults>>
ServeCreate(d, m) ==
    LET e == mut[m].ent
        new == FirstRow(mut[m].val, mut[m].ts) IN
    /\ mut[m].op = "create" /\ srv[e].v = 0
    /\ \A n \in Needs[e] : srv[n].v > 0
    /\ Publish(m, new, IF e \in Journal THEN {} ELSE Field)
    /\ total' = IF e \in Journal THEN [total EXCEPT ![e] = Counted(total[e])] ELSE total
    /\ Commit(d, m, Answer("applied", Absent))

ServeUnknown(d, m) ==
    /\ mut[m].op # "create" /\ srv[mut[m].ent].v = 0
    /\ NothingWritten
    /\ Commit(d, m, Answer("rejected", Absent))

\* Deletion wins, even over a later change; a row that is there is not created.
ServeDeleted(d, m) ==
    LET cur == srv[mut[m].ent] IN
    /\ cur.v > 0
    /\ mut[m].op # "create" => cur.del
    /\ NothingWritten
    /\ Commit(d, m, Answer("ignored", IF mut[m].op = "create" THEN Absent ELSE cur))

ServeDelete(d, m) ==
    LET cur == srv[mut[m].ent] IN
    /\ mut[m].op = "delete" /\ cur.v > 0 /\ ~cur.del
    /\ Publish(m, [v |-> cur.v + 1, val |-> cur.val, ts |-> cur.ts, del |-> TRUE], {})
    /\ UNCHANGED total
    /\ Commit(d, m, Answer("applied", Absent))

EntriesOf(e) == {s \in 1..Len(log) : log[s].ent = e}
\* Seeded fault: the first change after the base is left out.
FieldsChangedAfter(e, base) ==
    UNION {log[s].fields : s \in {t \in EntriesOf(e) : log[t].row.v > base + 1}}
FieldsChangedSince(e, base) ==
    UNION {log[s].fields : s \in {t \in EntriesOf(e) : log[t].row.v > base}}
LastWriter(e) ==
    LET s == CHOOSE s \in EntriesOf(e) : \A t \in EntriesOf(e) : t <= s
    IN IF EntriesOf(e) = {} THEN Nobody ELSE log[s].dev

\* What the resolution says of update m, over the row and the log of its entity.
Resolution(m) ==
    LET e == mut[m].ent IN
    ResolveUpdate([clientFields  |-> mut[m].fields,
                   fieldsSince   |-> FieldsChangedSince(e, mut[m].base),
                   baseVersion   |-> mut[m].base,
                   serverVersion |-> srv[e].v,
                   clientTs      |-> mut[m].ts,
                   serverTs      |-> srv[e].ts,
                   clientDev     |-> mut[m].dev,
                   serverDev     |-> LastWriter(e),
                   serverDeleted |-> FALSE], Sensitive)

\* Seeded fault: a deleted row is arbitrated like any other.
ArbitrableAny(m) == mut[m].op = "update" /\ srv[mut[m].ent].v > 0
Arbitrable(m) ==
    mut[m].op = "update" /\ srv[mut[m].ent].v > 0 /\ ~srv[mut[m].ent].del

ServeUpdate(d, m) ==
    LET cur == srv[mut[m].ent]
        out == Resolution(m)
        new == [v |-> cur.v + 1, ts |-> mut[m].ts, del |-> FALSE,
                val |-> [f \in Field |-> IF f \in out.fields THEN mut[m].val ELSE cur.val[f]]] IN
    /\ Arbitrable(m)
    /\ out.kind \in {"apply", "merge"}
    /\ Publish(m, new, out.fields)
    /\ UNCHANGED total
    /\ Commit(d, m, Answer(IF out.kind = "apply" THEN "applied" ELSE "merged", new))

\* Rows left as they are: the state of the server goes back with the answer.
ServeKeep(d, m) ==
    LET kind == Resolution(m).kind IN
    /\ Arbitrable(m)
    /\ kind \in {"ignore", "manual"}
    /\ NothingWritten
    /\ Commit(d, m, Answer(IF kind = "manual" THEN "conflict" ELSE "ignored", srv[mut[m].ent]))

ServerStep(d, m) ==
    \/ ServeReplay(d, m) \/ ServeThrow(d, m) \/ ServeCreate(d, m)
    \/ ServeUnknown(d, m) \/ ServeDeleted(d, m) \/ ServeDelete(d, m) \/ ServeUpdate(d, m)
    \/ ServeKeep(d, m)

-----------------------------------------------------------------------------
(* The engine, push phase.                                                  *)

Go(d, label) == pc' = [pc EXCEPT ![d] = label]

PushNothing(d) ==
    /\ pc[d] \in {"idle", "push"} /\ Due(d) = {}
    /\ Go(d, "pull")
    /\ UNCHANGED <<serverVars, netVars, outboxVars, replicaVars, open, cursor, deferred,
                   edit, pullVars, pushVars, nextMut, faults>>

PushBatch(d) ==
    LET batch == FirstOf(Due(d), BatchSize) IN
    /\ pc[d] \in {"idle", "push"} /\ batch # {}
    /\ Go(d, "sent")
    /\ sent' = [sent EXCEPT ![d] = batch]
    /\ todo' = [todo EXCEPT ![d] = batch]
    /\ wire' = [wire EXCEPT ![d] = batch]
    /\ UNCHANGED <<serverVars, ghost, reply, outboxVars, replicaVars, open, cursor, deferred,
                   edit, pullVars, acked, nextMut, faults>>

\* The response is there, and m is the next of its results.
Handling(d, m) == pc[d] = "sent" /\ wire[d] = {} /\ First(todo[d], m)
Handled(d, m) ==
    /\ reply' = [reply EXCEPT ![m] = NoAnswer]
    /\ todo' = [todo EXCEPT ![d] = @ \ {m}]

\* The server's state stands, written without a guard.
AnswerAccepted(d, m) ==
    /\ Handling(d, m)
    /\ reply[m].status \in Accepted
    /\ row' = IF reply[m].state = Absent THEN row
              ELSE [row EXCEPT ![d][mut[m].ent] = reply[m].state]
    /\ acked' = [acked EXCEPT ![d] = @ \cup {m}]
    /\ Handled(d, m)
    /\ UNCHANGED <<serverVars, wire, ghost, outboxVars, level, open, cursor, deferred,
                   edit, pc, pullVars, sent, nextMut, faults>>

\* The conflict is recorded, then the mutation leaves the queue.
AnswerConflict(d, m) ==
    /\ Handling(d, m)
    /\ reply[m].status = "conflict"
    /\ open' = [open EXCEPT ![m] = open[m] + 1]
    /\ Go(d, "conflict")
    /\ UNCHANGED <<serverVars, netVars, outboxVars, replicaVars, cursor, deferred,
                   edit, pullVars, pushVars, nextMut, faults>>

MarkConflict(d, m) ==
    /\ pc[d] = "conflict" /\ First(todo[d], m)
    /\ st' = [st EXCEPT ![m] = "conflict"]
    /\ Handled(d, m)
    /\ Go(d, "sent")
    /\ UNCHANGED <<serverVars, wire, ghost, mut, att, replicaVars, open, cursor, deferred,
                   edit, pullVars, sent, acked, nextMut, faults>>

AnswerRejected(d, m) ==
    /\ Handling(d, m)
    /\ reply[m].status = "rejected"
    /\ st' = [st EXCEPT ![m] = "failed"]
    /\ att' = [att EXCEPT ![m] = att[m] + 1]
    /\ Handled(d, m)
    /\ UNCHANGED <<serverVars, wire, ghost, mut, replicaVars, open, cursor, deferred,
                   edit, pc, pullVars, sent, acked, nextMut, faults>>

AllHandled(d) == pc[d] = "sent" /\ wire[d] = {} /\ todo[d] = {}

\* Seeded fault: the whole batch is marked, not what was accepted of it.
MarkBatch(d, m) ==
    /\ AllHandled(d) /\ First(sent[d] \ {n \in Mut : st[n] = "done"}, m)
    /\ st' = [st EXCEPT ![m] = "done"]
    /\ acked' = [acked EXCEPT ![d] = @ \ {m}]
    /\ UNCHANGED <<serverVars, netVars, mut, att, replicaVars, open, cursor, deferred,
                   edit, pc, pullVars, sent, todo, nextMut, faults>>
MarkSent(d, m) ==
    /\ AllHandled(d) /\ First(acked[d], m)
    /\ st' = [st EXCEPT ![m] = "done"]
    /\ acked' = [acked EXCEPT ![d] = @ \ {m}]
    /\ UNCHANGED <<serverVars, netVars, mut, att, replicaVars, open, cursor, deferred,
                   edit, pc, pullVars, sent, todo, nextMut, faults>>

\* A full batch leaves something behind: push again before pulling.
PushDone(d) ==
    /\ AllHandled(d) /\ acked[d] = {}
    /\ Go(d, IF Cardinality(sent[d]) < BatchSize THEN "pull" ELSE "push")
    /\ sent' = [sent EXCEPT ![d] = {}]
    /\ UNCHANGED <<serverVars, netVars, outboxVars, replicaVars, open, cursor, deferred,
                   edit, pullVars, todo, acked, nextMut, faults>>

-----------------------------------------------------------------------------
(* The engine, pull phase.                                                  *)

\* A till is not sent its own writes.
Fresh(d) == {s \in Change : s <= Len(log) /\ s > cursor[d] /\ log[s].dev # d}

Pull(d) ==
    LET changes == FirstOf(Fresh(d), PageSize) IN
    /\ pc[d] = "pull"
    /\ \E last \in changes \cup {cursor[d]} :
         /\ \A s \in changes : s <= last
         /\ upto' = [upto EXCEPT ![d] = last]
    /\ page' = [page EXCEPT ![d] = changes]
    /\ more' = [more EXCEPT ![d] = changes # Fresh(d)]
    /\ Go(d, "apply")
    /\ UNCHANGED <<serverVars, netVars, outboxVars, replicaVars, open, cursor, deferred,
                   edit, replaying, pushVars, nextMut, faults>>

\* A change is passed over while the till has its own to send on that entity,
\* or when it holds that version, or that journal row, already.
\* Seeded fault: no look at the row the till holds.
PassedOverPending(d, s) == Pending(d, log[s].ent)
PassedOver(d, s) ==
    LET e == log[s].ent IN
    \/ Pending(d, e)
    \/ Holds(d, e) /\ (e \in Journal \/ log[s].row.v <= row[d][e].v)

Settled(d, s) ==
    /\ deferred' = [deferred EXCEPT ![d][s] = 0]
    /\ page' = [page EXCEPT ![d] = @ \ {s}]

ApplySkip(d, s) ==
    /\ pc[d] = "apply" /\ First(page[d], s)
    /\ PassedOver(d, s)
    /\ Settled(d, s)
    /\ UNCHANGED <<serverVars, netVars, outboxVars, replicaVars, open, cursor,
                   edit, pc, upto, more, replaying, pushVars, nextMut, faults>>

ApplyStart(d, s) ==
    /\ pc[d] = "apply" /\ First(page[d], s)
    /\ ~PassedOver(d, s)
    /\ Go(d, "upsert")
    /\ UNCHANGED <<serverVars, netVars, outboxVars, replicaVars, open, cursor, deferred,
                   edit, pullVars, pushVars, nextMut, faults>>

ApplyUpsert(d, s) ==
    LET e == log[s].ent IN
    /\ pc[d] = "upsert" /\ First(page[d], s)
    /\ NeedsMet(d, e)
    /\ row' = [row EXCEPT ![d][e] = log[s].row]
    /\ IF e \in Journal THEN Go(d, "level") /\ UNCHANGED <<deferred, page>>
                        ELSE Go(d, "apply") /\ Settled(d, s)
    /\ UNCHANGED <<serverVars, netVars, outboxVars, level, open, cursor,
                   edit, upto, more, replaying, pushVars, nextMut, faults>>

ApplyLevel(d, s) ==
    /\ pc[d] = "level" /\ First(page[d], s)
    /\ level' = [level EXCEPT ![d][log[s].ent] = Counted(level[d][log[s].ent])]
    /\ Go(d, "apply")
    /\ Settled(d, s)
    /\ UNCHANGED <<serverVars, netVars, outboxVars, row, open, cursor,
                   edit, upto, more, replaying, pushVars, nextMut, faults>>

\* A reference is missing, or the database is busy: the change is put aside
\* and the page goes on.
ApplyDefer(d, s) ==
    LET orphan == pc[d] = "upsert" /\ ~NeedsMet(d, log[s].ent) IN
    /\ pc[d] \in {"upsert", "level"} /\ First(page[d], s)
    /\ \/ orphan /\ UNCHANGED faults
       \/ ~orphan /\ faults < MaxFaults /\ faults' = faults + 1
    /\ deferred' = [deferred EXCEPT ![d][s] =
                    IF deferred[d][s] < MaxDeferred THEN deferred[d][s] + 1 ELSE deferred[d][s]]
    /\ page' = [page EXCEPT ![d] = @ \ {s}]
    /\ Go(d, "apply")
    /\ UNCHANGED <<serverVars, netVars, outboxVars, replicaVars, open, cursor,
                   edit, upto, more, replaying, pushVars, nextMut>>

\* Seeded fault: a change put aside once is taken for abandoned.
ReplayableLate(d) == {s \in Change : deferred[d][s] \in 2..(MaxDeferred - 1)}
Replayable(d) == {s \in Change : deferred[d][s] \in 1..(MaxDeferred - 1)}

\* The cursor moves once the page has been gone through; after the last page
\* the changes put aside are tried again.
PageDone(d) ==
    /\ pc[d] = "apply" /\ page[d] = {} /\ ~replaying[d]
    /\ cursor' = [cursor EXCEPT ![d] = upto[d]]
    /\ Go(d, IF more[d] THEN "pull" ELSE "apply")
    /\ replaying' = [replaying EXCEPT ![d] = ~more[d]]
    /\ page' = [page EXCEPT ![d] = IF more[d] THEN {} ELSE Replayable(d)]
    /\ upto' = [upto EXCEPT ![d] = 0]
    /\ more' = [more EXCEPT ![d] = FALSE]
    /\ UNCHANGED <<serverVars, netVars, outboxVars, replicaVars, open, deferred,
                   edit, pushVars, nextMut, faults>>

CycleDone(d) ==
    /\ pc[d] = "apply" /\ page[d] = {} /\ replaying[d]
    /\ Go(d, "idle")
    /\ replaying' = [replaying EXCEPT ![d] = FALSE]
    /\ UNCHANGED <<serverVars, netVars, outboxVars, replicaVars, open, cursor, deferred,
                   edit, page, upto, more, pushVars, nextMut, faults>>

-----------------------------------------------------------------------------
(* Failures.  The memory of the engine is gone; an open request becomes one  *)
(* its till has given up on (bound: one such request per till at a time).    *)

Forget(d) ==
    /\ faults < MaxFaults
    /\ faults' = faults + 1
    /\ ghost[d] = {}
    /\ ghost' = [ghost EXCEPT ![d] = wire[d]]
    /\ wire' = [wire EXCEPT ![d] = {}]
    /\ reply' = [m \in Mut |-> IF m \in sent[d] THEN NoAnswer ELSE reply[m]]
    /\ Go(d, "idle")
    /\ sent' = [sent EXCEPT ![d] = {}]
    /\ todo' = [todo EXCEPT ![d] = {}]
    /\ acked' = [acked EXCEPT ![d] = {}]
    /\ page' = [page EXCEPT ![d] = {}]
    /\ upto' = [upto EXCEPT ![d] = 0]
    /\ more' = [more EXCEPT ![d] = FALSE]
    /\ replaying' = [replaying EXCEPT ![d] = FALSE]
    /\ UNCHANGED <<serverVars, outboxVars, replicaVars, open, cursor, deferred, nextMut>>

\* The response of a push or a pull does not come: the cycle ends there.
RequestLost(d) ==
    /\ \/ pc[d] = "pull"
       \/ pc[d] = "sent" /\ todo[d] = sent[d]
    /\ Forget(d)
    /\ UNCHANGED edit

\* The program stops, with any local write that was not yet enqueued.
Crash(d) ==
    /\ pc[d] # "idle" \/ edit[d] # NoEdit
    /\ Forget(d)
    /\ edit' = [edit EXCEPT ![d] = NoEdit]

-----------------------------------------------------------------------------
Cashier(d) ==
    \/ \E e \in Entity, t \in Clock : LocalCreate(d, e, t) \/ LocalDelete(d, e, t)
    \/ \E e \in Entity, t \in Clock, F \in (SUBSET Field) \ {{}} : LocalUpdate(d, e, F, t)
    \/ \E m \in Mut : ResolveServer(d, m)
    \/ \E m \in Mut, t \in Clock : ResolveLocal(d, m, t)

Writing(d) == LocalLevel(d) \/ Enqueue(d) \/ CloseConflict(d)

Engine(d) ==
    \/ PushNothing(d) \/ PushBatch(d) \/ PushDone(d)
    \/ \E m \in Mut : \/ AnswerAccepted(d, m) \/ AnswerConflict(d, m) \/ MarkConflict(d, m)
                      \/ AnswerRejected(d, m) \/ MarkSent(d, m)
    \/ Pull(d) \/ PageDone(d) \/ CycleDone(d)
    \/ \E s \in Change : \/ ApplySkip(d, s) \/ ApplyStart(d, s) \/ ApplyUpsert(d, s)
                         \/ ApplyLevel(d, s) \/ ApplyDefer(d, s)

Server(d) == \E m \in Mut : ServerStep(d, m)

Failure(d) == RequestLost(d) \/ Crash(d)

Next == \E d \in Device : Cashier(d) \/ Writing(d) \/ Engine(d) \/ Server(d) \/ Failure(d)

Spec == Init /\ [][Next]_vars

\* The engine's timer always fires again, a write that is begun is ended, and
\* the server handles what it has received.  Nobody has to edit or to settle a
\* conflict, and nothing has to fail.
Fairness == \A d \in Device : WF_vars(Engine(d)) /\ WF_vars(Writing(d)) /\ WF_vars(Server(d))

FairSpec == Spec /\ Fairness

-----------------------------------------------------------------------------
(* What the synchronisation promises.                                       *)

Labels == {"idle", "push", "sent", "conflict", "pull", "apply", "upsert", "level"}

\* Every variable has its type: what the SQL columns, the wire and the
\* engine's memory can hold.
TypeOK ==
    /\ srv \in [Entity -> Row]
    /\ total \in [Entity -> Nat]
    /\ log \in Seq(Entry)
    /\ processed \in [Mut -> Answers]
    /\ wire \in [Device -> SUBSET Mut]
    /\ ghost \in [Device -> SUBSET Mut]
    /\ reply \in [Mut -> Answers]
    /\ row \in [Device -> [Entity -> Row]]
    /\ level \in [Device -> [Entity -> Nat]]
    /\ mut \in [Mut -> Mutation]
    /\ st \in [Mut -> {"none", "pending", "failed", "conflict", "done"}]
    /\ att \in [Mut -> Nat]
    /\ open \in [Mut -> Nat]
    /\ cursor \in [Device -> Nat]
    /\ deferred \in [Device -> [Change -> 0..MaxDeferred]]
    /\ edit \in [Device -> Edit]
    /\ pc \in [Device -> Labels]
    /\ sent \in [Device -> SUBSET Mut]
    /\ todo \in [Device -> SUBSET Mut]
    /\ acked \in [Device -> SUBSET Mut]
    /\ page \in [Device -> SUBSET Change]
    /\ upto \in [Device -> Nat]
    /\ more \in [Device -> BOOLEAN]
    /\ replaying \in [Device -> BOOLEAN]
    /\ nextMut \in 1..(MaxMut + 1)
    /\ faults \in 0..MaxFaults

\* A mutation sent again after a lost answer, a crash or a rejection is never
\* published twice, and a stock movement is counted once in the server's level
\* ("un rejeu reseau ne duplique jamais une ecriture", sync.service.ts:143).
AppliedOnce ==
    /\ \A i, j \in 1..Len(log) : log[i].mut = log[j].mut /\ log[i].mut # 0 => i = j
    /\ \A e \in Entity : total[e] <= 1

\* The outbox believes the server only as far as the server has committed: a
\* row leaves the queue as sent, or for arbitration, when the stored answer of
\* its mutation says so, whatever was lost or replayed in between.
OutboxAgreesWithServer ==
    \A m \in Mut :
        /\ st[m] = "done"     => processed[m].status \in Accepted
        /\ st[m] = "conflict" => processed[m].status = "conflict"

\* The log misses no change of a row: it holds each version of it, in order and
\* without a gap, and the last is the row itself (change-log.service.ts:28).
LogMirrorsRows ==
    \A e \in Entity :
        /\ \A i, j \in EntriesOf(e) : i < j => log[i].row.v < log[j].row.v
        /\ \A v \in 1..srv[e].v : \E i \in EntriesOf(e) : log[i].row.v = v
        /\ EntriesOf(e) # {} => \E i \in EntriesOf(e) : log[i].row = srv[e]

\* A till's cursor passes a journal row of another till only when it holds that
\* row, or has put it aside: a cut in a page, a refused change or a crash makes
\* it see a change again, never miss one (engine.ts:301).
JournalNeverSkipped ==
    \A d \in Device : \A s \in 1..Len(log) :
        log[s].ent \in Journal /\ log[s].dev # d /\ s <= cursor[d]
            => Holds(d, log[s].ent) \/ deferred[d][s] > 0

\* A journal row is the same wherever it is held, and a till's cached stock
\* level counts it at most once, and never before it holds it.
JournalAgrees ==
    \A d \in Device, e \in Journal :
        /\ Holds(d, e) /\ srv[e].v > 0 => row[d][e] = srv[e]
        /\ level[d][e] <= row[d][e].v

\* The journal reaches the tills whole and unchanged, each row counted once.
JournalWhole == JournalNeverSkipped /\ JournalAgrees

\* The tables of the server and of the tills implement CausalRows: whatever is
\* lost, put aside or sent again, rows only spread from their author to the
\* server and on to the tills, each after the rows it references.
Rows == INSTANCE CausalRows WITH
            Start  <- {e \in Entity : IsSeeded(e)},
            server <- {e \in Entity : srv[e].v > 0},
            till   <- [d \in Device |-> {e \in Entity : Holds(d, e)}]
RowsSpread == Rows!Spec

\* A deletion is never undone on the server, by any later or delayed mutation
\* ("la suppression l'emporte, toujours", merge.ts:16).
DeletionStands == [][\A e \in Entity : srv[e].del => srv'[e].del]_vars

\* What is on the screens: nothing of a deleted row, else its fields.
Shown(r) == IF r.del \/ r.v = 0 THEN {} ELSE {r.val}

\* A till between two cycles that has nothing left to send, nothing put aside
\* and nothing to pull.
Quiet(d) ==
    /\ pc[d] = "idle" /\ edit[d] = NoEdit /\ Due(d) = {} /\ Fresh(d) = {}
    /\ \A s \in Change : deferred[d][s] = 0
Own(d) == {m \in Issued : mut[m].dev = d}
OwnAccepted(d) == \A m \in Own(d) : st[m] = "done"
NoDeletion == \A m \in Issued : mut[m].op # "delete"

\* A quiet till whose mutations were all accepted shows what the server holds: a
\* value never goes back to an older state
\* (apps/desktop/tests/sync-engine.test.ts:219).
NothingRegresses ==
    NoDeletion => \A d \in Device :
        Quiet(d) /\ OwnAccepted(d) =>
            \A e \in Entity : Shown(row[d][e]) = Shown(srv[e])

\* The mutations of a till on a row were answered in the order it issued them: an answer that
\* bears a version comes after those that bear an older one.
InOrder(d) ==
    \A m, n \in Own(d) :
        m < n /\ mut[m].ent = mut[n].ent /\ processed[n] # NoAnswer
            => processed[m].state.v <= processed[n].state.v

\* The same of a till whose mutations were answered in their order, none refused before it
\* was accepted: it shows what the server holds, whatever was lost, edited during a cycle or
\* overtaken on the way.
UpdatesConverge ==
    NoDeletion => \A d \in Device :
        Quiet(d) /\ OwnAccepted(d) /\ InOrder(d) /\ (\A m \in Own(d) : att[m] = 0) =>
            \A e \in Entity : Shown(row[d][e]) = Shown(srv[e])

\* The log tells every version of a row and the tills end with the last one: what
\* a till shows once it has caught up is what every other till shows.
RowsConverge == LogMirrorsRows /\ UpdatesConverge

\* The author of m had on screen a version the server had published before entry
\* j of the log: what it pulled, not a version its own edits have numbered since.
Genuine(m, j) ==
    \E i \in EntriesOf(mut[m].ent) :
        i < j /\ log[i].row.v = mut[m].base /\ log[i].row.val = mut[m].saw

\* An update made from a published version never replaces a value of a sensitive
\* field its author had not seen: it goes to arbitration instead, and the choice
\* made there does not lose one either (ADR 0004:8, merge.ts:95).
SensitiveArbitrated ==
    \A i, j \in 1..Len(log) :
        LET m == log[j].mut IN
        /\ i < j /\ log[i].ent = log[j].ent
        /\ \A k \in (i + 1)..(j - 1) : log[k].ent # log[i].ent
        /\ Genuine(m, j)
        => \A f \in Sensitive \cap log[j].fields : log[i].row.val[f] = mut[m].saw[f]

\* A mutation once in the outbox does not stay there for ever: it is sent, goes
\* to arbitration, or runs out of attempts.
QueueDrains ==
    \A m \in Mut :
        st[m] = "pending" ~>
            \/ st[m] \in {"done", "conflict"}
            \/ st[m] = "failed" /\ att[m] >= MaxAttempts

\* A journal row the server has accepted reaches every till, or is put aside
\* there for good after MaxDeferred attempts.
JournalReachesAll ==
    \A e \in Journal, d \in Device :
        srv[e].v > 0 ~>
            \/ Holds(d, e)
            \/ \E s \in Change : deferred[d][s] >= MaxDeferred
=============================================================================
