-------------------------- MODULE RestaurantOrders --------------------------
(***************************************************************************)
(* A restaurant's open orders.  They live in the till's database, written  *)
(* by two programs at once: the till's screens (order.repository.ts) and   *)
(* the waiters' phones, through the HTTP server in the till's process      *)
(* (server/mod.rs).  Nothing is a transaction: an operation is its SQL     *)
(* statements, one step each, and others' statements run between them.     *)
(***************************************************************************)
EXTENDS Naturals

CONSTANTS
  Screens,     \* operations the till may have under way at once
  Phones,      \* requests the waiters' phones may have under way at once
  Tables, Orders, Lines, Sales,   \* identifiers
  None,        \* NULL
  MaxClock,    \* bound: operations begun
  MaxFaults    \* bound: failed statements and crashes

ASSUME IdsAssumption == None \notin Tables \cup Orders \cup Lines \cup Sales
ASSUME BoundsAssumption == MaxClock \in Nat /\ MaxFaults \in Nat

VARIABLES
  order,      \* service_order: status and table
  line,       \* service_order_item
  op,         \* the operation each clerk has under way: its next statement, and what it read
  sold,       \* the order lines in each recorded sale
  bells,      \* 'bon-cuisine' events the till has not handled
  printed,    \* lines handed to KitchenPrinter.print
  clock,      \* the operations begun so far: the time each of them writes
  faults,
  cut,        \* lines whose ticket or billing was cut off
  twice       \* lines a payment asked for while another was being made of them

vars == <<order, line, op, sold, bells, printed, clock, faults, cut, twice>>

Clerks == Screens \cup Phones

Steps == {"idle", "open", "add", "delete", "void", "send", "print", "serve",
          "release", "close", "closeIfOpen", "cart", "record", "bill", "settle", "move"}

Times == 0..MaxClock     \* 0 is NULL

OrderRows == [status : {"none", "open", "closed"}, table : Tables \cup {None}]

\* is: the row is not inserted yet, there, or deleted.
LineRows == [is : {"unborn", "there", "gone"}, order : Orders \cup {None}, sent : Times,
             served : Times, voided : BOOLEAN, sale : Sales \cup {None}]

\* todo: the lines the next statements still go through; held: all those read.
Operations == [step : Steps, order : Orders \cup {None}, table : Tables \cup {None},
               line : Lines \cup {None}, todo : SUBSET Lines, held : SUBSET Lines,
               at : Times, sale : Sales \cup {None}]

\* The only type invariant: rows, operations and events are what the columns allow.
TypeOK ==
  /\ order \in [Orders -> OrderRows]
  /\ line \in [Lines -> LineRows]
  /\ op \in [Clerks -> Operations]
  /\ sold \in [Sales -> SUBSET Lines]
  /\ bells \subseteq [order : Orders, at : Times]
  /\ printed \subseteq Lines
  /\ clock \in Times
  /\ faults \in 0..MaxFaults
  /\ cut \subseteq Lines /\ twice \subseteq Lines

Unborn == [is |-> "unborn", order |-> None, sent |-> 0, served |-> 0, voided |-> FALSE,
           sale |-> None]

Idle == [step |-> "idle", order |-> None, table |-> None, line |-> None, todo |-> {},
         held |-> {}, at |-> 0, sale |-> None]

Init ==
  /\ order = [o \in Orders |-> [status |-> "none", table |-> None]]
  /\ line = [l \in Lines |-> Unborn]
  /\ op = [c \in Clerks |-> Idle]
  /\ sold = [s \in Sales |-> {}]
  /\ bells = {}
  /\ printed = {}
  /\ clock = 0
  /\ faults = 0
  /\ cut = {} /\ twice = {}

-----------------------------------------------------------------------------
(* What the statements read.                                               *)

There(l) == line[l].is = "there"

ItemsOf(o) == {l \in Lines : There(l) /\ line[l].order = o}

ActiveItems(o) == {l \in ItemsOf(o) : ~line[l].voided /\ line[l].sale = None}

\* The filter on a course is left open: any of these may be sent together.
ItemsToSend(o) == {l \in ItemsOf(o) : line[l].sent = 0 /\ ~line[l].voided}

ItemsToDeliver(o) ==
  {l \in ItemsOf(o) : line[l].sent # 0 /\ line[l].served = 0 /\ ~line[l].voided}

IsFullyBilled(o) == \A l \in ItemsOf(o) : line[l].sale # None \/ line[l].voided

OpenOrdersOf(t) == {o \in Orders : order[o].status = "open" /\ order[o].table = t}

\* Seeded fault: no unique index.
IndexMissing(o, t) == TRUE

\* The unique index ux_order_open_table lets o be open on table t; None is takeaway.
IndexAllows(o, t) == t = None \/ OpenOrdersOf(t) \subseteq {o}

Created(o) == order[o].status # "none"

(* How a clerk goes on.                                                    *)

At(c, step) == op[c].step = step

\* An operation begins, at a time of its own.
Begins(c) == At(c, "idle") /\ clock < MaxClock /\ clock' = clock + 1

Begin(c, r) == Begins(c) /\ op' = [op EXCEPT ![c] = r]

Done(c) == op' = [op EXCEPT ![c] = Idle]

\* From here on only the order is needed.
Goto(c, step) == op' = [op EXCEPT ![c] = [Idle EXCEPT !.step = step, !.order = op[c].order]]

\* One line of the loop is dealt with; the last one ends it.
Pass(c, l, Last) ==
  IF op[c].todo = {l} THEN Last ELSE op' = [op EXCEPT ![c].todo = @ \ {l}]

\* An UPDATE ... WHERE id = l changes nothing when the row is deleted.
Set(l, r) == line' = [line EXCEPT ![l] = IF There(l) THEN r ELSE @]

-----------------------------------------------------------------------------
(* Operations the till and the phones do with the same statements.         *)

\* open, open_order: an occupied table returns its order, a free one is read as free.
OpenRead(c, t) ==
  /\ t = None \/ OpenOrdersOf(t) = {}
  /\ Begin(c, [Idle EXCEPT !.step = "open", !.table = t])
  /\ UNCHANGED <<order, line, sold, bells, printed, faults, cut, twice>>

OpenInsert(c) ==
  /\ At(c, "open")
  /\ \E o \in Orders :
       /\ ~Created(o)
       /\ IndexAllows(o, op[c].table)
       /\ order' = [order EXCEPT ![o] = [status |-> "open", table |-> op[c].table]]
  /\ Done(c)
  /\ UNCHANGED <<line, sold, bells, printed, clock, faults, cut, twice>>

\* The index refuses the second of two insertions.
OpenRefused(c) ==
  /\ At(c, "open")
  /\ op[c].table # None /\ OpenOrdersOf(op[c].table) # {}
  /\ Done(c)
  /\ UNCHANGED <<order, line, sold, bells, printed, clock, faults, cut, twice>>

\* addItem, add_item: the order is read open, then the line is inserted.
AddRead(c, o) ==
  /\ order[o].status = "open"
  /\ Begin(c, [Idle EXCEPT !.step = "add", !.order = o])
  /\ UNCHANGED <<order, line, sold, bells, printed, faults, cut, twice>>

AddInsert(c) ==
  /\ At(c, "add")
  /\ \E l \in Lines :
       /\ line[l].is = "unborn"
       /\ line' = [line EXCEPT ![l] = [Unborn EXCEPT !.is = "there", !.order = op[c].order]]
  /\ Done(c)
  /\ UNCHANGED <<order, sold, bells, printed, clock, faults, cut, twice>>

\* removeItem, remove_item: what is read of the line decides between DELETE and void.
RemoveRead(c, l) ==
  /\ There(l) /\ line[l].sale = None
  /\ Begin(c, [Idle EXCEPT !.step = IF line[l].sent = 0 THEN "delete" ELSE "void", !.line = l])
  /\ UNCHANGED <<order, line, sold, bells, printed, faults, cut, twice>>

RemoveDelete(c) ==
  /\ At(c, "delete")
  /\ Set(op[c].line, [line[op[c].line] EXCEPT !.is = "gone"])
  /\ Done(c)
  /\ UNCHANGED <<order, sold, bells, printed, clock, faults, cut, twice>>

RemoveVoid(c) ==
  /\ At(c, "void")
  /\ Set(op[c].line, [line[op[c].line] EXCEPT !.voided = TRUE])
  /\ Done(c)
  /\ UNCHANGED <<order, sold, bells, printed, clock, faults, cut, twice>>

\* The UPDATE that closes an order: the till's is unconditional (releaseTable,
\* markBilled), the phones' only touches an open order (release_table).
Close(c) ==
  /\ \/ At(c, "close")
     \/ At(c, "closeIfOpen") /\ order[op[c].order].status = "open"
  /\ order' = [order EXCEPT ![op[c].order].status = "closed"]
  /\ Done(c)
  /\ UNCHANGED <<line, sold, bells, printed, clock, faults, cut, twice>>

CloseNothing(c) ==
  /\ At(c, "closeIfOpen") /\ order[op[c].order].status # "open"
  /\ Done(c)
  /\ UNCHANGED <<order, line, sold, bells, printed, clock, faults, cut, twice>>

-----------------------------------------------------------------------------
(* The till.                                                               *)

\* sendToKitchen: the lines are read, marked one UPDATE each, then printed (envoyer).
SendRead(c, o) ==
  /\ \E S \in SUBSET ItemsToSend(o) :
       /\ S # {}
       /\ Begin(c, [Idle EXCEPT !.step = "send", !.order = o, !.todo = S, !.held = S,
                                !.at = clock'])
  /\ UNCHANGED <<order, line, sold, bells, printed, faults, cut, twice>>

SendMark(c) ==
  /\ At(c, "send")
  /\ \E l \in op[c].todo :
       /\ Set(l, [line[l] EXCEPT !.sent = op[c].at])
       /\ Pass(c, l, op' = [op EXCEPT ![c] = [Idle EXCEPT !.step = "print", !.held = op[c].held]])
  /\ UNCHANGED <<order, sold, bells, printed, clock, faults, cut, twice>>

PrintTicket(c) ==
  /\ At(c, "print")
  /\ printed' = printed \cup op[c].held
  /\ Done(c)
  /\ UNCHANGED <<order, line, sold, bells, clock, faults, cut, twice>>

\* markDelivered: the lines to deliver are read, then marked unless served meanwhile.
DeliverRead(c, o) ==
  /\ \E S \in SUBSET ItemsToDeliver(o) :
       S # {} /\ Begin(c, [Idle EXCEPT !.step = "serve", !.order = o, !.todo = S, !.at = clock'])
  /\ UNCHANGED <<order, line, sold, bells, printed, faults, cut, twice>>

DeliverMark(c) ==
  /\ At(c, "serve")
  /\ \E l \in op[c].todo :
       /\ Set(l, [line[l] EXCEPT !.served = IF @ = 0 THEN op[c].at ELSE @])
       /\ Pass(c, l, Done(c))
  /\ UNCHANGED <<order, sold, bells, printed, clock, faults, cut, twice>>

\* releaseTable: what is active is voided line by line, then the order is closed.
ReleaseRead(c, o) ==
  /\ order[o].status = "open"
  /\ Begin(c, [Idle EXCEPT !.step = IF ActiveItems(o) = {} THEN "close" ELSE "release",
                           !.order = o, !.todo = ActiveItems(o)])
  /\ UNCHANGED <<order, line, sold, bells, printed, faults, cut, twice>>

ReleaseVoid(c) ==
  /\ At(c, "release")
  /\ \E l \in op[c].todo :
       /\ Set(l, [line[l] EXCEPT !.voided = TRUE])
       /\ Pass(c, l, Goto(c, "close"))
  /\ UNCHANGED <<order, sold, bells, printed, clock, faults, cut, twice>>

\* The lines of the payments under way.
Paying == {"cart", "record", "bill", "settle"}
BeingPaid == UNION {op[d].todo : d \in {d \in Screens : op[d].step \in Paying}}

\* encaisser: the screen's lines, as last loaded, are asked for.  The payment panel lets
\* one payment through (busy), but Escape closes it over a payment under way, and
\* another may be opened, of the same lines or of others.
PayLook(c, o) ==
  /\ \E S \in SUBSET ActiveItems(o) :
       /\ S # {} /\ Begin(c, [Idle EXCEPT !.step = "cart", !.order = o, !.todo = S])
       /\ twice' = twice \cup (S \cap BeingPaid)
  /\ UNCHANGED <<order, line, sold, bells, printed, faults, cut>>

\* toCart: of these lines, those still active make the cart.
PayCart(c) ==
  /\ At(c, "cart")
  /\ LET cart == op[c].todo \cap ActiveItems(op[c].order) IN
     IF cart = {} THEN Done(c)
                  ELSE op' = [op EXCEPT ![c].step = "record", ![c].held = cart]
  /\ UNCHANGED <<order, line, sold, bells, printed, clock, faults, cut, twice>>

\* SaleRepository.record, as one step.
PayRecord(c) ==
  /\ At(c, "record")
  /\ \E s \in Sales :
       /\ sold[s] = {}
       /\ sold' = [sold EXCEPT ![s] = op[c].held]
       /\ op' = [op EXCEPT ![c].step = "bill", ![c].sale = s]
  /\ UNCHANGED <<order, line, bells, printed, clock, faults, cut, twice>>

\* Seeded fault: lines voided since the sale are passed over.
MarkUnvoided(c) ==
  /\ At(c, "bill")
  /\ \E l \in op[c].todo :
       /\ Set(l, [line[l] EXCEPT !.sale = IF @ = None /\ ~line[l].voided THEN op[c].sale ELSE @])
       /\ Pass(c, l, Goto(c, "settle"))
  /\ UNCHANGED <<order, sold, bells, printed, clock, faults, cut, twice>>

\* markBilled: every line the screen asked for, unless it is billed already.
MarkBilled(c) ==
  /\ At(c, "bill")
  /\ \E l \in op[c].todo :
       /\ Set(l, [line[l] EXCEPT !.sale = IF @ = None THEN op[c].sale ELSE @])
       /\ Pass(c, l, Goto(c, "settle"))
  /\ UNCHANGED <<order, sold, bells, printed, clock, faults, cut, twice>>

Settle(c) ==
  /\ At(c, "settle")
  /\ IF IsFullyBilled(op[c].order) THEN Goto(c, "close") ELSE Done(c)
  /\ UNCHANGED <<order, line, sold, bells, printed, clock, faults, cut, twice>>

\* useKitchenTickets: the lines sent at the time the event names, unless voided since.
KitchenTicket ==
  \E b \in bells :
    /\ bells' = bells \ {b}
    /\ printed' = printed \cup {l \in ItemsOf(b.order) : line[l].sent = b.at /\ ~line[l].voided}
    /\ UNCHANGED <<order, line, op, sold, clock, faults, cut, twice>>

-----------------------------------------------------------------------------
(* The phones: an UPDATE with its condition is one statement.              *)

\* Seeded fault: the event carries another time than the lines.
NotifyEarlier(o, at) == bells' = bells \cup {[order |-> o, at |-> at - 1]}

\* notify: the event is emitted; whether anybody listens is not looked at.
Notify(o, at) == bells' = bells \cup {[order |-> o, at |-> at]}

\* send_to_kitchen: the lines are marked and the till is told to print.  While nobody is
\* signed in at the till there is no workspace, and the event is lost (useKitchenTickets).
PhoneSend(p, o) ==
  /\ Begins(p)
  /\ \E S \in SUBSET ItemsToSend(o) :
       /\ S # {}
       /\ line' = [l \in Lines |-> IF l \in S THEN [line[l] EXCEPT !.sent = clock'] ELSE line[l]]
       /\ \/ Notify(o, clock') /\ UNCHANGED cut
          \/ cut' = cut \cup S /\ UNCHANGED bells
  /\ UNCHANGED <<order, op, sold, printed, faults, twice>>

\* deliver: all of them, or those named (then one guarded UPDATE each, so that any
\* interleaving is a sequence of these steps).
PhoneDeliver(p, o) ==
  /\ Begins(p)
  /\ \E S \in SUBSET ItemsToDeliver(o) :
       /\ S # {}
       /\ line' = [l \in Lines |-> IF l \in S THEN [line[l] EXCEPT !.served = clock'] ELSE line[l]]
  /\ UNCHANGED <<order, op, sold, bells, printed, faults, cut, twice>>

PhoneUndo(p, l) ==
  /\ Begins(p) /\ There(l) /\ line[l].served # 0
  /\ line' = [line EXCEPT ![l].served = 0]
  /\ UNCHANGED <<order, op, sold, bells, printed, faults, cut, twice>>

\* release_table: what is active is voided by one UPDATE, whatever the order's status.
PhoneRelease(p, o) ==
  /\ Created(o)
  /\ line' = [l \in Lines |-> IF l \in ActiveItems(o) THEN [line[l] EXCEPT !.voided = TRUE]
                                                      ELSE line[l]]
  /\ Begin(p, [Idle EXCEPT !.step = "closeIfOpen", !.order = o])
  /\ UNCHANGED <<order, sold, bells, printed, faults, cut, twice>>

\* move_order: the destination is read free, then the order's table is changed, unless
\* the index refuses it.
MoveRead(p, o, t) ==
  /\ Created(o) /\ OpenOrdersOf(t) \subseteq {o}
  /\ Begin(p, [Idle EXCEPT !.step = "move", !.order = o, !.table = t])
  /\ UNCHANGED <<order, line, sold, bells, printed, faults, cut, twice>>

MoveWrite(p) ==
  /\ At(p, "move")
  /\ LET o == op[p].order t == op[p].table IN
     order' = IF order[o].status = "open" /\ ~IndexAllows(o, t)
              THEN order
              ELSE [order EXCEPT ![o].table = t]
  /\ Done(p)
  /\ UNCHANGED <<line, sold, bells, printed, clock, faults, cut, twice>>

-----------------------------------------------------------------------------
(* Failures.                                                               *)

\* What an operation leaves half done: lines marked sent and not printed, lines sold
\* and not marked.
HalfDone(c) ==
  CASE op[c].step \in {"send", "print"} -> op[c].held \ op[c].todo
    [] op[c].step = "bill" -> op[c].held \cap op[c].todo
    [] OTHER -> {}

\* A statement fails: the operation ends there.
StatementFails(c) ==
  /\ ~At(c, "idle") /\ faults < MaxFaults
  /\ faults' = faults + 1
  /\ cut' = cut \cup HalfDone(c)
  /\ Done(c)
  /\ UNCHANGED <<order, line, sold, bells, printed, clock, twice>>

\* The till's process dies, the server of the phones with it.
Crash ==
  /\ faults < MaxFaults
  /\ faults' = faults + 1
  /\ cut' = cut \cup (UNION {HalfDone(c) : c \in Clerks})
                \cup {l \in Lines : [order |-> line[l].order, at |-> line[l].sent] \in bells}
  /\ op' = [c \in Clerks |-> Idle]
  /\ bells' = {}
  /\ UNCHANGED <<order, line, sold, printed, clock, twice>>

-----------------------------------------------------------------------------
AnyClerk(c) ==
  \/ \E t \in Tables \cup {None} : OpenRead(c, t)
  \/ \E o \in Orders : AddRead(c, o)
  \/ \E l \in Lines : RemoveRead(c, l)
  \/ OpenInsert(c) \/ OpenRefused(c) \/ AddInsert(c) \/ RemoveDelete(c) \/ RemoveVoid(c)
  \/ Close(c) \/ CloseNothing(c) \/ StatementFails(c)

Till(c) ==
  \/ \E o \in Orders : SendRead(c, o) \/ DeliverRead(c, o) \/ ReleaseRead(c, o) \/ PayLook(c, o)
  \/ SendMark(c) \/ PrintTicket(c) \/ DeliverMark(c) \/ ReleaseVoid(c)
  \/ PayCart(c) \/ PayRecord(c) \/ MarkBilled(c) \/ Settle(c)

Phone(p) ==
  \/ \E o \in Orders : PhoneSend(p, o) \/ PhoneDeliver(p, o) \/ PhoneRelease(p, o)
                       \/ \E t \in Tables : MoveRead(p, o, t)
  \/ \E l \in Lines : PhoneUndo(p, l)
  \/ MoveWrite(p)

Next ==
  \/ \E c \in Clerks : AnyClerk(c)
  \/ \E c \in Screens : Till(c)
  \/ \E p \in Phones : Phone(p)
  \/ KitchenTicket
  \/ Crash

Spec == Init /\ [][Next]_vars

-----------------------------------------------------------------------------
(* Properties.                                                             *)

\* A table has at most one open order, whoever opens and moves at the same time
\* (the partial unique index behind open, open_order and move_order).
OneOpenPerTable == \A t \in Tables : \A o, q \in OpenOrdersOf(t) : o = q

\* A line the kitchen is said to have (sent_at) was printed, or its ticket is on the way,
\* unless a failure or a closed till cut it off: also when till and phone send the same line at once and
\* one sent_at replaces the other.
SentIsPrinted ==
  \A l \in Lines : There(l) /\ line[l].sent # 0 /\ ~line[l].voided =>
    \/ l \in printed \cup cut
    \/ [order |-> line[l].order, at |-> line[l].sent] \in bells
    \/ \E c \in Screens : op[c].step \in {"send", "print"} /\ l \in op[c].held \ op[c].todo

\* A line that was paid for bears the sale that charged it, and no other, and nobody is asked
\* to pay for it again (toCart, record, markBilled): unless a failure came in between, or two
\* payments of it were made at once, of which it then bears one.
SoldIsBilled ==
  \A s \in Sales : \A l \in sold[s] : There(l) =>
    \/ line[l].sale = s
    \/ l \in twice /\ line[l].sale # None
    \/ l \in cut
    \/ \E c \in Screens : At(c, "bill") /\ op[c].sale = s /\ l \in op[c].todo
=============================================================================
