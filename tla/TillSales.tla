----------------------------- MODULE TillSales -----------------------------
(***************************************************************************)
(* The money of one till: tickets, refunds, the drawer's sessions and a    *)
(* customer's account (sale, cash-session and customer.repository.ts).     *)
(* SaleRepository.record is called in a transaction that is none: each of  *)
(* its statements commits alone, so that another screen's statements run   *)
(* between two of them and a failure leaves what is written.  An article   *)
(* costs one unit of money, and every ticket bears the same customer.      *)
(***************************************************************************)
EXTENDS Integers, FiniteSets, FiniteSetsExt, Functions

CONSTANTS
  Panels,      \* payment panels that may be recording a sale at once
  History,     \* the screen that refunds
  Sales,       \* identifiers of tickets, refunds included
  Products, Tracked,  \* articles; those whose stock is followed
  Carts,       \* the carts that may be sold, sets of articles
  Methods,     \* of payment
  Strict,      \* articles not to be sold out of stock
  Opening,     \* units in stock at the start
  Sessions,    \* identifiers of the drawer's sessions
  Limit,       \* credit_limit_cents
  None,        \* NULL
  MaxForeign,  \* bound: sales that arrive from another register
  MaxSettled,  \* bound: payments into the account
  MaxBusy, MaxBegun,  \* bounds: operations under way at once, and begun
  MaxFaults    \* bound: failed statements and crashes

ASSUME IdsAssumption == None \notin Sales \cup Sessions \cup Products /\ History \notin Panels
ASSUME SetsAssumption == IsFiniteSet(Sales) /\ IsFiniteSet(Products) /\ Strict \subseteq Tracked
                         /\ Tracked \subseteq Products /\ Carts \subseteq (SUBSET Products) \ {{}}
ASSUME MethodsAssumption == {"cash", "credit"} \subseteq Methods /\ IsFiniteSet(Methods)
ASSUME NumbersAssumption == {Limit, Opening, MaxForeign, MaxSettled, MaxBusy, MaxBegun, MaxFaults}
                            \subseteq Nat

VARIABLES
  sale,      \* sale: register, number, session, the ticket it refunds, total
  item,      \* sale_item: the articles of each sale
  paid,      \* payment: the amounts of each sale, by method
  moved,     \* stock_movement: the articles each sale has moved
  level,     \* stock_level
  charged,   \* customer_movement of type sale_credit
  settled,   \* the sum of those of type payment
  session,   \* cash_session: status, expected_cents, cash received on accounts
  op,        \* the sale or refund each screen is recording
  closing,   \* the closing under way, and the total it read
  settling,  \* the payment into the account under way
  foreign,   \* sales of the other register, numbered by it, that have been sent here
  begun,     \* operations begun
  faults,
  \* What happened, for the properties:
  drawer,      \* cash put in the drawer during each session
  overlapped,  \* sessions during whose closing, or around whose opening, cash moved
  returned,    \* sessions that paid back a ticket of another session
  cut,         \* sales whose recording a failure ended
  refused,     \* sales whose credit was refused
  misfits      \* numbers of arriving sales that the index refused

tables == <<sale, item, paid, moved, level, charged, settled, session>>
ghosts == <<drawer, overlapped, returned, cut, refused, misfits>>
vars == <<tables, op, closing, settling, foreign, begun, faults, ghosts>>

Clerks == Panels \cup {History}

Steps == {"idle", "number", "row", "items", "payments", "stock", "level", "credit", "charge"}

Owed == [Methods -> Int]

SaleRows == [reg : {"here", "there"}, seq : Nat, session : Sessions \cup {None},
             of : Sales \cup {None}, total : Int]

SessionRows == [status : {"none", "open", "closed"}, expected : Int, collected : Int]

\* todo: what the statements of this step still go through; due: the payments left.
Recordings == [step : Steps, sale : Sales \cup {None}, of : Sales \cup {None}, seq : Nat,
               session : Sessions \cup {None}, cart : SUBSET Products,
               todo : SUBSET Products, item : Products \cup {None},
               pay : Owed, due : SUBSET Methods]

Closings == [session : Sessions \cup {None}, expected : Int]

Settlings == [amount : Nat, method : Methods, session : Sessions \cup {None}]

TicketTypes ==
  /\ sale \in [Sales -> SaleRows]
  /\ item \in [Sales -> SUBSET Products]
  /\ paid \in [Sales -> Owed]
  /\ moved \in [Sales -> SUBSET Products]
  /\ level \in [Products -> Int]
  /\ charged \in [Sales -> Int]
  /\ op \in [Clerks -> Recordings]
  /\ foreign \in 0..MaxForeign
  /\ cut \subseteq Sales /\ refused \subseteq Sales
  /\ misfits \subseteq 1..MaxForeign

DrawerTypes ==
  /\ session \in [Sessions -> SessionRows]
  /\ settled \in Nat
  /\ closing \in Closings
  /\ settling \in Settlings
  /\ begun \in 0..MaxBegun /\ faults \in 0..MaxFaults
  /\ drawer \in [Sessions -> Int]
  /\ overlapped \subseteq Sessions /\ returned \subseteq Sessions

\* The only type invariant.
TypeOK == TicketTypes /\ DrawerTypes

Nothing == [m \in Methods |-> 0]

NoRow == [reg |-> "here", seq |-> 0, session |-> None, of |-> None, total |-> 0]

Idle == [step |-> "idle", sale |-> None, of |-> None, seq |-> 0, session |-> None,
         cart |-> {}, todo |-> {}, item |-> None, pay |-> Nothing, due |-> {}]

NoClosing == [session |-> None, expected |-> 0]

NoSettling == [amount |-> 0, method |-> "cash", session |-> None]

Init ==
  /\ sale = [s \in Sales |-> NoRow]
  /\ item = [s \in Sales |-> {}]
  /\ paid = [s \in Sales |-> Nothing]
  /\ moved = [s \in Sales |-> {}]
  /\ level = [p \in Products |-> Opening]
  /\ charged = [s \in Sales |-> 0]
  /\ settled = 0
  /\ session = [k \in Sessions |-> [status |-> "none", expected |-> 0, collected |-> 0]]
  /\ op = [c \in Clerks |-> Idle]
  /\ closing = NoClosing
  /\ settling = NoSettling
  /\ foreign = 0
  /\ begun = 0
  /\ faults = 0
  /\ drawer = [k \in Sessions |-> 0]
  /\ overlapped = {} /\ returned = {} /\ cut = {} /\ refused = {} /\ misfits = {}

-----------------------------------------------------------------------------
(* What the statements read.                                               *)

Recorded(s) == sale[s].seq # 0

NumbersOf(reg) == {sale[s].seq : s \in {t \in Sales : Recorded(t) /\ sale[t].reg = reg}}

\* nextSequence: one more than the largest number of this register.
NextSequence == Max(NumbersOf("here") \cup {0}) + 1

\* The open session of this register, if any.
OpenSessionId ==
  IF \E k \in Sessions : session[k].status = "open"
  THEN CHOOSE k \in Sessions : session[k].status = "open"
  ELSE None

RefundsOf(s) == {t \in Sales : Recorded(t) /\ sale[t].of = s}

RefundedAmountOf(s) == SumFunction([t \in RefundsOf(s) |-> -sale[t].total])

Balance == SumFunction(charged) - settled

\* checkCredit, for a customer who has a limit.
CreditAllowed(amount) == Limit > 0 /\ amount <= Limit - Balance

TicketsOf(k) == {s \in Sales : Recorded(s) /\ sale[s].session = k}

PaidAmount(s) == SumFunction(paid[s])

\* Seeded fault: every payment fills the drawer.
AllTakings(k) == session[k].collected + SumFunction([s \in TicketsOf(k) |-> PaidAmount(s)])

\* computeCashReport: cash of the session's tickets, refunds negative, and of accounts.
ExpectedCents(k) == session[k].collected + SumFunction([s \in TicketsOf(k) |-> paid[s]["cash"]])

\* Seeded fault: only sales without a line are looked for.
OrphansReported(s) == Recorded(s) /\ item[s] = {}

\* A sale that checkIntegrity reports: no line, or less paid than its total.
Reported(s) == Recorded(s) /\ (item[s] = {} \/ PaidAmount(s) < sale[s].total)

UnderWay(s) == \E c \in Clerks : op[c].sale = s

\* Another operation begins, within the bounds.
Begin ==
  LET busy(b) == IF b THEN 1 ELSE 0 IN
  /\ Cardinality({c \in Clerks : op[c] # Idle}) + busy(closing # NoClosing)
       + busy(settling # NoSettling) < MaxBusy
  /\ begun < MaxBegun
  /\ begun' = begun + 1

\* Lines and payments are written in the cart's order, which may be any.
First(todo) == CHOOSE x \in todo : TRUE

-----------------------------------------------------------------------------
(* SaleRepository.record and recordRefund, statement by statement.         *)

Set(c, o) == op' = [op EXCEPT ![c] = o]

\* Ways to pay for a cart: the panel only confirms what covers the total, to the unit.
Splits(cart) ==
  {f \in [Methods -> 0..Cardinality(cart)] : SumFunction(f) = Cardinality(cart)}

\* The tests made before anything is written; assertStockSuffisant is one of them.
RecordCheck(c, cart, pay) ==
  /\ c \in Panels /\ op[c] = Idle /\ Begin
  /\ pay \in Splits(cart)
  /\ \A p \in cart \cap Strict : level[p] >= 1
  /\ Set(c, [Idle EXCEPT !.step = "number", !.cart = cart, !.todo = cart, !.pay = pay,
                         !.due = {m \in Methods : pay[m] # 0}])
  /\ UNCHANGED <<tables, closing, settling, foreign, faults, ghosts>>

\* Seeded fault: a ticket that was refunded is not looked for.
NeverRefunded(s) == TRUE

\* A sale is refunded unless its refunds amount to its total already.
Refundable(s) == RefundedAmountOf(s) < sale[s].total

\* findDetails, refundedAmountOf and buildRefund: all lines, by the method of the first payment.
\* A ticket that is being recorded is not refunded: the cashier has to see it, choose and confirm.
RefundCheck(s) ==
  /\ op[History] = Idle /\ Begin
  /\ Recorded(s) /\ sale[s].of = None /\ ~UnderWay(s)
  /\ Refundable(s) /\ item[s] # {}
  /\ \E m \in Methods :
       /\ IF \E n \in Methods : paid[s][n] # 0 THEN paid[s][m] # 0 ELSE m = "cash"
       /\ Set(History, [Idle EXCEPT !.step = "number", !.of = s, !.session = sale[s].session,
                !.cart = item[s], !.todo = item[s], !.due = {m},
                !.pay = [Nothing EXCEPT ![m] = -Cardinality(item[s])]])
  /\ UNCHANGED <<tables, closing, settling, foreign, faults, ghosts>>

\* nextSequence and, for a sale, openSessionId: two reads.
ReadSequence(c) ==
  /\ op[c].step = "number"
  /\ Set(c, [op[c] EXCEPT !.step = "row", !.seq = NextSequence,
               !.session = IF op[c].of = None THEN OpenSessionId ELSE op[c].session])
  /\ UNCHANGED <<tables, closing, settling, foreign, begun, faults, ghosts>>

\* A refund keeps the register of the ticket it refunds, and is numbered by this one.
RegisterOf(o) == IF o.of = None THEN "here" ELSE sale[o.of].reg

\* Seeded fault: no unique index.
IndexMissing(reg, seq) == TRUE

\* The unique index ux_sale_seq.
IndexAllows(reg, seq) == seq \notin NumbersOf(reg)

InsertSale(c, s) ==
  /\ op[c].step = "row" /\ ~Recorded(s)
  /\ IndexAllows(RegisterOf(op[c]), op[c].seq)
  /\ sale' = [sale EXCEPT ![s] =
       [reg |-> RegisterOf(op[c]), seq |-> op[c].seq, session |-> op[c].session, of |-> op[c].of,
        total |-> IF op[c].of = None THEN Cardinality(op[c].cart) ELSE -Cardinality(op[c].cart)]]
  /\ Set(c, [op[c] EXCEPT !.step = "items", !.sale = s])
  /\ UNCHANGED <<item, paid, moved, level, charged, settled, session, closing, settling,
                 foreign, begun, faults, ghosts>>

\* The number was taken since it was read: nothing has been written.
InsertRefused(c) ==
  /\ op[c].step = "row" /\ ~IndexAllows(RegisterOf(op[c]), op[c].seq)
  /\ Set(c, Idle)
  /\ UNCHANGED <<tables, closing, settling, foreign, begun, faults, ghosts>>

InsertItem(c) ==
  LET p == First(op[c].todo) IN
  /\ op[c].step = "items"
  /\ item' = [item EXCEPT ![op[c].sale] = @ \cup {p}]
  /\ Set(c, [op[c] EXCEPT !.todo = @ \ {p},
               !.step = IF op[c].todo = {p} THEN "payments" ELSE "items"])
  /\ UNCHANGED <<sale, paid, moved, level, charged, settled, session, closing, settling,
                 foreign, begun, faults, ghosts>>

\* Seeded fault: credit that is a part of the payment is forgotten.
WholeCreditOnly(o) ==
  IF o.of = None /\ o.pay["credit"] = Cardinality(o.cart)
  THEN [o EXCEPT !.step = "credit", !.item = None] ELSE Idle

\* The steps after the payments, and after the stock: a refund credits no account.
AfterStock(o) ==
  IF o.of = None /\ o.pay["credit"] > 0 THEN [o EXCEPT !.step = "credit", !.item = None] ELSE Idle

AfterPayments(o) ==
  IF o.cart \cap Tracked = {} THEN AfterStock(o)
  ELSE [o EXCEPT !.step = "stock", !.todo = o.cart \cap Tracked, !.due = {}]

\* Cash that changes hands, and the session whose tickets or movements account for it.
CashMoves(amount, account, isRefund) ==
  LET k == OpenSessionId IN
  /\ drawer' = IF k = None THEN drawer ELSE [drawer EXCEPT ![k] = @ + amount]
  /\ overlapped' = overlapped \cup
       ((IF amount = 0 THEN {} ELSE {closing.session}
           \cup IF account # k /\ ~isRefund THEN {k, account} ELSE {}) \ {None})
  /\ returned' = returned \cup
       (IF amount # 0 /\ account # k /\ isRefund THEN {k} \ {None} ELSE {})
  /\ UNCHANGED <<cut, refused, misfits>>

InsertPayment(c) ==
  LET o == op[c]
      m == First(o.due)
      left == [o EXCEPT !.due = @ \ {m}] IN
  /\ o.step = "payments"
  /\ paid' = [paid EXCEPT ![o.sale] = [@ EXCEPT ![m] = o.pay[m]]]
  /\ CashMoves(IF m = "cash" THEN o.pay[m] ELSE 0, o.session, o.of # None)
  /\ Set(c, IF o.due = {m} THEN AfterPayments(left) ELSE left)
  /\ UNCHANGED <<sale, item, moved, level, charged, settled, session, closing, settling,
                 foreign, begun, faults>>

\* decrementStock and restoreStock: the movement, then the level.
InsertMovement(c) ==
  LET p == First(op[c].todo) IN
  /\ op[c].step = "stock"
  /\ moved' = [moved EXCEPT ![op[c].sale] = @ \cup {p}]
  /\ Set(c, [op[c] EXCEPT !.step = "level", !.item = p])
  /\ UNCHANGED <<sale, item, paid, level, charged, settled, session, closing, settling,
                 foreign, begun, faults, ghosts>>

\* saleDelta and returnDelta.
Delta(of) == IF of = None THEN -1 ELSE 1

MoveLevel(c) ==
  LET o == op[c]
      left == [o EXCEPT !.todo = @ \ {o.item}, !.step = "stock", !.item = None] IN
  /\ o.step = "level"
  /\ level' = [level EXCEPT ![o.item] = @ + Delta(o.of)]
  /\ Set(c, IF o.todo = {o.item} THEN AfterStock(left) ELSE left)
  /\ UNCHANGED <<sale, item, paid, moved, charged, settled, session, closing, settling,
                 foreign, begun, faults, ghosts>>

\* chargeSale reads the balance, then writes the movement or throws.
ReadBalance(c) ==
  /\ op[c].step = "credit" /\ CreditAllowed(op[c].pay["credit"])
  /\ Set(c, [op[c] EXCEPT !.step = "charge"])
  /\ UNCHANGED <<tables, closing, settling, foreign, begun, faults, ghosts>>

CreditRefused(c) ==
  /\ op[c].step = "credit" /\ ~CreditAllowed(op[c].pay["credit"])
  /\ refused' = refused \cup {op[c].sale}
  /\ Set(c, Idle)
  /\ UNCHANGED <<tables, closing, settling, foreign, begun, faults, drawer, overlapped, returned,
                 cut, misfits>>

ChargeSale(c) ==
  /\ op[c].step = "charge"
  /\ charged' = [charged EXCEPT ![op[c].sale] = @ + op[c].pay["credit"]]
  /\ Set(c, Idle)
  /\ UNCHANGED <<sale, item, paid, moved, level, settled, session, closing, settling,
                 foreign, begun, faults, ghosts>>

-----------------------------------------------------------------------------
(* The drawer and the account.                                             *)

OpenSession(k) ==
  /\ OpenSessionId = None /\ closing = NoClosing
  /\ session[k].status = "none"
  /\ session' = [session EXCEPT ![k].status = "open"]
  /\ UNCHANGED <<sale, item, paid, moved, level, charged, settled, op, closing, settling,
                 foreign, begun, faults, ghosts>>

\* close reads the session and its movements, and then writes the total it read.
CloseRead(k) ==
  /\ closing = NoClosing /\ OpenSessionId = k /\ Begin
  /\ closing' = [session |-> k, expected |-> ExpectedCents(k)]
  /\ UNCHANGED <<tables, op, settling, foreign, faults, ghosts>>

CloseWrite ==
  /\ closing.session # None
  /\ session' = [session EXCEPT ![closing.session].status = "closed",
                                ![closing.session].expected = closing.expected]
  /\ closing' = NoClosing
  /\ UNCHANGED <<sale, item, paid, moved, level, charged, settled, op, settling,
                 foreign, begun, faults, ghosts>>

\* CustomersScreen.regler, offered to who owes: any amount; it reads the open session, then settle
\* inserts the movement.
SettleRead(amount, method) ==
  /\ settling = NoSettling /\ Begin /\ Balance > 0 /\ settled + amount <= MaxSettled
  /\ settling' = [amount |-> amount, method |-> method, session |-> OpenSessionId]
  /\ UNCHANGED <<tables, op, closing, foreign, faults, ghosts>>

SettleWrite ==
  LET cash == IF settling.method = "cash" THEN settling.amount ELSE 0 IN
  /\ settling.amount > 0
  /\ settled' = settled + settling.amount
  /\ session' = IF settling.session = None THEN session
                ELSE [session EXCEPT ![settling.session].collected = @ + cash]
  /\ CashMoves(cash, settling.session, FALSE)
  /\ settling' = NoSettling
  /\ UNCHANGED <<sale, item, paid, moved, level, charged, op, closing, foreign, begun, faults>>

-----------------------------------------------------------------------------
(* Another register's sales, and failures.                                 *)

\* A sale of the other register, whole; it numbers its sales one after the other.
Arrive(s, p) ==
  /\ foreign < MaxForeign /\ ~Recorded(s)
  /\ foreign' = foreign + 1
  /\ IndexAllows("there", foreign + 1)
  /\ sale' = [sale EXCEPT ![s] = [reg |-> "there", seq |-> foreign + 1, session |-> None,
                                  of |-> None, total |-> 1]]
  /\ item' = [item EXCEPT ![s] = {p}]
  /\ paid' = [paid EXCEPT ![s] = [Nothing EXCEPT !["cash"] = 1]]
  /\ UNCHANGED <<moved, level, charged, settled, session, op, closing, settling, faults, ghosts, begun>>

\* The index refuses it: the applier puts it aside, and will be refused again.
ArriveMisfit ==
  /\ foreign < MaxForeign
  /\ foreign' = foreign + 1
  /\ ~IndexAllows("there", foreign + 1)
  /\ misfits' = misfits \cup {foreign + 1}
  /\ UNCHANGED <<tables, op, closing, settling, faults, drawer, overlapped, returned, cut, refused, begun>>

StatementFails(c) ==
  /\ op[c].step # "idle" /\ faults < MaxFaults
  /\ faults' = faults + 1
  /\ cut' = cut \cup ({op[c].sale} \ {None})
  /\ Set(c, Idle)
  /\ UNCHANGED <<tables, closing, settling, foreign, drawer, overlapped, returned, refused, misfits, begun>>

Crash ==
  /\ faults < MaxFaults
  /\ faults' = faults + 1
  /\ cut' = cut \cup ({op[c].sale : c \in Clerks} \ {None})
  /\ op' = [c \in Clerks |-> Idle]
  /\ closing' = NoClosing
  /\ settling' = NoSettling
  /\ UNCHANGED <<tables, foreign, drawer, overlapped, returned, refused, misfits, begun>>

Recording(c) ==
  \/ ReadSequence(c) \/ InsertRefused(c) \/ MoveLevel(c)
  \/ ReadBalance(c) \/ CreditRefused(c) \/ ChargeSale(c) \/ StatementFails(c)
  \/ \E s \in Sales : InsertSale(c, s)
  \/ InsertItem(c) \/ InsertPayment(c) \/ InsertMovement(c)
  \/ \E cart \in Carts : \E pay \in Splits(cart) : RecordCheck(c, cart, pay)

Next ==
  \/ \E c \in Clerks : Recording(c)
  \/ \E s \in Sales : RefundCheck(s) \/ \E p \in Products : Arrive(s, p)
  \/ \E k \in Sessions : OpenSession(k) \/ CloseRead(k)
  \/ CloseWrite \/ SettleWrite \/ ArriveMisfit \/ Crash
  \/ \E amount \in 1..MaxSettled, method \in Methods \ {"credit"} : SettleRead(amount, method)

Spec == Init /\ [][Next]_vars

-----------------------------------------------------------------------------
(* Properties.                                                             *)

\* A register's tickets bear the numbers 1, 2, 3... without a gap or a double, whatever screens
\* take a number at once and whatever fails (nextSequence, ux_sale_seq); a sale of the other
\* register is refused its place only by a refund, numbered here, of one of its tickets.
NumbersGapless ==
  /\ NumbersOf("here") = 1..Cardinality(NumbersOf("here"))
  /\ \A s, t \in Sales :
       Recorded(s) /\ Recorded(t) /\ sale[s].seq = sale[t].seq /\ sale[s].reg = sale[t].reg => s = t
  /\ \A n \in misfits :
       \E s \in Sales : sale[s].reg = "there" /\ sale[s].seq = n /\ sale[s].of # None

\* A sale cut off while it was recorded is either reported by checkIntegrity or has all its lines
\* and payments; a sale recorded to its end is never reported (the order of the inserts).
IntegrityReports ==
  \A s \in Sales :
    Recorded(s) /\ sale[s].of = None /\ ~UnderWay(s) =>
      /\ ~Reported(s) => Cardinality(item[s]) = sale[s].total /\ PaidAmount(s) = sale[s].total
      /\ s \notin cut => ~Reported(s)

\* The level of an article is what its movements leave, unless a sale that moved it was cut off
\* (decrementStock, restoreStock: two statements each).
LevelFollowsMoves ==
  \A p \in Products :
    (\A s \in Sales : p \in moved[s] => s \notin cut)
      /\ (\A c \in Clerks : op[c].step = "level" => op[c].item # p) =>
    level[p] = Opening - Cardinality({s \in Sales : p \in moved[s] /\ sale[s].of = None})
                       + Cardinality({s \in Sales : p \in moved[s] /\ sale[s].of # None})

\* The total frozen by a closing is the cash that went into the drawer during the session, when
\* no cash moved while it was closed and no ticket of another session was refunded
\* (openSessionId, movementsOf, computeCashReport, settle).
ExpectedIsDrawer ==
  \A k \in Sessions :
    session[k].status = "closed" /\ k \notin overlapped /\ k \notin returned =>
      session[k].expected = drawer[k]

\* What a customer owes never exceeds the limit, though the balance is read before the sale is
\* charged and payments come in between (checkCredit).
WithinLimit == Balance <= Limit

\* A sale is owed for what was paid on credit once it is recorded to its end, and never for more,
\* nor is a refund (chargeSale is the last of record's writes).
CreditIsOwed ==
  \A s \in Sales :
    \/ charged[s] = 0 /\ (UnderWay(s) \/ sale[s].of # None \/ s \in cut \cup refused)
    \/ charged[s] = paid[s]["credit"]

\* sale.repository.ts:341: when the limit is exceeded nothing is written.
RefusedWritesNothing == \A s \in refused : ~Recorded(s)

\* A sale recorded to its end is refunded once at most, whatever fails on the way.
RefundedOnce ==
  \A s \in Sales : s \notin cut => Cardinality(RefundsOf(s)) <= 1

\* The tables agree with one another: stock with its movements, accounts with their limit,
\* refunds with the sales they refund.
TillHolds == TypeOK /\ LevelFollowsMoves /\ WithinLimit /\ RefundedOnce
=============================================================================
