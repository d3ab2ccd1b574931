-------------------------- MODULE TillSalesProofs --------------------------
(***************************************************************************)
(* What is proved of TillSales, for any number of screens, tickets,        *)
(* articles and sessions: a register's numbers have no gap, an account     *)
(* owes what tickets say was paid on credit, checkIntegrity reports what   *)
(* was cut off, stock follows its movements, a closing freezes what the    *)
(* drawer holds, and one panel keeps an account within its limit.          *)
(***************************************************************************)
EXTENDS TillSales, SumTheorems, TLAPS

-----------------------------------------------------------------------------
(* Types.  A recording always has an article left to write.                *)

Busy(o) ==
  /\ o.step \in {"number", "row", "items", "stock", "level"} => o.todo # {}
  /\ o.step = "level" => o.item \in o.todo
  /\ o.step \notin {"idle", "number", "row"} => o.sale # None

TypeInv == TicketTypes /\ \A c \in Clerks : Busy(op[c])

LEMMA CartCount ==
  ASSUME NEW cart \in SUBSET Products
  PROVE  Cardinality(cart) \in Nat
BY SetsAssumption, FS_Subset, FS_CardinalityType

LEMMA NothingType == Nothing \in Owed
BY DEF Nothing, Owed

LEMMA IdleType == Idle \in Recordings /\ Busy(Idle)
BY NothingType DEF Idle, Recordings, Steps, Busy

LEMMA InitType == Init => TypeInv
<1> SUFFICES ASSUME Init PROVE TypeInv
  OBVIOUS
<1>1. sale \in [Sales -> SaleRows]
  BY DEF Init, NoRow, SaleRows
<1>2. paid \in [Sales -> Owed] /\ level \in [Products -> Int]
  BY NothingType, NumbersAssumption DEF Init
<1>3. op \in [Clerks -> Recordings] /\ \A c \in Clerks : Busy(op[c])
  BY IdleType DEF Init
<1> QED BY <1>1, <1>2, <1>3, NumbersAssumption DEF Init, TypeInv, TicketTypes

\* A recording that begins, goes on or ends keeps the table of recordings typed.
LEMMA OpType ==
  ASSUME TypeInv, NEW c \in Clerks, NEW r \in Recordings, Busy(r), Set(c, r)
  PROVE  op' \in [Clerks -> Recordings] /\ \A d \in Clerks : Busy(op'[d])
BY DEF TypeInv, TicketTypes, Set

\* The fields that a step of a recording sets.
LEMMA FieldTypes ==
  ASSUME NEW r \in Recordings
  PROVE  /\ \A x \in Steps : [r EXCEPT !.step = x] \in Recordings
         /\ \A x \in Sales : [r EXCEPT !.step = "items", !.sale = x] \in Recordings
         /\ \A x \in SUBSET Products, y \in Steps :
              [r EXCEPT !.todo = x, !.step = y] \in Recordings
         /\ \A x \in SUBSET Methods : [r EXCEPT !.due = x] \in Recordings
         /\ \A x \in Products : [r EXCEPT !.step = "level", !.item = x] \in Recordings
         /\ \A x \in SUBSET Products :
              [r EXCEPT !.todo = x, !.step = "stock", !.item = None] \in Recordings
<1>1. /\ \A x \in Steps : [r EXCEPT !.step = x] \in Recordings
      /\ \A x \in Sales : [r EXCEPT !.step = "items", !.sale = x] \in Recordings
  BY DEF Recordings, Steps
<1>2. /\ \A x \in SUBSET Products, y \in Steps : [r EXCEPT !.todo = x, !.step = y] \in Recordings
      /\ \A x \in SUBSET Methods : [r EXCEPT !.due = x] \in Recordings
  BY DEF Recordings
<1>3. \A x \in Products : [r EXCEPT !.step = "level", !.item = x] \in Recordings
  BY DEF Recordings, Steps
<1>4. \A x \in SUBSET Products : [r EXCEPT !.todo = x, !.step = "stock", !.item = None] \in Recordings
  BY DEF Recordings, Steps
<1> QED BY <1>1, <1>2, <1>3, <1>4

LEMMA AfterStockType ==
  ASSUME NEW o \in Recordings, o.sale # None
  PROVE  AfterStock(o) \in Recordings /\ Busy(AfterStock(o))
<1>1. CASE o.of = None /\ o.pay["credit"] > 0
  <2>1. AfterStock(o) = [o EXCEPT !.step = "credit", !.item = None]
    BY <1>1 DEF AfterStock
  <2> QED BY <2>1 DEF Recordings, Steps, Busy
<1>2. CASE ~(o.of = None /\ o.pay["credit"] > 0)
  BY <1>2, IdleType DEF AfterStock
<1> QED BY <1>1, <1>2

LEMMA AfterPaymentsType ==
  ASSUME NEW o \in Recordings, o.sale # None
  PROVE  AfterPayments(o) \in Recordings /\ Busy(AfterPayments(o))
<1>1. CASE o.cart \cap Tracked = {}
  BY <1>1, AfterStockType DEF AfterPayments
<1>2. CASE o.cart \cap Tracked # {}
  <2>1. AfterPayments(o) = [o EXCEPT !.step = "stock", !.todo = o.cart \cap Tracked, !.due = {}]
    BY <1>2 DEF AfterPayments
  <2> QED BY <1>2, <2>1 DEF Recordings, Steps, Busy
<1> QED BY <1>1, <1>2

LEMMA NextSequenceType ==
  ASSUME TicketTypes, NEW n \in Nat, NumbersOf("here") = 1..n
  PROVE  NextSequence = n + 1
<1> DEFINE S == (1..n) \cup {0}
<1>1. n \in S /\ \A y \in S : n >= y
  OBVIOUS
<1>2. \A x \in S : (\A y \in S : x >= y) => x = n
  BY <1>1
<1>3. Max(S) = n
  BY <1>1, <1>2 DEF Max
<1> QED BY <1>3 DEF NextSequence

LEMMA RecordCheckType ==
  ASSUME TypeInv, NEW c \in Clerks, NEW cart \in Carts, NEW pay \in Splits(cart),
         RecordCheck(c, cart, pay)
  PROVE  TypeInv'
<1> DEFINE r == [Idle EXCEPT !.step = "number", !.cart = cart, !.todo = cart, !.pay = pay,
                             !.due = {m \in Methods : pay[m] # 0}]
<1>1. cart \in SUBSET Products /\ cart # {}
  BY SetsAssumption
<1>2. pay \in Owed
  BY <1>1, CartCount DEF Splits, Owed
<1>3. r \in Recordings /\ Busy(r)
  BY <1>1, <1>2, IdleType DEF Recordings, Steps, Busy, Idle
<1>4. Set(c, r) /\ UNCHANGED <<tables, foreign, ghosts>>
  BY DEF RecordCheck
<1> HIDE DEF r
<1> QED BY <1>3, <1>4, OpType DEF TypeInv, TicketTypes, tables, ghosts

LEMMA RefundCheckType ==
  ASSUME TypeInv, NEW s \in Sales, RefundCheck(s)
  PROVE  TypeInv'
<1> PICK m \in Methods :
      Set(History, [Idle EXCEPT !.step = "number", !.of = s, !.session = sale[s].session,
                !.cart = item[s], !.todo = item[s], !.due = {m},
                !.pay = [Nothing EXCEPT ![m] = -Cardinality(item[s])]])
  BY DEF RefundCheck
<1> DEFINE p == [Nothing EXCEPT ![m] = -Cardinality(item[s])]
<1> DEFINE r == [Idle EXCEPT !.step = "number", !.of = s, !.session = sale[s].session,
                !.cart = item[s], !.todo = item[s], !.due = {m}, !.pay = p]
<1>1. item[s] \in SUBSET Products /\ item[s] # {} /\ sale[s].session \in Sessions \cup {None}
  BY DEF TypeInv, TicketTypes, RefundCheck, SaleRows
<1>2. p \in Owed
  BY <1>1, CartCount, NothingType DEF Owed
<1>3. r \in Recordings /\ Busy(r)
  <2> HIDE DEF p
  <2> QED BY <1>1, <1>2, IdleType DEF Recordings, Steps, Busy, Idle
<1>4. Set(History, r) /\ History \in Clerks /\ UNCHANGED <<tables, foreign, ghosts>>
  BY DEF RefundCheck, Clerks
<1> HIDE DEF r
<1> QED BY <1>3, <1>4, OpType DEF TypeInv, TicketTypes, tables, ghosts

LEMMA OpenSessionType == OpenSessionId \in Sessions \cup {None}
BY DEF OpenSessionId

Gapless == \E n \in Nat : NumbersOf("here") = 1..n

\* First is one of the elements.
LEMMA FirstIn == ASSUME NEW S, S # {} PROVE First(S) \in S
BY DEF First

LEMMA RecordingType ==
  ASSUME TypeInv, Gapless, NEW c \in Clerks, Recording(c)
  PROVE  TypeInv'
<1>0. op[c] \in Recordings /\ Busy(op[c])
  BY DEF TypeInv, TicketTypes
<1>1. ASSUME ReadSequence(c) PROVE TypeInv'
  <2> DEFINE r == [op[c] EXCEPT !.step = "row", !.seq = NextSequence,
               !.session = IF op[c].of = None THEN OpenSessionId ELSE op[c].session]
  <2>1. NextSequence \in Nat
    BY NextSequenceType DEF Gapless, TypeInv
  <2>2. r \in Recordings /\ Busy(r)
    BY <1>0, <1>1, <2>1, OpenSessionType DEF ReadSequence, Recordings, Steps, Busy
  <2>3. Set(c, r) /\ UNCHANGED <<tables, foreign, ghosts>>
    BY <1>1 DEF ReadSequence
  <2> HIDE DEF r
  <2> QED BY <2>2, <2>3, OpType DEF TypeInv, TicketTypes, tables, ghosts
<1>2. ASSUME InsertRefused(c) PROVE TypeInv'
  <2>1. Set(c, Idle) /\ UNCHANGED <<tables, foreign, ghosts>>
    BY <1>2 DEF InsertRefused
  <2> QED BY <2>1, IdleType, OpType DEF TypeInv, TicketTypes, tables, ghosts
<1>3. ASSUME MoveLevel(c) PROVE TypeInv'
  <2> DEFINE left == [op[c] EXCEPT !.todo = @ \ {op[c].item}, !.step = "stock", !.item = None]
  <2> DEFINE r == IF op[c].todo = {op[c].item} THEN AfterStock(left) ELSE left
  <2>1. left \in Recordings /\ left.sale # None
    BY <1>0, <1>3 DEF Recordings, Steps, Busy, MoveLevel
  <2>2. op[c].todo # {op[c].item} => Busy(left)
    BY <1>0, <1>3 DEF Recordings, Busy, MoveLevel
  <2>3. r \in Recordings /\ Busy(r)
    <3> HIDE DEF left
    <3> QED BY <2>1, <2>2, AfterStockType
  <2>4. /\ Set(c, r)
        /\ level' = [level EXCEPT ![op[c].item] = @ + Delta(op[c].of)]
        /\ UNCHANGED <<sale, item, paid, moved, charged, foreign, ghosts>>
    BY <1>3 DEF MoveLevel
  <2>5. Delta(op[c].of) \in Int
    BY DEF Delta
  <2>6. level' \in [Products -> Int]
    <3> DEFINE d == Delta(op[c].of)
    <3> HIDE DEF d
    <3>1. level \in [Products -> Int] /\ d \in Int
      BY <2>5 DEF TypeInv, TicketTypes, d
    <3>2. \A p \in Products : level[p] \in Int /\ level[p] + d \in Int
      BY <3>1
    <3>3. level' = [level EXCEPT ![op[c].item] = level[op[c].item] + d]
      BY <2>4 DEF d
    <3> QED BY <3>1, <3>2, <3>3
  <2> HIDE DEF r
  <2> QED BY <2>3, <2>4, <2>6, OpType DEF TypeInv, TicketTypes, ghosts
<1>4. ASSUME ReadBalance(c) PROVE TypeInv'
  <2> DEFINE r == [op[c] EXCEPT !.step = "charge"]
  <2>1. r \in Recordings /\ Busy(r)
    BY <1>0, <1>4 DEF ReadBalance, Recordings, Steps, Busy
  <2>2. Set(c, r) /\ UNCHANGED <<tables, foreign, ghosts>>
    BY <1>4 DEF ReadBalance
  <2> HIDE DEF r
  <2> QED BY <2>1, <2>2, OpType DEF TypeInv, TicketTypes, tables, ghosts
<1>5. ASSUME CreditRefused(c) PROVE TypeInv'
  <2>1. Set(c, Idle) /\ UNCHANGED <<tables, foreign, cut, misfits>>
    BY <1>5 DEF CreditRefused
  <2>2. refused' \subseteq Sales
    BY <1>0, <1>5 DEF CreditRefused, Busy, Recordings, TypeInv, TicketTypes
  <2> QED BY <2>1, <2>2, IdleType, OpType DEF TypeInv, TicketTypes, tables
<1>6. ASSUME ChargeSale(c) PROVE TypeInv'
  <2>1. /\ Set(c, Idle)
        /\ charged' = [charged EXCEPT ![op[c].sale] = @ + op[c].pay["credit"]]
        /\ UNCHANGED <<sale, item, paid, moved, level, foreign, ghosts>>
    BY <1>6 DEF ChargeSale
  <2>2. op[c].pay["credit"] \in Int
    BY <1>0, MethodsAssumption DEF Recordings, Owed
  <2>3. charged' \in [Sales -> Int]
    <3> DEFINE d == op[c].pay["credit"]
    <3> HIDE DEF d
    <3>1. charged \in [Sales -> Int] /\ d \in Int
      BY <2>2 DEF TypeInv, TicketTypes, d
    <3>2. \A s \in Sales : charged[s] \in Int /\ charged[s] + d \in Int
      BY <3>1
    <3>3. charged' = [charged EXCEPT ![op[c].sale] = charged[op[c].sale] + d]
      BY <2>1 DEF d
    <3> QED BY <3>1, <3>2, <3>3
  <2> QED BY <2>1, <2>3, IdleType, OpType DEF TypeInv, TicketTypes, ghosts
<1>7. ASSUME StatementFails(c) PROVE TypeInv'
  <2>1. Set(c, Idle) /\ UNCHANGED <<tables, foreign, refused, misfits>>
    BY <1>7 DEF StatementFails
  <2>2. cut' \subseteq Sales
    BY <1>0, <1>7 DEF StatementFails, Recordings, TypeInv, TicketTypes
  <2> QED BY <2>1, <2>2, IdleType, OpType DEF TypeInv, TicketTypes, tables
<1>8. ASSUME NEW s \in Sales, InsertSale(c, s) PROVE TypeInv'
  <2> DEFINE r == [op[c] EXCEPT !.step = "items", !.sale = s]
  <2> DEFINE n == IF op[c].of = None THEN Cardinality(op[c].cart) ELSE -Cardinality(op[c].cart)
  <2> DEFINE row == [reg |-> RegisterOf(op[c]), seq |-> op[c].seq,
                     session |-> op[c].session, of |-> op[c].of, total |-> n]
  <2>1. r \in Recordings /\ Busy(r)
    BY <1>0, <1>8, IdsAssumption DEF InsertSale, Recordings, Steps, Busy
  <2>2. n \in Int
    BY <1>0, CartCount DEF Recordings
  <2>3. RegisterOf(op[c]) \in {"here", "there"}
    BY <1>0 DEF RegisterOf, Recordings, TypeInv, TicketTypes, SaleRows
  <2>4. row \in SaleRows
    <3> HIDE DEF n
    <3> QED BY <1>0, <2>2, <2>3 DEF SaleRows, Recordings
  <2>5. Set(c, r) /\ sale' = [sale EXCEPT ![s] = row]
          /\ UNCHANGED <<item, paid, moved, level, charged, foreign, ghosts>>
    BY <1>8 DEF InsertSale
  <2> HIDE DEF r, row
  <2> QED BY <2>1, <2>4, <2>5, OpType DEF TypeInv, TicketTypes, ghosts
<1>9. ASSUME InsertItem(c) PROVE TypeInv'
  <2> DEFINE p == First(op[c].todo)
  <2> DEFINE r == [op[c] EXCEPT !.todo = @ \ {p},
                     !.step = IF op[c].todo = {p} THEN "payments" ELSE "items"]
  <2>1. p \in op[c].todo /\ p \in Products
    BY <1>0, <1>9, FirstIn DEF InsertItem, Busy, Recordings
  <2>2. r \in Recordings /\ Busy(r)
    <3> HIDE DEF p
    <3> QED BY <1>0, <1>9, <2>1 DEF InsertItem, Recordings, Steps, Busy
  <2>3. Set(c, r) /\ item' = [item EXCEPT ![op[c].sale] = @ \cup {p}]
          /\ UNCHANGED <<sale, paid, moved, level, charged, foreign, ghosts>>
    BY <1>9 DEF InsertItem
  <2> HIDE DEF r, p
  <2> QED BY <2>1, <2>2, <2>3, OpType DEF TypeInv, TicketTypes, ghosts
<1>10. ASSUME InsertPayment(c) PROVE TypeInv'
  <2> DEFINE m == First(op[c].due)
  <2> DEFINE left == [op[c] EXCEPT !.due = @ \ {m}]
  <2> DEFINE r == IF op[c].due = {m} THEN AfterPayments(left) ELSE left
  <2>1. left \in Recordings /\ left.sale # None /\ Busy(left)
    BY <1>0, <1>10 DEF InsertPayment, Recordings, Busy
  <2>2. r \in Recordings /\ Busy(r)
    <3> HIDE DEF left
    <3> QED BY <2>1, AfterPaymentsType
  <2>3. /\ Set(c, r)
        /\ paid' = [paid EXCEPT ![op[c].sale] = [@ EXCEPT ![m] = op[c].pay[m]]]
        /\ UNCHANGED <<sale, item, moved, level, charged, foreign, cut, refused, misfits>>
    BY <1>10 DEF InsertPayment, CashMoves
  <2>4. paid' \in [Sales -> Owed]
    <3> HIDE DEF m
    <3> SUFFICES ASSUME NEW f \in Owed PROVE [f EXCEPT ![m] = op[c].pay[m]] \in Owed
      BY <2>3 DEF TypeInv, TicketTypes
    <3> QED BY <1>0 DEF Owed, Recordings
  <2> HIDE DEF r
  <2> QED BY <2>2, <2>3, <2>4, OpType DEF TypeInv, TicketTypes
<1>11. ASSUME InsertMovement(c) PROVE TypeInv'
  <2> DEFINE p == First(op[c].todo)
  <2> DEFINE r == [op[c] EXCEPT !.step = "level", !.item = p]
  <2>1. p \in op[c].todo /\ p \in Products
    BY <1>0, <1>11, FirstIn DEF InsertMovement, Busy, Recordings
  <2>2. r \in Recordings /\ Busy(r)
    <3> HIDE DEF p
    <3> QED BY <1>0, <1>11, <2>1 DEF InsertMovement, Recordings, Steps, Busy
  <2>3. Set(c, r) /\ moved' = [moved EXCEPT ![op[c].sale] = @ \cup {p}]
          /\ UNCHANGED <<sale, item, paid, level, charged, foreign, ghosts>>
    BY <1>11 DEF InsertMovement
  <2> HIDE DEF r, p
  <2> QED BY <2>1, <2>2, <2>3, OpType DEF TypeInv, TicketTypes, ghosts
<1>12. ASSUME NEW cart \in Carts, NEW pay \in Splits(cart), RecordCheck(c, cart, pay)
       PROVE  TypeInv'
  BY <1>12, RecordCheckType
<1> QED BY <1>1, <1>2, <1>3, <1>4, <1>5, <1>6, <1>7, <1>8, <1>9, <1>10, <1>11, <1>12 DEF Recording

\* The drawer and the account leave the tickets alone.
TicketsStay == UNCHANGED <<sale, item, paid, moved, level, charged, op, foreign, cut, refused, misfits>>

LEMMA DrawerLeavesTickets ==
  ASSUME \/ \E k \in Sessions : OpenSession(k) \/ CloseRead(k)
         \/ CloseWrite \/ SettleWrite
         \/ \E amount \in 1..MaxSettled, method \in Methods \ {"credit"} : SettleRead(amount, method)
  PROVE  TicketsStay
BY DEF TicketsStay, OpenSession, CloseRead, CloseWrite, SettleWrite, SettleRead, CashMoves,
       tables, ghosts

LEMMA NextType ==
  ASSUME TypeInv, Gapless, [Next]_vars
  PROVE  TypeInv'
<1>1. ASSUME NEW c \in Clerks, Recording(c) PROVE TypeInv'
  BY <1>1, RecordingType
<1>2. ASSUME NEW s \in Sales, RefundCheck(s) PROVE TypeInv'
  BY <1>2, RefundCheckType
<1>3. ASSUME NEW s \in Sales, NEW p \in Products, Arrive(s, p) PROVE TypeInv'
  <2> DEFINE row == [reg |-> "there", seq |-> foreign + 1, session |-> None,
                     of |-> None, total |-> 1]
  <2> DEFINE cash == [Nothing EXCEPT !["cash"] = 1]
  <2>1. row \in SaleRows /\ foreign + 1 \in 0..MaxForeign
    BY <1>3, NumbersAssumption DEF Arrive, SaleRows, TypeInv, TicketTypes
  <2>2. cash \in Owed
    <3>1. \A f \in Owed, n \in Int, m \in Methods : [f EXCEPT ![m] = n] \in Owed
      BY DEF Owed
    <3> QED BY <3>1, NothingType, MethodsAssumption
  <2>3. /\ sale' = [sale EXCEPT ![s] = row] /\ item' = [item EXCEPT ![s] = {p}]
        /\ paid' = [paid EXCEPT ![s] = cash] /\ foreign' = foreign + 1
        /\ UNCHANGED <<moved, level, charged, op, ghosts>>
    BY <1>3 DEF Arrive
  <2> HIDE DEF row, cash
  <2> QED BY <2>1, <2>2, <2>3 DEF TypeInv, TicketTypes, ghosts
<1>4. CASE ArriveMisfit
  BY <1>4, NumbersAssumption DEF ArriveMisfit, TypeInv, TicketTypes, tables
<1>5. CASE Crash
  <2>1. op' \in [Clerks -> Recordings] /\ \A c \in Clerks : Busy(op'[c])
    BY <1>5, IdleType DEF Crash
  <2>2. cut' \subseteq Sales
    BY <1>5 DEF Crash, TypeInv, TicketTypes, Recordings
  <2> QED BY <1>5, <2>1, <2>2 DEF Crash, TypeInv, TicketTypes, tables
<1>6. CASE TicketsStay \/ UNCHANGED vars
  BY <1>6 DEF TicketsStay, TypeInv, TicketTypes, vars, tables, ghosts
<1> QED BY <1>1, <1>2, <1>3, <1>4, <1>5, <1>6, DrawerLeavesTickets DEF Next

-----------------------------------------------------------------------------
(* Numbers.  A number that was read still follows one that is used: tickets *)
(* are never removed, so that the index admits it only if it is the next.   *)

Unique ==
  \A s, t \in Sales :
    Recorded(s) /\ Recorded(t) /\ sale[s].seq = sale[t].seq /\ sale[s].reg = sale[t].reg => s = t

Pending ==
  \A c \in Clerks :
    op[c].step = "row" =>
      op[c].seq \in Nat \ {0} /\ (op[c].seq = 1 \/ op[c].seq - 1 \in NumbersOf("here"))

\* The other register's own tickets have arrived in the order of their numbers.
Arrived == \A s \in Sales : sale[s].reg = "there" /\ sale[s].of = None => sale[s].seq <= foreign

Misfits ==
  \A n \in misfits : \E s \in Sales : sale[s].reg = "there" /\ sale[s].seq = n /\ sale[s].of # None

Numbers == Gapless /\ Unique /\ Pending /\ Arrived /\ Misfits

NumInv == TypeInv /\ Numbers

\* The numbers of a register once a row is inserted.
LEMMA NewRow ==
  ASSUME TicketTypes, NEW s \in Sales, ~Recorded(s), NEW row \in SaleRows, row.seq # 0,
         sale' = [sale EXCEPT ![s] = row], NEW reg \in {"here", "there"}
  PROVE  NumbersOf(reg)' = NumbersOf(reg) \cup (IF row.reg = reg THEN {row.seq} ELSE {})
<1>1. \A t \in Sales : sale'[t] = IF t = s THEN row ELSE sale[t]
  BY DEF TicketTypes
<1>2. \A n : n \in NumbersOf(reg)' <=>
               \E t \in Sales : sale'[t].seq # 0 /\ sale'[t].reg = reg /\ n = sale'[t].seq
  BY DEF NumbersOf, Recorded
<1>3. \A n : n \in NumbersOf(reg) <=>
               \E t \in Sales : sale[t].seq # 0 /\ sale[t].reg = reg /\ n = sale[t].seq
  BY DEF NumbersOf, Recorded
<1>4. \A n : n \in NumbersOf(reg)' <=>
               n \in NumbersOf(reg) \/ (row.reg = reg /\ n = row.seq)
  BY <1>1, <1>2, <1>3 DEF Recorded
<1> QED BY <1>4

\* A step that inserts no ticket and reads no number changes nothing of this.
LEMMA NumbersStay ==
  ASSUME NumInv, sale' = sale, foreign' = foreign, misfits' = misfits,
         \A c \in Clerks : op'[c].step = "row" => op[c].step = "row" /\ op'[c].seq = op[c].seq
  PROVE  Numbers'
<1>1. NumbersOf("here")' = NumbersOf("here")
  BY DEF NumbersOf, Recorded
<1> QED BY <1>1 DEF NumInv, Numbers, Gapless, Unique, Pending, Arrived, Misfits, Recorded

\* A ticket that the index admits, with the next number here or a new one there.
LEMMA RowInserted ==
  ASSUME NumInv, NEW s \in Sales, ~Recorded(s), NEW row \in SaleRows, row.seq # 0,
         sale' = [sale EXCEPT ![s] = row], row.seq \notin NumbersOf(row.reg),
         row.reg = "here" => row.seq = 1 \/ row.seq - 1 \in NumbersOf("here"),
         row.reg = "there" /\ row.of = None => row.seq <= foreign',
         foreign' \in Nat, foreign' >= foreign, misfits' = misfits,
         \A c \in Clerks : op'[c].step = "row" => op[c].step = "row" /\ op'[c].seq = op[c].seq
  PROVE  Numbers'
<1>0. TicketTypes /\ row.seq \in Nat /\ row.reg \in {"here", "there"}
  BY DEF NumInv, Numbers, TypeInv, SaleRows
<1>1. \A t \in Sales : sale'[t] = IF t = s THEN row ELSE sale[t]
  BY <1>0 DEF TicketTypes
<1>2. NumbersOf("here")' = NumbersOf("here") \cup (IF row.reg = "here" THEN {row.seq} ELSE {})
  BY <1>0, NewRow
<1>3. Gapless'
  <2>1. PICK n \in Nat : NumbersOf("here") = 1..n
    BY DEF NumInv, Numbers, Gapless
  <2>2. CASE row.reg = "here"
    <3>1. row.seq = n + 1
      BY <1>0, <2>1, <2>2
    <3>2. NumbersOf("here")' = 1..(n + 1)
      <4>1. (1..n) \cup {n + 1} = 1..(n + 1)
        OBVIOUS
      <4> QED BY <1>2, <2>1, <2>2, <3>1, <4>1
    <3> QED BY <3>2 DEF Gapless
  <2>3. CASE row.reg # "here"
    BY <1>2, <2>1, <2>3 DEF Gapless
  <2> QED BY <2>2, <2>3
<1>4. Unique'
  <2>1. \A t \in Sales :
          sale[t].seq # 0 /\ sale[t].reg = row.reg => sale[t].seq # row.seq
    BY DEF NumbersOf, Recorded
  <2> QED BY <1>1, <2>1 DEF NumInv, Numbers, Unique, Recorded
<1>5. Pending'
  BY <1>2 DEF NumInv, Numbers, Pending
<1>6. Arrived'
  <2>1. foreign \in Int /\ \A t \in Sales : sale[t].seq \in Int
    BY <1>0, NumbersAssumption DEF TicketTypes, SaleRows
  <2> QED BY <1>1, <2>1 DEF NumInv, Numbers, Arrived
<1>7. Misfits'
  <2>1. \A n \in misfits : n # 0
    BY <1>0 DEF TicketTypes
  <2> QED BY <1>1, <2>1 DEF NumInv, Numbers, Misfits, Recorded
<1> QED BY <1>3, <1>4, <1>5, <1>6, <1>7 DEF Numbers

LEMMA InitNum == Init => NumInv
<1> SUFFICES ASSUME Init PROVE NumInv
  OBVIOUS
<1>1. \A s \in Sales : sale[s].seq = 0 /\ sale[s].reg = "here"
  BY DEF Init, NoRow
<1>2. NumbersOf("here") = 1..0
  BY <1>1 DEF NumbersOf, Recorded
<1>3. Gapless
  BY <1>2 DEF Gapless
<1>4. Unique /\ Arrived
  BY <1>1 DEF Unique, Arrived, Recorded
<1>5. Pending /\ Misfits
  BY DEF Init, Pending, Misfits, Idle
<1> QED BY <1>3, <1>4, <1>5, InitType DEF NumInv, Numbers

LEMMA RecordingNum ==
  ASSUME NumInv, NEW c \in Clerks, Recording(c)
  PROVE  Numbers'
<1>0. TypeInv /\ TicketTypes /\ op \in [Clerks -> Recordings] /\ op[c] \in Recordings
  BY DEF NumInv, Numbers, TypeInv, TicketTypes
<1>a. ASSUME NEW r, Set(c, r), r.step # "row", UNCHANGED <<sale, foreign, misfits>>
      PROVE  Numbers'
  <2>1. \A d \in Clerks : op'[d] = IF d = c THEN r ELSE op[d]
    BY <1>0, <1>a DEF Set
  <2> QED BY <1>a, <2>1, NumbersStay
<1>b. \A o \in Recordings : AfterStock(o).step # "row" /\ AfterPayments(o).step # "row"
  BY DEF AfterStock, AfterPayments, Idle, Recordings
<1>c. Idle.step # "row"
  BY DEF Idle
<1>1. ASSUME ReadSequence(c) PROVE Numbers'
  <2> DEFINE r == [op[c] EXCEPT !.step = "row", !.seq = NextSequence,
               !.session = IF op[c].of = None THEN OpenSessionId ELSE op[c].session]
  <2>1. PICK n \in Nat : NumbersOf("here") = 1..n
    BY DEF NumInv, Numbers, Gapless
  <2>2. NextSequence = n + 1
    BY <1>0, <2>1, NextSequenceType
  <2>3. \A d \in Clerks : op'[d] = IF d = c THEN r ELSE op[d]
    BY <1>0, <1>1 DEF ReadSequence, Set
  <2>4. r.seq = n + 1
    BY <1>0, <2>2 DEF Recordings
  <2>5. UNCHANGED <<sale, foreign, misfits>>
    BY <1>1 DEF ReadSequence, tables, ghosts
  <2>6. NumbersOf("here")' = NumbersOf("here")
    BY <2>5 DEF NumbersOf, Recorded
  <2>7. Pending'
    <3> SUFFICES ASSUME NEW d \in Clerks, op'[d].step = "row"
                 PROVE  /\ op'[d].seq \in Nat \ {0}
                        /\ op'[d].seq = 1 \/ op'[d].seq - 1 \in NumbersOf("here")
      BY <2>6 DEF Pending
    <3>1. CASE d = c
      <4> HIDE DEF r
      <4>1. op'[d].seq = n + 1
        BY <2>3, <2>4, <3>1
      <4>2. n = 0 \/ n \in 1..n
        OBVIOUS
      <4> QED BY <2>1, <4>1, <4>2
    <3>2. CASE d # c
      BY <2>3, <3>2 DEF NumInv, Numbers, Pending
    <3> QED BY <3>1, <3>2
  <2> QED BY <2>5, <2>6, <2>7 DEF NumInv, Numbers, Gapless, Unique, Arrived, Misfits, Recorded
<1>2. ASSUME NEW s \in Sales, InsertSale(c, s) PROVE Numbers'
  <2> DEFINE n == IF op[c].of = None THEN Cardinality(op[c].cart) ELSE -Cardinality(op[c].cart)
  <2> DEFINE row == [reg |-> RegisterOf(op[c]), seq |-> op[c].seq,
                     session |-> op[c].session, of |-> op[c].of, total |-> n]
  <2> DEFINE r == [op[c] EXCEPT !.step = "items", !.sale = s]
  <2>1. n \in Int
    BY <1>0, CartCount DEF Recordings
  <2>2. RegisterOf(op[c]) \in {"here", "there"} /\ (op[c].of = None => RegisterOf(op[c]) = "here")
    BY <1>0 DEF RegisterOf, Recordings, TicketTypes, SaleRows
  <2>3. row \in SaleRows
    <3> HIDE DEF n
    <3> QED BY <1>0, <2>1, <2>2 DEF SaleRows, Recordings
  <2>4. \A d \in Clerks : op'[d] = IF d = c THEN r ELSE op[d]
    BY <1>0, <1>2 DEF InsertSale, Set
  <2>5. /\ ~Recorded(s) /\ sale' = [sale EXCEPT ![s] = row]
        /\ row.seq \notin NumbersOf(row.reg) /\ UNCHANGED <<foreign, misfits>>
    BY <1>2 DEF InsertSale, IndexAllows, ghosts
  <2>6. row.seq # 0 /\ (row.seq = 1 \/ row.seq - 1 \in NumbersOf("here"))
    BY <1>2 DEF InsertSale, NumInv, Numbers, Pending
  <2>7. row.reg = "there" => row.of # None
    BY <2>2
  <2>8. foreign \in Nat /\ foreign >= foreign
    BY <1>0, NumbersAssumption DEF TicketTypes
  <2>9. r.step = "items"
    BY <1>0 DEF Recordings
  <2>10. \A d \in Clerks : op'[d].step = "row" => op[d].step = "row" /\ op'[d].seq = op[d].seq
    <3> HIDE DEF r
    <3> QED BY <2>4, <2>9
  <2> HIDE DEF row
  <2> QED BY <2>3, <2>5, <2>6, <2>7, <2>8, <2>10, RowInserted
<1>3. ASSUME InsertRefused(c) \/ CreditRefused(c) \/ ChargeSale(c) \/ StatementFails(c) PROVE Numbers'
  <2>1. Set(c, Idle) /\ UNCHANGED <<sale, foreign, misfits>>
    BY <1>3 DEF InsertRefused, CreditRefused, ChargeSale, StatementFails, tables, ghosts
  <2> QED BY <1>a, <1>c, <2>1
<1>4. ASSUME MoveLevel(c) PROVE Numbers'
  <2> DEFINE left == [op[c] EXCEPT !.todo = @ \ {op[c].item}, !.step = "stock", !.item = None]
  <2> DEFINE r == IF op[c].todo = {op[c].item} THEN AfterStock(left) ELSE left
  <2>1. left \in Recordings /\ left.step = "stock"
    BY <1>0 DEF Recordings, Steps
  <2>2. Set(c, r) /\ UNCHANGED <<sale, foreign, misfits>>
    BY <1>4 DEF MoveLevel, ghosts
  <2>3. r.step # "row"
    <3> HIDE DEF left
    <3> QED BY <1>b, <2>1
  <2> HIDE DEF r
  <2> QED BY <1>a, <2>2, <2>3
<1>5. ASSUME ReadBalance(c) PROVE Numbers'
  <2>1. Set(c, [op[c] EXCEPT !.step = "charge"]) /\ UNCHANGED <<sale, foreign, misfits>>
    BY <1>5 DEF ReadBalance, tables, ghosts
  <2>2. [op[c] EXCEPT !.step = "charge"].step # "row"
    BY <1>0 DEF Recordings
  <2> QED BY <1>a, <2>1, <2>2
<1>6. ASSUME InsertItem(c) PROVE Numbers'
  <2> DEFINE p == First(op[c].todo)
  <2> DEFINE r == [op[c] EXCEPT !.todo = @ \ {p},
                     !.step = IF op[c].todo = {p} THEN "payments" ELSE "items"]
  <2>1. Set(c, r) /\ UNCHANGED <<sale, foreign, misfits>>
    BY <1>6 DEF InsertItem, ghosts
  <2>2. r.step # "row"
    <3> HIDE DEF p
    <3> QED BY <1>0 DEF Recordings
  <2> HIDE DEF r
  <2> QED BY <1>a, <2>1, <2>2
<1>7. ASSUME InsertPayment(c) PROVE Numbers'
  <2> DEFINE m == First(op[c].due)
  <2> DEFINE left == [op[c] EXCEPT !.due = @ \ {m}]
  <2> DEFINE r == IF op[c].due = {m} THEN AfterPayments(left) ELSE left
  <2>1. left \in Recordings /\ left.step # "row"
    BY <1>0, <1>7 DEF InsertPayment, Recordings
  <2>2. Set(c, r) /\ UNCHANGED <<sale, foreign, misfits>>
    BY <1>7 DEF InsertPayment, CashMoves
  <2>3. r.step # "row"
    <3> HIDE DEF left
    <3> QED BY <1>b, <2>1
  <2> HIDE DEF r
  <2> QED BY <1>a, <2>2, <2>3
<1>8. ASSUME InsertMovement(c) PROVE Numbers'
  <2> DEFINE p == First(op[c].todo)
  <2> DEFINE r == [op[c] EXCEPT !.step = "level", !.item = p]
  <2>1. Set(c, r) /\ UNCHANGED <<sale, foreign, misfits>>
    BY <1>8 DEF InsertMovement, ghosts
  <2>2. r.step # "row"
    <3> HIDE DEF p
    <3> QED BY <1>0 DEF Recordings
  <2> HIDE DEF r
  <2> QED BY <1>a, <2>1, <2>2
<1>9. ASSUME NEW cart \in Carts, NEW pay \in Splits(cart), RecordCheck(c, cart, pay) PROVE Numbers'
  <2> DEFINE r == [Idle EXCEPT !.step = "number", !.cart = cart, !.todo = cart, !.pay = pay,
                               !.due = {m \in Methods : pay[m] # 0}]
  <2>1. Set(c, r) /\ UNCHANGED <<sale, foreign, misfits>>
    BY <1>9 DEF RecordCheck, tables, ghosts
  <2>2. r.step # "row"
    BY DEF Idle
  <2> HIDE DEF r
  <2> QED BY <1>a, <2>1, <2>2
<1> QED BY <1>1, <1>2, <1>3, <1>4, <1>5, <1>6, <1>7, <1>8, <1>9 DEF Recording

LEMMA NextNum == NumInv /\ [Next]_vars => NumInv'
<1> SUFFICES ASSUME NumInv, [Next]_vars PROVE NumInv'
  OBVIOUS
<1>0. TypeInv' /\ TicketTypes
  BY NextType DEF NumInv, Numbers, TypeInv
<1> SUFFICES Numbers'
  BY <1>0 DEF NumInv
<1>1. ASSUME NEW c \in Clerks, Recording(c) PROVE Numbers'
  BY <1>1, RecordingNum
<1>2. ASSUME NEW s \in Sales, RefundCheck(s) PROVE Numbers'
  <2>1. PICK m \in Methods :
          Set(History, [Idle EXCEPT !.step = "number", !.of = s, !.session = sale[s].session,
                !.cart = item[s], !.todo = item[s], !.due = {m},
                !.pay = [Nothing EXCEPT ![m] = -Cardinality(item[s])]])
    BY <1>2 DEF RefundCheck
  <2>2. op'[History].step # "row" /\ \A d \in Clerks : d # History => op'[d] = op[d]
    BY <1>0, <2>1 DEF TicketTypes, Set, Idle, Clerks
  <2>3. UNCHANGED <<sale, foreign, misfits>>
    BY <1>2 DEF RefundCheck, tables, ghosts
  <2> QED BY <2>2, <2>3, NumbersStay
<1>3. ASSUME NEW s \in Sales, NEW p \in Products, Arrive(s, p) PROVE Numbers'
  <2> DEFINE row == [reg |-> "there", seq |-> foreign + 1, session |-> None,
                     of |-> None, total |-> 1]
  <2>1. foreign \in Nat
    BY <1>0, NumbersAssumption DEF TicketTypes
  <2>2. row \in SaleRows /\ row.seq # 0 /\ row.reg = "there" /\ row.seq = foreign + 1
    BY <2>1 DEF SaleRows
  <2>3. /\ ~Recorded(s) /\ sale' = [sale EXCEPT ![s] = row] /\ foreign' = foreign + 1
        /\ row.seq \notin NumbersOf("there") /\ UNCHANGED <<op, misfits>>
    BY <1>3 DEF Arrive, IndexAllows, ghosts
  <2> HIDE DEF row
  <2>4. row.reg # "here" /\ row.seq \notin NumbersOf(row.reg) /\ row.seq <= foreign'
    BY <2>1, <2>2, <2>3
  <2>5. foreign' \in Nat /\ foreign' >= foreign
    BY <2>1, <2>3
  <2> QED BY <2>2, <2>3, <2>4, <2>5, RowInserted
<1>4. CASE ArriveMisfit
  <2>1. foreign \in Nat
    BY <1>0, NumbersAssumption DEF TicketTypes
  <2>2. /\ UNCHANGED <<sale, op>> /\ foreign' = foreign + 1
        /\ misfits' = misfits \cup {foreign + 1} /\ foreign + 1 \in NumbersOf("there")
    BY <1>4 DEF ArriveMisfit, IndexAllows, tables
  <2>3. PICK s \in Sales : sale[s].reg = "there" /\ sale[s].seq = foreign + 1
    BY <2>2 DEF NumbersOf
  <2>4. sale[s].of # None
    BY <2>1, <2>3 DEF NumInv, Numbers, Arrived
  <2>5. Misfits'
    BY <2>2, <2>3, <2>4 DEF NumInv, Numbers, Misfits
  <2>6. Arrived'
    <3>1. \A t \in Sales : sale[t].seq \in Nat
      BY <1>0 DEF TicketTypes, SaleRows
    <3> QED BY <2>1, <2>2, <3>1 DEF NumInv, Numbers, Arrived
  <2>7. (Gapless /\ Unique /\ Pending)'
    <3>1. NumbersOf("here")' = NumbersOf("here")
      BY <2>2 DEF NumbersOf, Recorded
    <3> QED BY <2>2, <3>1 DEF NumInv, Numbers, Gapless, Unique, Pending, Recorded
  <2> QED BY <2>5, <2>6, <2>7 DEF Numbers
<1>5. CASE Crash
  <2>1. UNCHANGED <<sale, foreign, misfits>> /\ \A c \in Clerks : op'[c].step # "row"
    BY <1>5 DEF Crash, tables, Idle
  <2> QED BY <2>1, NumbersStay
<1>6. CASE TicketsStay \/ UNCHANGED vars
  BY <1>6, NumbersStay DEF TicketsStay, vars, tables, ghosts
<1> QED BY <1>1, <1>2, <1>3, <1>4, <1>5, <1>6, DrawerLeavesTickets DEF Next

THEOREM NumInvCorrect == Spec => []NumInv
<1> QED BY InitNum, NextNum, PTL DEF Spec

\* Every table of tickets keeps its type, whatever the screens do at once and whatever fails
\* (insertSale, insertItem, insertPayment, writeMovement and the tables of 0001_init.sql).
THEOREM TicketTypesCorrect == Spec => []TicketTypes
<1>1. NumInv => TicketTypes
  BY DEF NumInv, Numbers, TypeInv
<1> QED BY <1>1, NumInvCorrect, PTL

\* A register's tickets bear the numbers 1, 2, 3... without a gap or a double (nextSequence).
THEOREM NumbersGaplessCorrect == Spec => []NumbersGapless
<1>1. NumInv => NumbersGapless
  <2> SUFFICES ASSUME NumInv PROVE NumbersGapless
    OBVIOUS
  <2>1. PICK n \in Nat : NumbersOf("here") = 1..n
    BY DEF NumInv, Numbers, Gapless
  <2>2. Cardinality(1..n) = n
    <3>1. Cardinality(1..n) = IF 1 > n THEN 0 ELSE n - 1 + 1
      BY FS_Interval
    <3> QED BY <3>1
  <2>3. NumbersOf("here") = 1..Cardinality(NumbersOf("here"))
    BY <2>1, <2>2
  <2> QED BY <2>3 DEF NumInv, Numbers, NumbersGapless, Unique, Misfits
<1> QED BY <1>1, NumInvCorrect, PTL

-----------------------------------------------------------------------------
(* Credit.  What a recording still has to write is what it holds, and its  *)
(* ticket is its own: no other screen writes payments or charges for it.   *)

Follows(c) ==
  /\ op[c].step \in {"idle", "number", "row"} => op[c].sale = None
  /\ op[c].step \in {"number", "row"} /\ "credit" \notin op[c].due => op[c].pay["credit"] = 0
  /\ op[c].step \in {"stock", "level", "credit", "charge"} => "credit" \notin op[c].due
  /\ op[c].of = None => op[c].pay["credit"] >= 0
  /\ op[c].sale # None =>
       /\ Recorded(op[c].sale) /\ sale[op[c].sale].of = op[c].of /\ charged[op[c].sale] = 0
       /\ paid[op[c].sale]["credit"] = IF "credit" \in op[c].due THEN 0 ELSE op[c].pay["credit"]

Alone == \A c, d \in Clerks : op[c].sale = op[d].sale /\ c # d => op[c].sale = None

Blank == \A s \in Sales : ~Recorded(s) => charged[s] = 0 /\ paid[s]["credit"] = 0

Accounts == (\A c \in Clerks : Follows(c)) /\ Alone /\ Blank /\ CreditIsOwed

AccountInv == NumInv /\ Accounts

\* A step of one screen's recording, which writes for its own ticket.
LEMMA StepAccounts ==
  ASSUME AccountInv, NEW c \in Clerks, sale' = sale, cut \subseteq cut', refused \subseteq refused',
         \A d \in Clerks : d # c => op'[d] = op[d],
         \A s \in Sales : s # op[c].sale =>
           charged'[s] = charged[s] /\ paid'[s]["credit"] = paid[s]["credit"],
         Follows(c)', op'[c].sale \in {None, op[c].sale},
         op'[c].sale = None /\ op[c].sale # None =>
           \/ charged'[op[c].sale] = paid'[op[c].sale]["credit"]
           \/ /\ charged'[op[c].sale] = 0
              /\ sale[op[c].sale].of # None \/ op[c].sale \in cut' \cup refused'
  PROVE  Accounts'
<1>0. \A d \in Clerks : op[d].sale \in Sales \cup {None}
  BY DEF AccountInv, NumInv, TypeInv, TicketTypes, Recordings
<1>1. \A d \in Clerks : Follows(d)'
  <2> SUFFICES ASSUME NEW d \in Clerks, d # c PROVE Follows(d)'
    OBVIOUS
  <2>1. op'[d] = op[d] /\ Follows(d)
    BY DEF AccountInv, Accounts
  <2>2. op[d].sale # None =>
          charged'[op[d].sale] = charged[op[d].sale]
            /\ paid'[op[d].sale]["credit"] = paid[op[d].sale]["credit"]
    BY <1>0 DEF AccountInv, Accounts, Alone
  <2> QED BY <2>1, <2>2 DEF Follows, Recorded
<1>2. Alone'
  BY DEF AccountInv, Accounts, Alone
<1>3. Blank'
  <2> SUFFICES ASSUME NEW s \in Sales, sale[s].seq = 0
               PROVE  charged'[s] = 0 /\ paid'[s]["credit"] = 0
    BY DEF Blank, Recorded
  <2>1. s # op[c].sale \/ s = None
    BY DEF AccountInv, Accounts, Follows, Recorded
  <2> QED BY <2>1, IdsAssumption DEF AccountInv, Accounts, Blank, Recorded
<1>4. CreditIsOwed'
  <2> SUFFICES ASSUME NEW s \in Sales
               PROVE \/ charged'[s] = 0 /\ (UnderWay(s)' \/ sale[s].of # None \/ s \in cut' \cup refused')
                     \/ charged'[s] = paid'[s]["credit"]
    BY DEF CreditIsOwed
  <2>1. CASE s = op[c].sale
    <3>1. CASE op'[c].sale = None
      BY <2>1, <3>1, IdsAssumption
    <3>2. CASE op'[c].sale # None
      <4>1. UnderWay(s)' /\ charged'[s] = 0
        BY <2>1, <3>2 DEF UnderWay, Follows
      <4> QED BY <4>1
    <3> QED BY <3>1, <3>2
  <2>2. CASE s # op[c].sale
    <3>1. UnderWay(s) => UnderWay(s)'
      BY <2>2 DEF UnderWay
    <3> QED BY <2>2, <3>1 DEF AccountInv, Accounts, CreditIsOwed
  <2> QED BY <2>1, <2>2
<1> QED BY <1>1, <1>2, <1>3, <1>4 DEF Accounts

\* A row with nothing charged and no credit paid, by a recording or by none.
LEMMA RowAccounts ==
  ASSUME AccountInv, NEW s \in Sales, ~Recorded(s), Recorded(s)',
         \A u \in Sales : u # s => sale'[u] = sale[u] /\ paid'[u] = paid[u],
         paid'[s]["credit"] = 0, UNCHANGED <<charged, cut, refused>>,
         \A c \in Clerks : \/ op'[c] = op[c]
                           \/ op[c].sale = None /\ op'[c].sale = s /\ Follows(c)',
         \A c, d \in Clerks : op'[c] # op[c] /\ op'[d] # op[d] => c = d
  PROVE  Accounts'
<1>0. \A d \in Clerks : op[d].sale \in Sales \cup {None}
  BY DEF AccountInv, NumInv, TypeInv, TicketTypes, Recordings
<1>1. \A d \in Clerks : op[d].sale # s
  BY IdsAssumption DEF AccountInv, Accounts, Follows
<1>2. \A d \in Clerks : Follows(d)'
  <2> SUFFICES ASSUME NEW d \in Clerks, op'[d] = op[d] PROVE Follows(d)'
    OBVIOUS
  <2>1. Follows(d)
    BY DEF AccountInv, Accounts
  <2>2. op[d].sale # None => sale'[op[d].sale] = sale[op[d].sale] /\ paid'[op[d].sale] = paid[op[d].sale]
    BY <1>0, <1>1
  <2> QED BY <2>1, <2>2 DEF Follows, Recorded
<1>3. Alone'
  BY <1>1 DEF AccountInv, Accounts, Alone
<1>4. Blank' /\ charged[s] = 0
  BY DEF AccountInv, Accounts, Blank, Recorded
<1>5. CreditIsOwed'
  <2> SUFFICES ASSUME NEW u \in Sales
               PROVE \/ charged[u] = 0 /\ (UnderWay(u)' \/ sale'[u].of # None \/ u \in cut \cup refused)
                     \/ charged[u] = paid'[u]["credit"]
    BY DEF CreditIsOwed
  <2>1. CASE u = s
    BY <1>4, <2>1
  <2>2. CASE u # s
    <3>1. UnderWay(u) => UnderWay(u)'
      BY <2>2, IdsAssumption DEF UnderWay
    <3> QED BY <2>2, <3>1 DEF AccountInv, Accounts, CreditIsOwed
  <2> QED BY <2>1, <2>2
<1> QED BY <1>2, <1>3, <1>4, <1>5 DEF Accounts

LEMMA InitAccounts == Init => AccountInv
<1> SUFFICES ASSUME Init PROVE Accounts
  BY InitNum DEF AccountInv
<1>1. \A s \in Sales : charged[s] = 0 /\ paid[s]["credit"] = 0
  BY MethodsAssumption DEF Init, Nothing
<1>2. \A c \in Clerks : op[c].step = "idle" /\ op[c].sale = None /\ op[c].pay["credit"] = 0
  BY MethodsAssumption DEF Init, Idle, Nothing
<1> QED BY <1>1, <1>2 DEF Accounts, Follows, Alone, Blank, CreditIsOwed

\* What a recording goes on with once it has nothing left to pay, or to move.
Goes(o, q) == q.sale = o.sale /\ q.of = o.of /\ q.pay = o.pay

LEMMA AfterStockAccounts ==
  ASSUME NEW o \in Recordings
  PROVE  \/ AfterStock(o) = Idle /\ (o.of # None \/ ~(o.pay["credit"] > 0))
         \/ Goes(o, AfterStock(o)) /\ AfterStock(o).step = "credit" /\ AfterStock(o).due = o.due
BY DEF AfterStock, Goes, Recordings

LEMMA AfterPaymentsAccounts ==
  ASSUME NEW o \in Recordings
  PROVE  \/ AfterPayments(o) = Idle /\ (o.of # None \/ ~(o.pay["credit"] > 0))
         \/ /\ Goes(o, AfterPayments(o)) /\ AfterPayments(o).step \in {"credit", "stock"}
            /\ AfterPayments(o).due \in {o.due, {}}
<1>1. CASE o.cart \cap Tracked = {}
  BY <1>1, AfterStockAccounts DEF AfterPayments
<1>2. CASE o.cart \cap Tracked # {}
  BY <1>2 DEF AfterPayments, Goes, Recordings
<1> QED BY <1>1, <1>2

LEMMA IdleAccounts == Idle.step = "idle" /\ Idle.sale = None /\ Idle.of = None /\ Idle.pay["credit"] = 0
BY MethodsAssumption DEF Idle, Nothing

\* The steps that write no payment and no charge: what the recording holds must stay as it is.
LEMMA QuietAccounts ==
  ASSUME AccountInv, NEW c \in Clerks, NEW r \in Recordings, Set(c, r),
         UNCHANGED <<sale, paid, charged, refused, cut>>,
         \/ Goes(op[c], r) /\ r.due = op[c].due
         \/ op[c].sale = None /\ r.sale = None /\ (r.of = None => r.pay["credit"] >= 0),
         r.step \in {"idle", "number", "row"} => r.sale = None,
         r.step \in {"number", "row"} /\ "credit" \notin r.due => r.pay["credit"] = 0,
         r.step \in {"stock", "level", "credit", "charge"} => "credit" \notin r.due
  PROVE  Accounts'
<1>1. op'[c] = r /\ \A d \in Clerks : d # c => op'[d] = op[d]
  BY DEF AccountInv, NumInv, TypeInv, TicketTypes, Set
<1>2. Follows(c)
  BY DEF AccountInv, Accounts
<1>3. Follows(c)'
  BY <1>1, <1>2 DEF Follows, Recorded, Goes
<1> QED BY <1>1, <1>3, StepAccounts DEF Goes

\* A recording that ends early leaves its ticket among those cut off or refused.
LEMMA EndAccounts ==
  ASSUME AccountInv, NEW c \in Clerks, Set(c, Idle), UNCHANGED <<sale, paid, charged>>,
         cut \subseteq cut', refused \subseteq refused',
         op[c].sale # None => op[c].sale \in cut' \cup refused'
  PROVE  Accounts'
<1>1. op'[c] = Idle /\ \A d \in Clerks : d # c => op'[d] = op[d]
  BY DEF AccountInv, NumInv, TypeInv, TicketTypes, Set
<1>2. Follows(c)'
  BY <1>1, IdleAccounts DEF Follows
<1>3. op[c].sale # None => charged[op[c].sale] = 0
  BY DEF AccountInv, Accounts, Follows
<1> QED BY <1>1, <1>2, <1>3, IdleAccounts, StepAccounts

LEMMA RecordingAccounts ==
  ASSUME AccountInv, NEW c \in Clerks, Recording(c)
  PROVE  Accounts'
<1>0. op \in [Clerks -> Recordings] /\ op[c] \in Recordings /\ Busy(op[c]) /\ Follows(c) /\ NumInv
        /\ TicketTypes
  BY DEF AccountInv, Accounts, NumInv, TypeInv, TicketTypes
<1>1. ASSUME ReadSequence(c) PROVE Accounts'
  <2> DEFINE r == [op[c] EXCEPT !.step = "row", !.seq = NextSequence,
               !.session = IF op[c].of = None THEN OpenSessionId ELSE op[c].session]
  <2>1. r \in Recordings
    <3>1. NextSequence \in Nat
      BY <1>0, NextSequenceType DEF NumInv, Numbers, Gapless
    <3> QED BY <1>0, <3>1, OpenSessionType DEF Recordings, Steps
  <2>2. Goes(op[c], r) /\ r.due = op[c].due /\ r.step = "row"
    BY <1>0 DEF Recordings, Goes
  <2>3. Set(c, r) /\ UNCHANGED <<sale, paid, charged, refused, cut>> /\ op[c].step = "number"
    BY <1>1 DEF ReadSequence, tables, ghosts
  <2>4. r.sale = None /\ ("credit" \notin r.due => r.pay["credit"] = 0)
    BY <1>0, <2>2, <2>3 DEF Goes, Follows
  <2> HIDE DEF r
  <2> QED BY <2>1, <2>2, <2>3, <2>4, QuietAccounts
<1>2. ASSUME NEW s \in Sales, InsertSale(c, s) PROVE Accounts'
  <2> DEFINE r == [op[c] EXCEPT !.step = "items", !.sale = s]
  <2>1. r.step = "items" /\ r.sale = s /\ r.of = op[c].of /\ r.pay = op[c].pay /\ r.due = op[c].due
    BY <1>0 DEF Recordings
  <2>2. op'[c] = r /\ \A d \in Clerks : d # c => op'[d] = op[d]
    BY <1>0, <1>2 DEF InsertSale, Set
  <2>3. /\ \A u \in Sales : u # s => sale'[u] = sale[u]
        /\ sale'[s].of = op[c].of /\ sale'[s].seq = op[c].seq
        /\ UNCHANGED <<paid, charged, cut, refused>>
    BY <1>0, <1>2 DEF InsertSale, TicketTypes, ghosts
  <2>4. op[c].step = "row" /\ ~Recorded(s) /\ op[c].seq # 0
    BY <1>0, <1>2 DEF InsertSale, NumInv, Numbers, Pending
  <2>5. charged[s] = 0 /\ paid[s]["credit"] = 0
    BY <2>4 DEF AccountInv, Accounts, Blank
  <2> HIDE DEF r
  <2>6. Recorded(s)'
    BY <2>3, <2>4 DEF Recorded
  <2>7. Follows(c)' /\ op[c].sale = None
    BY <1>0, <2>1, <2>2, <2>3, <2>4, <2>5, <2>6 DEF Follows
  <2> QED BY <2>1, <2>2, <2>3, <2>4, <2>5, <2>6, <2>7, RowAccounts
<1>3. ASSUME InsertRefused(c) \/ CreditRefused(c) \/ StatementFails(c) PROVE Accounts'
  <2>1. /\ Set(c, Idle) /\ UNCHANGED <<sale, paid, charged>>
        /\ cut \subseteq cut' /\ refused \subseteq refused'
    BY <1>3 DEF InsertRefused, CreditRefused, StatementFails, tables, ghosts
  <2>2. op[c].sale # None => op[c].sale \in cut' \cup refused'
    BY <1>0, <1>3 DEF InsertRefused, CreditRefused, StatementFails, Follows
  <2> QED BY <2>1, <2>2, EndAccounts
<1>4. ASSUME MoveLevel(c) PROVE Accounts'
  <2> DEFINE left == [op[c] EXCEPT !.todo = @ \ {op[c].item}, !.step = "stock", !.item = None]
  <2> DEFINE r == IF op[c].todo = {op[c].item} THEN AfterStock(left) ELSE left
  <2>1. left \in Recordings /\ Goes(op[c], left) /\ left.due = op[c].due /\ left.step = "stock"
    BY <1>0 DEF Recordings, Steps, Goes
  <2>2. /\ Set(c, r) /\ UNCHANGED <<sale, paid, charged, cut, refused>>
        /\ op[c].step = "level" /\ op[c].sale # None
    BY <1>0, <1>4 DEF MoveLevel, ghosts, Busy
  <2> HIDE DEF left
  <2>3. \/ r = Idle /\ (op[c].of # None \/ ~(op[c].pay["credit"] > 0))
        \/ Goes(op[c], r) /\ r.due = op[c].due /\ r.step \in {"stock", "credit"}
    BY <2>1, AfterStockAccounts DEF Goes
  <2>4. op'[c] = r /\ \A d \in Clerks : d # c => op'[d] = op[d]
    BY <1>0, <2>2 DEF Set
  <2> HIDE DEF r
  <2>5. op[c].pay["credit"] \in Int
    BY <1>0, MethodsAssumption DEF Recordings, Owed
  <2>6. Follows(c)' /\ op'[c].sale \in {None, op[c].sale}
    BY <1>0, <2>2, <2>3, <2>4, IdleAccounts DEF Follows, Recorded, Goes
  <2>7. op'[c].sale = None =>
          \/ charged[op[c].sale] = paid[op[c].sale]["credit"]
          \/ charged[op[c].sale] = 0 /\ sale[op[c].sale].of # None
    BY <1>0, <2>2, <2>3, <2>4, <2>5 DEF Follows, Goes
  <2> QED BY <2>2, <2>4, <2>6, <2>7, StepAccounts
<1>5. ASSUME ReadBalance(c) PROVE Accounts'
  <2> DEFINE r == [op[c] EXCEPT !.step = "charge"]
  <2>1. /\ Set(c, r) /\ UNCHANGED <<sale, paid, charged, cut, refused>> /\ op[c].step = "credit"
    BY <1>5 DEF ReadBalance, tables, ghosts
  <2>2. r \in Recordings /\ Goes(op[c], r) /\ r.due = op[c].due /\ r.step = "charge"
    BY <1>0 DEF Recordings, Steps, Goes
  <2> HIDE DEF r
  <2> QED BY <1>0, <2>1, <2>2, QuietAccounts DEF Follows
<1>6. ASSUME ChargeSale(c) PROVE Accounts'
  <2>1. /\ Set(c, Idle) /\ UNCHANGED <<sale, paid, cut, refused>> /\ op[c].step = "charge"
        /\ charged' = [charged EXCEPT ![op[c].sale] = @ + op[c].pay["credit"]]
    BY <1>6 DEF ChargeSale, ghosts
  <2>2. op[c].sale \in Sales /\ "credit" \notin op[c].due /\ charged[op[c].sale] = 0
          /\ paid[op[c].sale]["credit"] = op[c].pay["credit"] /\ op[c].pay["credit"] \in Int
    BY <1>0, <2>1, MethodsAssumption DEF Busy, Recordings, Follows, Owed
  <2>3. charged'[op[c].sale] = op[c].pay["credit"]
          /\ \A s \in Sales : s # op[c].sale => charged'[s] = charged[s]
    BY <1>0, <2>1, <2>2 DEF TicketTypes
  <2>4. op'[c] = Idle /\ \A d \in Clerks : d # c => op'[d] = op[d]
    BY <1>0, <2>1 DEF Set
  <2>5. Follows(c)'
    BY <2>4, IdleAccounts DEF Follows
  <2> QED BY <2>1, <2>2, <2>3, <2>4, <2>5, IdleAccounts, StepAccounts
<1>7. ASSUME InsertItem(c) PROVE Accounts'
  <2> DEFINE p == First(op[c].todo)
  <2> DEFINE r == [op[c] EXCEPT !.todo = @ \ {p},
                     !.step = IF op[c].todo = {p} THEN "payments" ELSE "items"]
  <2>1. Set(c, r) /\ UNCHANGED <<sale, paid, charged, refused, cut>>
    BY <1>7 DEF InsertItem, ghosts
  <2>2. r \in Recordings /\ Goes(op[c], r) /\ r.due = op[c].due /\ r.step \in {"payments", "items"}
    <3> HIDE DEF p
    <3> QED BY <1>0 DEF Recordings, Steps, Goes
  <2> HIDE DEF r
  <2> QED BY <2>1, <2>2, QuietAccounts
<1>8. ASSUME InsertPayment(c) PROVE Accounts'
  <2> DEFINE m == First(op[c].due)
  <2> DEFINE left == [op[c] EXCEPT !.due = @ \ {m}]
  <2> DEFINE r == IF op[c].due = {m} THEN AfterPayments(left) ELSE left
  <2>1. left \in Recordings /\ Goes(op[c], left) /\ left.due = op[c].due \ {m} /\ left.step = "payments"
    BY <1>0, <1>8 DEF InsertPayment, Recordings, Goes
  <2>2. /\ Set(c, r) /\ UNCHANGED <<sale, charged, cut, refused>>
        /\ op[c].step = "payments" /\ op[c].sale # None
        /\ paid' = [paid EXCEPT ![op[c].sale] = [@ EXCEPT ![m] = op[c].pay[m]]]
    BY <1>0, <1>8 DEF InsertPayment, CashMoves, Busy
  <2> HIDE DEF left, m
  <2>3. \/ r = Idle /\ (op[c].of # None \/ ~(op[c].pay["credit"] > 0)) /\ "credit" \notin op[c].due \ {m}
        \/ /\ Goes(op[c], r) /\ r.step \in {"credit", "stock"}
           /\ "credit" \notin r.due /\ "credit" \notin op[c].due \ {m}
        \/ Goes(op[c], r) /\ r.due = op[c].due \ {m} /\ r.step = "payments"
    <3>1. CASE op[c].due = {m}
      BY <2>1, <3>1, AfterPaymentsAccounts DEF Goes
    <3>2. CASE op[c].due # {m}
      BY <2>1, <3>2
    <3> QED BY <3>1, <3>2
  <2>4. op'[c] = r /\ \A d \in Clerks : d # c => op'[d] = op[d]
    BY <1>0, <2>2 DEF Set
  <2> HIDE DEF r
  <2>5. op[c].pay["credit"] \in Int /\ op[c].sale \in Sales
    BY <1>0, <2>2, MethodsAssumption DEF Recordings, Owed
  <2>6. /\ paid'[op[c].sale]["credit"] = IF "credit" \in op[c].due \ {m} THEN 0 ELSE op[c].pay["credit"]
        /\ \A s \in Sales : s # op[c].sale => paid'[s] = paid[s]
    <3>1. paid[op[c].sale] \in Owed /\ paid[op[c].sale]["credit"] =
            IF "credit" \in op[c].due THEN 0 ELSE op[c].pay["credit"]
      BY <1>0, <2>2, <2>5 DEF Follows, TicketTypes
    <3>2. paid'[op[c].sale] = [paid[op[c].sale] EXCEPT ![m] = op[c].pay[m]]
            /\ \A s \in Sales : s # op[c].sale => paid'[s] = paid[s]
      BY <1>0, <2>2, <2>5 DEF TicketTypes
    <3>3. paid'[op[c].sale]["credit"] = IF m = "credit" THEN op[c].pay["credit"] ELSE paid[op[c].sale]["credit"]
      BY <3>1, <3>2, MethodsAssumption DEF Owed
    <3> QED BY <3>1, <3>2, <3>3
  <2>7. Follows(c)' /\ op'[c].sale \in {None, op[c].sale}
    BY <1>0, <2>2, <2>3, <2>4, <2>6, IdleAccounts DEF Follows, Recorded, Goes
  <2>8. op'[c].sale = None =>
          \/ charged'[op[c].sale] = paid'[op[c].sale]["credit"]
          \/ charged'[op[c].sale] = 0 /\ sale[op[c].sale].of # None
    BY <1>0, <2>2, <2>3, <2>4, <2>5, <2>6 DEF Follows, Goes
  <2> QED BY <2>2, <2>4, <2>6, <2>7, <2>8, StepAccounts
<1>9. ASSUME InsertMovement(c) PROVE Accounts'
  <2> DEFINE p == First(op[c].todo)
  <2> DEFINE r == [op[c] EXCEPT !.step = "level", !.item = p]
  <2>1. Set(c, r) /\ UNCHANGED <<sale, paid, charged, refused, cut>> /\ op[c].step = "stock"
    BY <1>9 DEF InsertMovement, ghosts
  <2>2. r \in Recordings
    <3>1. p \in Products
      BY <1>0, <2>1, FirstIn DEF Busy, Recordings
    <3> HIDE DEF p
    <3> QED BY <1>0, <3>1 DEF Recordings, Steps
  <2>3. Goes(op[c], r) /\ r.due = op[c].due /\ r.step = "level"
    <3> HIDE DEF p
    <3> QED BY <1>0 DEF Recordings, Goes
  <2> HIDE DEF r
  <2> QED BY <1>0, <2>1, <2>2, <2>3, QuietAccounts DEF Follows
<1>10. ASSUME NEW cart \in Carts, NEW pay \in Splits(cart), RecordCheck(c, cart, pay)
       PROVE  Accounts'
  <2> DEFINE r == [Idle EXCEPT !.step = "number", !.cart = cart, !.todo = cart, !.pay = pay,
                               !.due = {m \in Methods : pay[m] # 0}]
  <2>1. Set(c, r) /\ UNCHANGED <<sale, paid, charged, refused, cut>> /\ op[c] = Idle
    BY <1>10 DEF RecordCheck, tables, ghosts
  <2>2. cart \in SUBSET Products
    BY SetsAssumption
  <2>3. pay \in Owed /\ pay["credit"] >= 0
    BY <2>2, CartCount, MethodsAssumption DEF Splits, Owed
  <2>4. r \in Recordings
    BY <2>2, <2>3, IdleType DEF Recordings, Steps, Idle
  <2>5. r.step = "number" /\ r.sale = None /\ r.of = None /\ r.pay = pay
          /\ r.due = {m \in Methods : pay[m] # 0}
    BY DEF Idle
  <2> HIDE DEF r
  <2> QED BY <2>1, <2>3, <2>4, <2>5, IdleAccounts, MethodsAssumption, QuietAccounts
<1> QED BY <1>1, <1>2, <1>3, <1>4, <1>5, <1>6, <1>7, <1>8, <1>9, <1>10 DEF Recording

LEMMA NextAccounts == AccountInv /\ [Next]_vars => AccountInv'
<1> SUFFICES ASSUME AccountInv, [Next]_vars PROVE Accounts'
  BY NextNum DEF AccountInv
<1>0. TicketTypes /\ NumInv /\ op \in [Clerks -> Recordings] /\ \A c \in Clerks : Follows(c)
  BY DEF AccountInv, Accounts, NumInv, TypeInv, TicketTypes
<1>1. ASSUME NEW c \in Clerks, Recording(c) PROVE Accounts'
  BY <1>1, RecordingAccounts
<1>2. ASSUME NEW s \in Sales, RefundCheck(s) PROVE Accounts'
  <2> PICK m \in Methods :
        Set(History, [Idle EXCEPT !.step = "number", !.of = s, !.session = sale[s].session,
                !.cart = item[s], !.todo = item[s], !.due = {m},
                !.pay = [Nothing EXCEPT ![m] = -Cardinality(item[s])]])
    BY <1>2 DEF RefundCheck
  <2> DEFINE p == [Nothing EXCEPT ![m] = -Cardinality(item[s])]
  <2> DEFINE r == [Idle EXCEPT !.step = "number", !.of = s, !.session = sale[s].session,
                !.cart = item[s], !.todo = item[s], !.due = {m}, !.pay = p]
  <2>1. item[s] \in SUBSET Products /\ sale[s].session \in Sessions \cup {None} /\ s # None
    BY <1>0, IdsAssumption DEF TicketTypes, SaleRows
  <2>2. p \in Owed /\ (m # "credit" => p["credit"] = 0)
    BY <2>1, CartCount, NothingType, MethodsAssumption DEF Owed, Nothing
  <2>3. Set(History, r) /\ UNCHANGED <<sale, paid, charged, refused, cut>> /\ op[History] = Idle
          /\ History \in Clerks
    BY <1>2 DEF RefundCheck, tables, ghosts, Clerks
  <2> HIDE DEF p
  <2>4. r \in Recordings
    BY <2>1, <2>2, IdleType DEF Recordings, Steps, Idle
  <2>5. r.step = "number" /\ r.sale = None /\ r.of = s /\ r.pay = p /\ r.due = {m}
    BY DEF Idle
  <2> HIDE DEF r
  <2> QED BY <2>1, <2>2, <2>3, <2>4, <2>5, IdleAccounts, QuietAccounts
<1>3. ASSUME NEW s \in Sales, NEW p \in Products, Arrive(s, p) PROVE Accounts'
  <2>1. /\ ~Recorded(s) /\ sale'[s].seq = foreign + 1 /\ paid'[s] = [Nothing EXCEPT !["cash"] = 1]
        /\ \A u \in Sales : u # s => sale'[u] = sale[u] /\ paid'[u] = paid[u]
        /\ UNCHANGED <<charged, cut, refused, op>>
    BY <1>0, <1>3 DEF Arrive, TicketTypes, ghosts
  <2>2. Recorded(s)'
    BY <1>0, <2>1, NumbersAssumption DEF TicketTypes, Recorded
  <2>3. paid'[s]["credit"] = 0
    BY <2>1, MethodsAssumption DEF Nothing
  <2> QED BY <2>1, <2>2, <2>3, RowAccounts
<1>4. CASE Crash
  <2>1. /\ UNCHANGED <<sale, paid, charged, refused>> /\ \A c \in Clerks : op'[c] = Idle
        /\ cut' = cut \cup ({op[c].sale : c \in Clerks} \ {None})
    BY <1>4 DEF Crash, tables
  <2>2. (\A c \in Clerks : Follows(c)')
    BY <2>1, IdleAccounts DEF Follows
  <2>3. Alone' /\ Blank'
    BY <2>1, IdleAccounts DEF AccountInv, Accounts, Alone, Blank, Recorded
  <2>4. CreditIsOwed'
    <3> SUFFICES ASSUME NEW s \in Sales
                 PROVE \/ charged[s] = 0 /\ (UnderWay(s)' \/ sale[s].of # None \/ s \in cut' \cup refused)
                       \/ charged[s] = paid[s]["credit"]
      BY <2>1 DEF CreditIsOwed
    <3>1. UnderWay(s) => s \in cut'
      BY <2>1, IdsAssumption DEF UnderWay
    <3> QED BY <2>1, <3>1 DEF AccountInv, Accounts, CreditIsOwed
  <2> QED BY <2>2, <2>3, <2>4 DEF Accounts
<1>5. CASE UNCHANGED <<sale, paid, charged, op, cut, refused>>
  BY <1>5 DEF AccountInv, Accounts, Follows, Alone, Blank, CreditIsOwed, UnderWay, Recorded
<1>6. CASE ArriveMisfit \/ TicketsStay \/ UNCHANGED vars
  BY <1>5, <1>6 DEF ArriveMisfit, TicketsStay, vars, tables, ghosts
<1> QED BY <1>1, <1>2, <1>3, <1>4, <1>6, DrawerLeavesTickets DEF Next

\* A sale recorded to its end is owed for what was paid on credit, never for more, whatever other
\* screens write in between and whatever fails (chargeSale, the last of record's writes).
THEOREM CreditIsOwedCorrect == Spec => []CreditIsOwed
<1>1. AccountInv => CreditIsOwed
  BY DEF AccountInv, Accounts
<1> QED BY <1>1, InitAccounts, NextAccounts, PTL DEF Spec

-----------------------------------------------------------------------------
(* Tickets.  At each of its steps a recording has written of its ticket    *)
(* what its step says, and holds the rest: a ticket is whole, or shows     *)
(* that it is not, wherever its recording stops.                           *)

Owing(pay) == {m \in Methods : pay[m] # 0}

\* What a recording is about to write: a sale paid to the unit, or the refund of a
\* ticket that has none.
Plan(c) ==
  op[c].step # "idle" =>
    /\ op[c].cart # {}
    /\ op[c].of = None =>
         (\A m \in Methods : op[c].pay[m] >= 0) /\ SumFunction(op[c].pay) = Cardinality(op[c].cart)
    /\ op[c].of # None =>
         /\ c = History /\ Recorded(op[c].of)
         /\ op[c].of \in cut \/ Cardinality(op[c].cart) = sale[op[c].of].total
    /\ op[c].step \in {"number", "row"} =>
         /\ op[c].todo = op[c].cart /\ op[c].due = Owing(op[c].pay) /\ op[c].due # {}
         /\ op[c].of # None => op[c].of \in cut \/ RefundsOf(op[c].of) = {}

\* What it has written.
Done(c) ==
  op[c].sale # None =>
    /\ sale[op[c].sale].session = op[c].session
    /\ sale[op[c].sale].total =
         IF op[c].of = None THEN Cardinality(op[c].cart) ELSE -Cardinality(op[c].cart)
    /\ op[c].step = "items" =>
         /\ op[c].todo \subseteq op[c].cart /\ item[op[c].sale] = op[c].cart \ op[c].todo
         /\ op[c].due = Owing(op[c].pay) /\ paid[op[c].sale] = Nothing
    /\ op[c].step # "items" => item[op[c].sale] = op[c].cart
    /\ op[c].step \in {"items", "payments"} => op[c].due # {} /\ moved[op[c].sale] = {}
    /\ op[c].step = "payments" =>
         /\ op[c].due \subseteq Owing(op[c].pay)
         /\ paid[op[c].sale] = [m \in Methods |-> IF m \in op[c].due THEN 0 ELSE op[c].pay[m]]
    /\ op[c].step \notin {"items", "payments"} => paid[op[c].sale] = op[c].pay
    /\ op[c].step = "stock" => moved[op[c].sale] \cap op[c].todo = {}
    /\ op[c].step = "level" => moved[op[c].sale] \cap op[c].todo = {op[c].item}

Unwritten == \A s \in Sales : ~Recorded(s) => item[s] = {} /\ paid[s] = Nothing /\ moved[s] = {}

\* A refund gives back the whole ticket.
GivenBack ==
  \A s \in Sales : s \notin cut =>
    \A t \in RefundsOf(s) : Recorded(s) /\ sale[t].total = -sale[s].total

Tickets == Unwritten /\ GivenBack /\ RefundedOnce /\ IntegrityReports

Ledger == (\A c \in Clerks : Plan(c) /\ Done(c)) /\ Tickets

LedgerInv == AccountInv /\ Ledger

\* A ticket with all its lines and payments.
Whole(s) ==
  item[s] # {} /\ Cardinality(item[s]) = sale[s].total /\ PaidAmount(s) = sale[s].total

LEMMA ClerkFacts ==
  ASSUME LedgerInv, NEW c \in Clerks
  PROVE  /\ TicketTypes /\ op[c] \in Recordings /\ Busy(op[c]) /\ Follows(c) /\ Plan(c) /\ Done(c)
         /\ NumInv /\ Alone /\ Tickets /\ op \in [Clerks -> Recordings]
BY DEF LedgerInv, Ledger, AccountInv, Accounts, NumInv, TypeInv, TicketTypes

\* The sum of a ticket's payments.
LEMMA OwedSum ==
  ASSUME NEW f \in Owed
  PROVE  SumFunction(f) = SumFunctionOnSet(f, Methods) /\ SumFunction(f) \in Int
<1>1. DOMAIN f = Methods /\ \A m \in Methods : f[m] \in Int
  BY DEF Owed
<1>2. SumFunction(f) = SumFunctionOnSet(f, Methods)
  BY <1>1 DEF SumFunction
<1> QED BY <1>1, <1>2, MethodsAssumption, SumType

\* While it is recorded a sale shows what it lacks (checkIntegrity).
LEMMA CutOff ==
  ASSUME LedgerInv, NEW c \in Clerks, op[c].sale # None, op[c].of = None
  PROVE  Reported(op[c].sale) \/ Whole(op[c].sale)
<1> DEFINE s == op[c].sale
           o == op[c]
<1>0. /\ o \in Recordings /\ s \in Sales /\ Recorded(s) /\ sale[s].total = Cardinality(o.cart)
      /\ o.step \notin {"idle", "number", "row"} /\ o.cart # {} /\ IsFiniteSet(o.cart)
      /\ (\A m \in Methods : o.pay[m] >= 0) /\ SumFunction(o.pay) = Cardinality(o.cart)
      /\ o.pay \in Owed /\ Done(c)
  <2>1. TicketTypes /\ o \in Recordings /\ Follows(c) /\ Plan(c) /\ Done(c)
    BY ClerkFacts
  <2> QED BY <2>1, SetsAssumption, FS_Subset DEF Follows, Plan, Done, Recordings
<1>1. Cardinality(o.cart) \in Nat /\ Cardinality(o.cart) # 0
  BY <1>0, FS_CardinalityType, FS_EmptySet
<1>2. SumFunctionOnSet(o.pay, Methods) = Cardinality(o.cart)
  BY <1>0, OwedSum
<1> HIDE DEF s, o
<1>3. CASE o.step = "items"
  <2>1. paid[s] = Nothing
    BY <1>0, <1>3 DEF Done, o, s
  <2>2. Nothing \in Owed /\ \A m \in Methods : Nothing[m] = 0
    BY DEF Nothing, Owed
  <2>3. PaidAmount(s) = 0
    BY <2>1, <2>2, OwedSum, SumZeros, MethodsAssumption DEF PaidAmount
  <2> QED BY <1>0, <1>1, <2>3 DEF Reported, s
<1>4. CASE o.step = "payments"
  <2> DEFINE f == [m \in Methods |-> IF m \in o.due THEN 0 ELSE o.pay[m]]
  <2>1. paid[s] = f /\ o.due # {} /\ o.due \subseteq Owing(o.pay)
    BY <1>0, <1>4 DEF Done, o, s
  <2>2. PICK m \in o.due : m \in Methods /\ o.pay[m] # 0
    BY <2>1 DEF Owing
  <2>3. f \in Owed /\ f[m] = 0 /\ \A n \in Methods : o.pay[n] \in Int /\ f[n] \in Int /\ f[n] <= o.pay[n]
    BY <1>0, <2>2 DEF Owed
  <2>4. f[m] < o.pay[m]
    BY <1>0, <2>2, <2>3
  <2> HIDE DEF f
  <2>5. SumFunctionOnSet(f, Methods) < SumFunctionOnSet(o.pay, Methods)
    BY <2>2, <2>3, <2>4, SumBelow, MethodsAssumption
  <2>6. PaidAmount(s) < sale[s].total
    BY <1>0, <1>2, <2>1, <2>3, <2>5, OwedSum DEF PaidAmount
  <2> QED BY <1>0, <2>6 DEF Reported, s
<1>5. CASE o.step \notin {"items", "payments"}
  <2>1. paid[s] = o.pay /\ item[s] = o.cart
    BY <1>0, <1>5 DEF Done, o, s
  <2> QED BY <1>0, <2>1 DEF Whole, PaidAmount, s
<1> QED BY <1>3, <1>4, <1>5

\* What a screen holds is not disturbed by the others.
LEMMA ClerkStays ==
  ASSUME LedgerInv, NEW d \in Clerks, op'[d] = op[d], cut \subseteq cut',
         \A s \in Sales : Recorded(s) => sale'[s] = sale[s],
         op[d].sale # None =>
           /\ item'[op[d].sale] = item[op[d].sale] /\ paid'[op[d].sale] = paid[op[d].sale]
           /\ moved'[op[d].sale] = moved[op[d].sale],
         op[d].step \in {"number", "row"} /\ op[d].of # None =>
           RefundsOf(op[d].of)' \subseteq RefundsOf(op[d].of)
  PROVE  Plan(d)' /\ Done(d)'
<1>0. Follows(d) /\ Plan(d) /\ Done(d) /\ op[d] \in Recordings
  BY ClerkFacts
<1>1. op[d].sale \in Sales \cup {None} /\ op[d].of \in Sales \cup {None}
  BY <1>0 DEF Recordings
<1>2. op[d].sale # None => sale'[op[d].sale] = sale[op[d].sale]
  BY <1>0, <1>1 DEF Follows
<1>3. Done(d)'
  BY <1>0, <1>2 DEF Done
<1>4. op[d].step # "idle" /\ op[d].of # None =>
        /\ sale'[op[d].of] = sale[op[d].of] /\ Recorded(op[d].of)
  BY <1>0, <1>1 DEF Plan
<1>5. Plan(d)'
  BY <1>0, <1>4 DEF Plan, Recorded
<1> QED BY <1>3, <1>5

\* A step of one screen's recording, which writes for its own ticket.
LEMMA StepLedger ==
  ASSUME LedgerInv, NEW c \in Clerks, sale' = sale, cut \subseteq cut',
         \A d \in Clerks : d # c => op'[d] = op[d],
         \A s \in Sales : s # op[c].sale =>
           item'[s] = item[s] /\ paid'[s] = paid[s] /\ moved'[s] = moved[s],
         Plan(c)', Done(c)', op'[c].sale \in {None, op[c].sale},
         \A s \in Sales :
           op'[c].sale = None /\ op[c].sale = s /\ op[c].of = None =>
             (Reported(s)' /\ s \in cut') \/ Whole(s)'
  PROVE  Ledger'
<1>0. \A d \in Clerks : op[d].sale \in Sales \cup {None} /\ Follows(d)
  BY DEF LedgerInv, AccountInv, Accounts, NumInv, TypeInv, TicketTypes, Recordings
<1>1. \A s : RefundsOf(s)' = RefundsOf(s) /\ (Recorded(s)' <=> Recorded(s))
  BY DEF RefundsOf, Recorded
<1>2. ASSUME NEW d \in Clerks, d # c PROVE Plan(d)' /\ Done(d)'
  <2>1. op[d].sale # None => op[d].sale # op[c].sale
    BY <1>2 DEF LedgerInv, AccountInv, Accounts, Alone
  <2> QED BY <1>0, <1>1, <1>2, <2>1, ClerkStays
<1>3. Unwritten'
  <2> SUFFICES ASSUME NEW s \in Sales, ~Recorded(s)
               PROVE  item'[s] = {} /\ paid'[s] = Nothing /\ moved'[s] = {}
    BY <1>1 DEF Unwritten
  <2>1. s # op[c].sale
    BY <1>0, IdsAssumption DEF Follows
  <2> QED BY <2>1 DEF LedgerInv, Ledger, Tickets, Unwritten
<1>4. GivenBack' /\ RefundedOnce'
  BY <1>1 DEF LedgerInv, Ledger, Tickets, GivenBack, RefundedOnce
<1>5. IntegrityReports'
  <2> SUFFICES ASSUME NEW s \in Sales, Recorded(s), sale[s].of = None, ~UnderWay(s)'
               PROVE  /\ ~Reported(s)' => Cardinality(item'[s]) = sale[s].total /\ PaidAmount(s)' = sale[s].total
                      /\ s \notin cut' => ~Reported(s)'
    BY <1>1 DEF IntegrityReports
  <2>0. sale[s].total \in Int
    BY DEF LedgerInv, AccountInv, NumInv, TypeInv, TicketTypes, SaleRows
  <2>1. CASE s = op[c].sale
    <3>1. op'[c].sale = None /\ op[c].sale # None /\ op[c].of = None
      BY <1>0, <2>1, IdsAssumption DEF UnderWay, Follows
    <3>2. (Reported(s)' /\ s \in cut') \/ Whole(s)'
      BY <2>1, <3>1
    <3>3. Whole(s)' => item'[s] # {} /\ Cardinality(item'[s]) = sale[s].total /\ PaidAmount(s)' = sale[s].total
      BY DEF Whole
    <3>4. Reported(s)' <=> Recorded(s)' /\ (item'[s] = {} \/ PaidAmount(s)' < sale[s].total)
      BY DEF Reported
    <3> QED BY <2>0, <3>2, <3>3, <3>4
  <2>2. CASE s # op[c].sale
    <3>1. ~UnderWay(s)
      BY <2>2 DEF UnderWay
    <3>2. item'[s] = item[s] /\ PaidAmount(s)' = PaidAmount(s) /\ (Reported(s)' <=> Reported(s))
      BY <1>1, <2>2 DEF PaidAmount, Reported
    <3> QED BY <3>1, <3>2 DEF LedgerInv, Ledger, Tickets, IntegrityReports
  <2> QED BY <2>1, <2>2
<1> QED BY <1>2, <1>3, <1>4, <1>5 DEF Ledger, Tickets

\* A ticket inserted where there was none: the refund of one that had none, or a sale.
LEMMA RowLedger ==
  ASSUME LedgerInv, NEW s \in Sales, ~Recorded(s), Recorded(s)',
         \A u \in Sales : u # s =>
           sale'[u] = sale[u] /\ item'[u] = item[u] /\ paid'[u] = paid[u] /\ moved' = moved,
         cut' = cut,
         \A c \in Clerks : op'[c] = op[c] \/ (op[c].sale = None /\ Plan(c)' /\ Done(c)'),
         UnderWay(s)' \/ (sale'[s].of = None /\ Whole(s)'),
         sale'[s].total \in Int,
         sale'[s].of # None =>
           /\ Recorded(sale'[s].of) /\ sale'[s].of \in Sales
           /\ op'[History] # op[History]
           /\ sale'[s].of \notin cut =>
                RefundsOf(sale'[s].of) = {} /\ sale'[s].total = -sale[sale'[s].of].total
  PROVE  Ledger'
<1>0. \A d \in Clerks : op[d].sale \in Sales \cup {None} /\ Follows(d) /\ Plan(d)
  BY DEF LedgerInv, Ledger, AccountInv, Accounts, NumInv, TypeInv, TicketTypes, Recordings
<1>1. \A u \in Sales : u # s => (Recorded(u)' <=> Recorded(u))
  BY DEF Recorded
<1>2. \A u \in Sales : RefundsOf(u)' = IF sale'[s].of = u THEN RefundsOf(u) \cup {s} ELSE RefundsOf(u)
  <2> SUFFICES ASSUME NEW u \in Sales, NEW t \in Sales
               PROVE  t \in RefundsOf(u)' <=> t \in RefundsOf(u) \/ (t = s /\ sale'[s].of = u)
    BY DEF RefundsOf
  <2> QED BY <1>1 DEF RefundsOf
<1>3. \A d \in Clerks : op[d].sale # s
  BY <1>0, IdsAssumption DEF Follows
<1>4. ASSUME NEW d \in Clerks, op'[d] = op[d] PROVE Plan(d)' /\ Done(d)'
  <2>1. \A u \in Sales : Recorded(u) => sale'[u] = sale[u]
    OBVIOUS
  <2>2. op[d].step \in {"number", "row"} /\ op[d].of # None =>
          RefundsOf(op[d].of)' \subseteq RefundsOf(op[d].of)
    <3> SUFFICES ASSUME op[d].step \in {"number", "row"}, op[d].of # None
                 PROVE  RefundsOf(op[d].of)' \subseteq RefundsOf(op[d].of)
      OBVIOUS
    <3>1. d = History /\ op[d].of \in Sales
      BY <1>0, ClerkFacts DEF Plan, Recordings
    <3>2. sale'[s].of = None
      BY <1>4, <3>1
    <3> QED BY <1>2, <1>4, <3>1, <3>2, IdsAssumption
  <2>3. op[d].sale # None =>
          /\ item'[op[d].sale] = item[op[d].sale] /\ paid'[op[d].sale] = paid[op[d].sale]
          /\ moved'[op[d].sale] = moved[op[d].sale]
    BY <1>0, <1>3
  <2> QED BY <1>4, <2>1, <2>2, <2>3, ClerkStays
<1>5. Unwritten'
  BY <1>1 DEF LedgerInv, Ledger, Tickets, Unwritten
<1>6. GivenBack' /\ RefundedOnce'
  <2> SUFFICES ASSUME NEW u \in Sales, u \notin cut
               PROVE  /\ \A t \in RefundsOf(u)' : Recorded(u)' /\ sale'[t].total = -sale'[u].total
                      /\ Cardinality(RefundsOf(u)') <= 1
    BY DEF GivenBack, RefundedOnce
  <2>1. /\ \A t \in RefundsOf(u) : Recorded(u) /\ sale[t].total = -sale[u].total /\ t # s /\ t \in Sales
        /\ Cardinality(RefundsOf(u)) <= 1
    BY DEF LedgerInv, Ledger, Tickets, GivenBack, RefundedOnce, RefundsOf
  <2>2. CASE sale'[s].of = u
    <3>1. RefundsOf(u)' = {s} /\ Recorded(u) /\ sale'[s].total = -sale[u].total /\ u # s
      BY <1>2, <2>2, IdsAssumption
    <3>2. Cardinality({s}) = 1
      BY FS_Singleton
    <3> QED BY <1>1, <3>1, <3>2
  <2>3. CASE sale'[s].of # u
    <3>1. RefundsOf(u)' = RefundsOf(u)
      BY <1>2, <2>3
    <3>2. \A t \in RefundsOf(u) : Recorded(u) /\ u # s /\ sale'[t] = sale[t]
      BY <2>1
    <3> QED BY <1>1, <2>1, <3>1, <3>2
  <2> QED BY <2>2, <2>3
<1>7. IntegrityReports'
  <2> SUFFICES ASSUME NEW u \in Sales, Recorded(u)', sale'[u].of = None, ~UnderWay(u)'
               PROVE  /\ ~Reported(u)' => Cardinality(item'[u]) = sale'[u].total /\ PaidAmount(u)' = sale'[u].total
                      /\ u \notin cut => ~Reported(u)'
    BY DEF IntegrityReports
  <2>1. CASE u = s
    <3>1. Whole(s)'
      BY <2>1
    <3>2. item'[s] # {} /\ Cardinality(item'[s]) = sale'[s].total /\ PaidAmount(s)' = sale'[s].total
      BY <3>1 DEF Whole
    <3>3. ~Reported(s)'
      BY <3>2 DEF Reported
    <3> QED BY <2>1, <3>2, <3>3
  <2>2. CASE u # s
    <3>1. ~UnderWay(u)
      BY <2>2, IdsAssumption DEF UnderWay
    <3>2. /\ item'[u] = item[u] /\ PaidAmount(u)' = PaidAmount(u) /\ (Reported(u)' <=> Reported(u))
          /\ sale'[u] = sale[u] /\ Recorded(u)
      BY <1>1, <2>2 DEF PaidAmount, Reported
    <3> QED BY <3>1, <3>2 DEF LedgerInv, Ledger, Tickets, IntegrityReports
  <2> QED BY <2>1, <2>2
<1> QED BY <1>4, <1>5, <1>6, <1>7 DEF Ledger, Tickets

\* A step that keeps what is to be written.
Same(o, q) == Goes(o, q) /\ q.cart = o.cart /\ q.session = o.session

LEMMA PlanKept ==
  ASSUME LedgerInv, NEW c \in Clerks, Same(op[c], op'[c]), sale' = sale, cut \subseteq cut',
         op[c].step # "idle",
         op'[c].step \in {"number", "row"} =>
           op[c].step \in {"number", "row"} /\ op'[c].todo = op[c].todo /\ op'[c].due = op[c].due
  PROVE  Plan(c)'
<1>1. Plan(c)
  BY ClerkFacts
<1>2. \A s : RefundsOf(s)' = RefundsOf(s) /\ (Recorded(s)' <=> Recorded(s))
  BY DEF RefundsOf, Recorded
<1> QED BY <1>1, <1>2 DEF Plan, Same, Goes

LEMMA IdleHolds ==
  ASSUME NEW c \in Clerks, op'[c] = Idle
  PROVE  Plan(c)' /\ Done(c)'
BY IdleAccounts DEF Plan, Done

\* After its payments a sale has everything.
LEMMA WholeThen ==
  ASSUME LedgerInv, NEW c \in Clerks, op[c].step \in {"stock", "level", "credit", "charge"},
         op[c].of = None
  PROVE  Whole(op[c].sale)
<1>1. Plan(c) /\ Done(c) /\ op[c].sale # None
  BY ClerkFacts DEF Busy
<1> QED BY <1>1 DEF Plan, Done, Whole, PaidAmount

LEMMA AfterStockKeeps ==
  ASSUME NEW o \in Recordings
  PROVE  AfterStock(o) = Idle \/ (Same(o, AfterStock(o)) /\ AfterStock(o).step = "credit")
BY DEF AfterStock, Same, Goes, Recordings

LEMMA AfterPaymentsKeeps ==
  ASSUME NEW o \in Recordings
  PROVE  \/ AfterPayments(o) = Idle
         \/ Same(o, AfterPayments(o)) /\ AfterPayments(o).step \in {"credit", "stock"}
<1>1. CASE o.cart \cap Tracked = {}
  BY <1>1, AfterStockKeeps DEF AfterPayments
<1>2. CASE o.cart \cap Tracked # {}
  BY <1>2 DEF AfterPayments, Same, Goes, Recordings
<1> QED BY <1>1, <1>2

LEMMA InitLedger == Init => LedgerInv
<1> SUFFICES ASSUME Init PROVE Ledger
  BY InitAccounts DEF LedgerInv
<1>1. \A c \in Clerks : Plan(c) /\ Done(c)
  BY IdleAccounts DEF Init, Plan, Done
<1>2. \A s \in Sales : ~Recorded(s) /\ item[s] = {} /\ paid[s] = Nothing /\ moved[s] = {}
  BY DEF Init, Recorded, NoRow
<1>3. \A s \in Sales : RefundsOf(s) = {}
  BY <1>2 DEF RefundsOf
<1>4. Cardinality({}) = 0
  BY FS_EmptySet
<1> QED BY <1>1, <1>2, <1>3, <1>4 DEF Ledger, Tickets, Unwritten, GivenBack, RefundedOnce, IntegrityReports

LEMMA RecordCheckLedger ==
  ASSUME LedgerInv, NEW c \in Clerks, NEW cart \in Carts, NEW pay \in Splits(cart),
         RecordCheck(c, cart, pay)
  PROVE  Ledger'
<1> DEFINE r == [Idle EXCEPT !.step = "number", !.cart = cart, !.todo = cart, !.pay = pay,
                             !.due = {m \in Methods : pay[m] # 0}]
<1>1. Set(c, r) /\ UNCHANGED <<sale, item, paid, moved, cut>> /\ op[c] = Idle
  BY DEF RecordCheck, tables, ghosts
<1>2. /\ cart \in SUBSET Products /\ cart # {} /\ Cardinality(cart) \in Nat /\ Cardinality(cart) # 0
  BY SetsAssumption, CartCount, FS_EmptySet, FS_Subset
<1>3. /\ pay \in Owed /\ (\A m \in Methods : pay[m] >= 0) /\ SumFunction(pay) = Cardinality(cart)
  BY <1>2 DEF Splits, Owed
<1>4. Owing(pay) # {}
  <2> SUFFICES ASSUME \A m \in Methods : pay[m] = 0 PROVE FALSE
    BY DEF Owing
  <2>1. SumFunctionOnSet(pay, Methods) = 0
    BY SumZeros, MethodsAssumption
  <2> QED BY <1>2, <1>3, <2>1, OwedSum
<1>5. /\ r.step = "number" /\ r.cart = cart /\ r.todo = cart /\ r.pay = pay /\ r.due = Owing(pay)
      /\ r.of = None /\ r.sale = None
  BY DEF Idle, Owing
<1> HIDE DEF r
<1>6. op'[c] = r /\ \A d \in Clerks : d # c => op'[d] = op[d]
  BY <1>1, ClerkFacts DEF Set
<1>7. Plan(c)' /\ Done(c)'
  BY <1>2, <1>3, <1>4, <1>5, <1>6 DEF Plan, Done
<1>8. op[c].sale = None
  BY <1>1, IdleAccounts
<1> QED BY <1>1, <1>5, <1>6, <1>7, <1>8, IdsAssumption, StepLedger

LEMMA RefundCheckLedger ==
  ASSUME LedgerInv, NEW s \in Sales, RefundCheck(s)
  PROVE  Ledger'
<1> PICK m \in Methods :
      Set(History, [Idle EXCEPT !.step = "number", !.of = s, !.session = sale[s].session,
                !.cart = item[s], !.todo = item[s], !.due = {m},
                !.pay = [Nothing EXCEPT ![m] = -Cardinality(item[s])]])
  BY DEF RefundCheck
<1> DEFINE p == [Nothing EXCEPT ![m] = -Cardinality(item[s])]
<1> DEFINE r == [Idle EXCEPT !.step = "number", !.of = s, !.session = sale[s].session,
                !.cart = item[s], !.todo = item[s], !.due = {m}, !.pay = p]
<1>1. /\ Set(History, r) /\ UNCHANGED <<sale, item, paid, moved, cut>> /\ op[History] = Idle
      /\ History \in Clerks /\ item[s] # {} /\ Recorded(s) /\ sale[s].of = None /\ ~UnderWay(s)
      /\ RefundedAmountOf(s) < sale[s].total
  BY DEF RefundCheck, Refundable, tables, ghosts, Clerks
<1>0. TicketTypes /\ Tickets
  BY <1>1, ClerkFacts
<1>2. item[s] \in SUBSET Products /\ Cardinality(item[s]) \in Nat /\ Cardinality(item[s]) # 0
  BY <1>0, <1>1, CartCount, FS_EmptySet, FS_Subset, SetsAssumption DEF TicketTypes
<1>3. Owing(p) = {m}
  BY <1>2 DEF Owing, Nothing
<1>4. /\ r.step = "number" /\ r.cart = item[s] /\ r.todo = item[s] /\ r.pay = p /\ r.due = {m}
      /\ r.of = s /\ r.sale = None
  BY DEF Idle
<1> HIDE DEF r, p
<1>5. op'[History] = r /\ \A d \in Clerks : d # History => op'[d] = op[d]
  BY <1>1, ClerkFacts DEF Set
<1>6. s \notin cut => Cardinality(item[s]) = sale[s].total
  BY <1>0, <1>1 DEF Tickets, IntegrityReports
<1>7. s \notin cut => RefundsOf(s) = {}
  <2> SUFFICES ASSUME s \notin cut, NEW t \in RefundsOf(s) PROVE FALSE
    OBVIOUS
  <2> DEFINE f == [u \in RefundsOf(s) |-> -sale[u].total]
  <2>1. RefundsOf(s) \in SUBSET Sales /\ IsFiniteSet(RefundsOf(s))
    BY SetsAssumption, FS_Subset DEF RefundsOf
  <2>2. \A u \in RefundsOf(s) : f[u] = sale[s].total /\ f[u] \in Nat
    BY <1>0, <1>2, <1>6 DEF Tickets, GivenBack
  <2>3. RefundedAmountOf(s) = SumFunctionOnSet(f, RefundsOf(s))
    BY DEF RefundedAmountOf, SumFunction
  <2> HIDE DEF f
  <2>4. SumFunctionOnSet(f, RefundsOf(s)) \in Nat /\ f[t] <= SumFunctionOnSet(f, RefundsOf(s))
    BY <2>1, <2>2, SumTerm
  <2> QED BY <1>1, <1>2, <1>6, <2>2, <2>3, <2>4
<1>8. \A u : RefundsOf(u)' = RefundsOf(u) /\ (Recorded(u)' <=> Recorded(u))
  BY <1>1 DEF RefundsOf, Recorded
<1>9. Plan(History)' /\ Done(History)'
  BY <1>1, <1>2, <1>3, <1>4, <1>5, <1>6, <1>7, <1>8, IdsAssumption DEF Plan, Done
<1>10. op[History].sale = None
  BY <1>1, IdleAccounts
<1> QED BY <1>1, <1>4, <1>5, <1>9, <1>10, IdsAssumption, StepLedger

\* The ways a recording ends: refused, cut off, or with its last write.
LEMMA EndsLedger ==
  ASSUME LedgerInv, NEW c \in Clerks, op'[c] = Idle, \A d \in Clerks : d # c => op'[d] = op[d],
         UNCHANGED <<sale, item, paid, moved>>, cut \subseteq cut',
         op[c].sale = None \/ op[c].sale \in cut'
           \/ op[c].step \in {"stock", "level", "credit", "charge"}
  PROVE  Ledger'
<1>1. \A s \in Sales : /\ Reported(s)' <=> Reported(s)
                       /\ Whole(s)' <=> Whole(s)
  BY DEF Reported, Whole, Recorded, PaidAmount
<1>2. ASSUME NEW s \in Sales, op[c].sale = s, op[c].of = None
      PROVE  (Reported(s)' /\ s \in cut') \/ Whole(s)'
  BY <1>1, <1>2, CutOff, WholeThen, IdsAssumption
<1> QED BY <1>2, IdleHolds, IdleAccounts, StepLedger

LEMMA InsertSaleLedger ==
  ASSUME LedgerInv, NEW c \in Clerks, NEW s \in Sales, InsertSale(c, s)
  PROVE  Ledger'
<1> DEFINE r == [op[c] EXCEPT !.step = "items", !.sale = s]
<1>0. /\ TicketTypes /\ op[c] \in Recordings /\ Busy(op[c]) /\ Follows(c) /\ Plan(c) /\ NumInv
      /\ Tickets /\ op \in [Clerks -> Recordings]
  BY ClerkFacts
<1>1. /\ r.step = "items" /\ r.sale = s /\ r.of = op[c].of /\ r.pay = op[c].pay /\ r.due = op[c].due
      /\ r.cart = op[c].cart /\ r.todo = op[c].todo /\ r.session = op[c].session
  BY <1>0 DEF Recordings
<1>2. op'[c] = r /\ \A d \in Clerks : d # c => op'[d] = op[d]
  BY <1>0 DEF InsertSale, Set
<1>3. /\ \A u \in Sales : u # s => sale'[u] = sale[u]
      /\ sale'[s].of = op[c].of /\ sale'[s].seq = op[c].seq /\ sale'[s].session = op[c].session
      /\ sale'[s].total = IF op[c].of = None THEN Cardinality(op[c].cart) ELSE -Cardinality(op[c].cart)
      /\ UNCHANGED <<item, paid, moved, cut>>
  BY <1>0 DEF InsertSale, TicketTypes, ghosts
<1>4. op[c].step = "row" /\ ~Recorded(s) /\ op[c].seq # 0
  BY <1>0 DEF InsertSale, NumInv, Numbers, Pending
<1>5. item[s] = {} /\ paid[s] = Nothing /\ moved[s] = {}
  BY <1>0, <1>4 DEF Tickets, Unwritten
<1> HIDE DEF r
<1>6. Recorded(s)' /\ \A u \in Sales : Recorded(u) => Recorded(u)' /\ sale'[u] = sale[u]
  BY <1>3, <1>4 DEF Recorded
<1>7. op[c].sale = None /\ op[c].of \in Sales \cup {None} /\ Cardinality(op[c].cart) \in Nat
        /\ s # None
  BY <1>0, <1>4, CartCount, IdsAssumption DEF Follows, Recordings
<1>8. Done(c)'
  BY <1>0, <1>1, <1>2, <1>3, <1>4, <1>5 DEF Done, Plan
<1>9. Plan(c)'
  BY <1>0, <1>1, <1>2, <1>3, <1>4, <1>6, <1>7 DEF Plan
<1>10. UnderWay(s)'
  BY <1>1, <1>2 DEF UnderWay
<1>11. sale'[s].of # None =>
           /\ Recorded(sale'[s].of) /\ sale'[s].of \in Sales
           /\ op'[History] # op[History]
           /\ sale'[s].of \notin cut =>
                RefundsOf(sale'[s].of) = {} /\ sale'[s].total = -sale[sale'[s].of].total
  BY <1>0, <1>1, <1>2, <1>3, <1>4, <1>7 DEF Plan
<1>12. sale'[s].total \in Int
  BY <1>3, <1>7
<1> QED BY <1>2, <1>3, <1>4, <1>6, <1>7, <1>8, <1>9, <1>10, <1>11, <1>12, RowLedger

LEMMA InsertItemLedger ==
  ASSUME LedgerInv, NEW c \in Clerks, InsertItem(c)
  PROVE  Ledger'
<1> DEFINE p == First(op[c].todo)
           r == [op[c] EXCEPT !.todo = @ \ {p},
                     !.step = IF op[c].todo = {p} THEN "payments" ELSE "items"]
<1>0. /\ TicketTypes /\ op[c] \in Recordings /\ Busy(op[c]) /\ Follows(c) /\ Plan(c) /\ Done(c)
      /\ op \in [Clerks -> Recordings]
  BY ClerkFacts
<1>1. p \in op[c].todo /\ op[c].step = "items" /\ op[c].sale \in Sales /\ op[c].sale # None
  BY <1>0, FirstIn DEF InsertItem, Busy, Recordings
<1>2. /\ Set(c, r) /\ item' = [item EXCEPT ![op[c].sale] = @ \cup {p}]
      /\ UNCHANGED <<sale, paid, moved, cut>>
  BY DEF InsertItem, ghosts
<1> HIDE DEF p
<1>3. /\ Same(op[c], r) /\ r.due = op[c].due /\ r.todo = op[c].todo \ {p}
      /\ r.step = IF op[c].todo = {p} THEN "payments" ELSE "items"
  BY <1>0 DEF Recordings, Same, Goes
<1> HIDE DEF r
<1>4. op'[c] = r /\ \A d \in Clerks : d # c => op'[d] = op[d]
  BY <1>0, <1>2 DEF Set
<1>5. /\ item'[op[c].sale] = item[op[c].sale] \cup {p}
      /\ \A s \in Sales : s # op[c].sale => item'[s] = item[s]
  BY <1>0, <1>1, <1>2 DEF TicketTypes
<1>6. Plan(c)'
  BY <1>1, <1>2, <1>3, <1>4, PlanKept
<1>7. Done(c)'
  <2>1. /\ item'[op[c].sale] = op[c].cart \ r.todo /\ r.todo \subseteq op[c].cart
        /\ r.step = "payments" => item'[op[c].sale] = op[c].cart
    BY <1>0, <1>1, <1>3, <1>5 DEF Done
  <2>2. r.step = "payments" => paid[op[c].sale] = [m \in Methods |-> IF m \in r.due THEN 0 ELSE r.pay[m]]
    BY <1>0, <1>1, <1>3 DEF Done, Owing, Nothing, Same, Goes
  <2>3. /\ r.step \in {"items", "payments"} /\ r.sale = op[c].sale /\ r.of = op[c].of
        /\ r.pay = op[c].pay /\ r.cart = op[c].cart /\ r.session = op[c].session
    BY <1>3 DEF Same, Goes
  <2>4. /\ sale[r.sale].session = r.session
        /\ sale[r.sale].total = IF r.of = None THEN Cardinality(r.cart) ELSE -Cardinality(r.cart)
        /\ r.due = Owing(r.pay) /\ r.due # {} /\ moved[r.sale] = {} /\ paid[r.sale] = Nothing
    BY <1>0, <1>1, <1>3, <2>3 DEF Done
  <2> QED BY <1>2, <1>4, <2>1, <2>2, <2>3, <2>4 DEF Done
<1> QED BY <1>1, <1>2, <1>3, <1>4, <1>5, <1>6, <1>7, IdsAssumption, StepLedger DEF Same, Goes

LEMMA InsertPaymentLedger ==
  ASSUME LedgerInv, NEW c \in Clerks, InsertPayment(c)
  PROVE  Ledger'
<1> DEFINE m == First(op[c].due)
           left == [op[c] EXCEPT !.due = @ \ {m}]
           r == IF op[c].due = {m} THEN AfterPayments(left) ELSE left
<1>0. /\ TicketTypes /\ op[c] \in Recordings /\ Busy(op[c]) /\ Follows(c) /\ Plan(c) /\ Done(c)
      /\ op \in [Clerks -> Recordings]
  BY ClerkFacts
<1>1. /\ op[c].step = "payments" /\ op[c].sale \in Sales /\ op[c].sale # None /\ m \in op[c].due
      /\ m \in Methods
  BY <1>0, FirstIn DEF InsertPayment, Busy, Recordings, Done
<1>2. /\ Set(c, r) /\ paid' = [paid EXCEPT ![op[c].sale] = [@ EXCEPT ![m] = op[c].pay[m]]]
      /\ UNCHANGED <<sale, item, moved, cut>>
  BY DEF InsertPayment, CashMoves
<1> HIDE DEF m
<1>3. left \in Recordings /\ Same(op[c], left) /\ left.due = op[c].due \ {m} /\ left.step = "payments"
  BY <1>0, <1>1 DEF Recordings, Same, Goes
<1> HIDE DEF left
<1>4. \/ r = Idle /\ op[c].due = {m}
      \/ Same(op[c], r) /\ r.step \in {"credit", "stock"} /\ op[c].due = {m}
      \/ r = left /\ op[c].due # {m}
  BY <1>3, AfterPaymentsKeeps DEF Same, Goes
<1> HIDE DEF r
<1>5. op'[c] = r /\ \A d \in Clerks : d # c => op'[d] = op[d]
  BY <1>0, <1>2 DEF Set
<1>6. /\ paid'[op[c].sale] = [paid[op[c].sale] EXCEPT ![m] = op[c].pay[m]]
      /\ \A s \in Sales : s # op[c].sale => paid'[s] = paid[s]
  BY <1>0, <1>1, <1>2 DEF TicketTypes
<1>7. /\ paid'[op[c].sale] = [n \in Methods |-> IF n \in op[c].due \ {m} THEN 0 ELSE op[c].pay[n]]
      /\ op[c].due \subseteq Owing(op[c].pay) /\ op[c].pay \in [Methods -> Int]
  BY <1>0, <1>1, <1>6 DEF Done, Recordings, Owed
<1>8. op[c].due = {m} => paid'[op[c].sale] = op[c].pay
  BY <1>7
<1>9. Plan(c)' /\ Done(c)'
  <2>1. CASE r = Idle
    BY <1>5, <2>1, IdleHolds
  <2>2. CASE Same(op[c], r) /\ r.step \in {"credit", "stock"} /\ op[c].due = {m}
    <3>1. Plan(c)'
      BY <1>1, <1>2, <1>5, <2>2, PlanKept
    <3>2. moved[op[c].sale] = {} /\ item[op[c].sale] = op[c].cart
      BY <1>0, <1>1 DEF Done
    <3> QED BY <1>0, <1>1, <1>2, <1>5, <1>8, <2>2, <3>1, <3>2 DEF Done, Same, Goes
  <2>3. CASE r = left /\ op[c].due # {m}
    <3>1. Plan(c)'
      BY <1>1, <1>2, <1>3, <1>5, <2>3, PlanKept
    <3> QED BY <1>0, <1>1, <1>2, <1>3, <1>5, <1>7, <2>3, <3>1 DEF Done, Same, Goes
  <2> QED BY <1>4, <2>1, <2>2, <2>3
<1>10. ASSUME NEW s \in Sales, op'[c].sale = None, op[c].sale = s, op[c].of = None
       PROVE  Whole(s)'
  <2>1. op[c].due = {m}
    BY <1>1, <1>3, <1>4, <1>5, <1>10 DEF Same, Goes
  <2>2. paid'[s] = op[c].pay /\ item'[s] = op[c].cart
    BY <1>0, <1>1, <1>2, <1>8, <1>10, <2>1 DEF Done
  <2>3. /\ sale[s].total = Cardinality(op[c].cart) /\ op[c].cart # {}
        /\ SumFunction(op[c].pay) = Cardinality(op[c].cart)
    BY <1>0, <1>1, <1>10 DEF Plan, Done
  <2> QED BY <1>2, <2>2, <2>3 DEF Whole, PaidAmount
<1>11. op'[c].sale \in {None, op[c].sale}
  BY <1>3, <1>4, <1>5, IdleAccounts DEF Same, Goes
<1> QED BY <1>1, <1>2, <1>5, <1>6, <1>9, <1>10, <1>11, StepLedger

\* The steps that write neither a line nor a payment: they move an article, or nothing.
LEMMA StockLedger ==
  ASSUME LedgerInv, NEW c \in Clerks, InsertMovement(c) \/ MoveLevel(c)
  PROVE  Ledger'
<1>0. /\ TicketTypes /\ op[c] \in Recordings /\ Busy(op[c]) /\ Follows(c) /\ Plan(c) /\ Done(c)
      /\ op \in [Clerks -> Recordings]
  BY ClerkFacts
<1>1. CASE InsertMovement(c)
  <2> DEFINE p == First(op[c].todo)
             r == [op[c] EXCEPT !.step = "level", !.item = p]
  <2>1. p \in op[c].todo /\ op[c].step = "stock" /\ op[c].sale \in Sales /\ op[c].sale # None
    BY <1>0, <1>1, FirstIn DEF InsertMovement, Busy, Recordings
  <2>2. /\ Set(c, r) /\ moved' = [moved EXCEPT ![op[c].sale] = @ \cup {p}]
        /\ UNCHANGED <<sale, paid, item, cut>>
    BY <1>1 DEF InsertMovement, ghosts
  <2> HIDE DEF p
  <2>3. Same(op[c], r) /\ r.todo = op[c].todo /\ r.step = "level" /\ r.item = p
    BY <1>0 DEF Recordings, Same, Goes
  <2> HIDE DEF r
  <2>4. op'[c] = r /\ \A d \in Clerks : d # c => op'[d] = op[d]
    BY <1>0, <2>2 DEF Set
  <2>5. /\ moved'[op[c].sale] = moved[op[c].sale] \cup {p}
        /\ \A s \in Sales : s # op[c].sale => moved'[s] = moved[s]
    BY <1>0, <2>1, <2>2 DEF TicketTypes
  <2>6. Plan(c)'
    BY <2>1, <2>2, <2>3, <2>4, PlanKept
  <2>7. moved'[op[c].sale] \cap op[c].todo = {p}
    BY <1>0, <2>1, <2>5 DEF Done
  <2>8. Done(c)'
    BY <1>0, <2>1, <2>2, <2>3, <2>4, <2>7 DEF Done, Same, Goes
  <2> QED BY <2>1, <2>2, <2>3, <2>4, <2>5, <2>6, <2>8, IdsAssumption, StepLedger DEF Same, Goes
<1>2. CASE MoveLevel(c)
  <2> DEFINE left == [op[c] EXCEPT !.todo = @ \ {op[c].item}, !.step = "stock", !.item = None]
             r == IF op[c].todo = {op[c].item} THEN AfterStock(left) ELSE left
  <2>1. /\ Set(c, r) /\ UNCHANGED <<sale, paid, item, moved, cut>>
        /\ op[c].step = "level" /\ op[c].sale # None
    BY <1>0, <1>2 DEF MoveLevel, ghosts, Busy
  <2>2. /\ left \in Recordings /\ Same(op[c], left) /\ left.step = "stock"
        /\ left.todo = op[c].todo \ {op[c].item}
    BY <1>0 DEF Recordings, Steps, Same, Goes
  <2> HIDE DEF left
  <2>3. r = Idle \/ (Same(op[c], r) /\ r.step = "credit") \/ r = left
    BY <2>2, AfterStockKeeps DEF Same, Goes
  <2> HIDE DEF r
  <2>4. op'[c] = r /\ \A d \in Clerks : d # c => op'[d] = op[d]
    BY <1>0, <2>1 DEF Set
  <2>5. CASE r = Idle
    BY <2>1, <2>4, <2>5, EndsLedger
  <2>6. CASE r # Idle
    <3>1. Same(op[c], r) /\ (r.step = "credit" \/ (r.step = "stock" /\ r.todo = op[c].todo \ {op[c].item}))
      BY <2>2, <2>3, <2>6
    <3>2. Plan(c)'
      BY <2>1, <2>4, <3>1, PlanKept
    <3>3. moved[op[c].sale] \cap (op[c].todo \ {op[c].item}) = {}
      BY <1>0, <2>1 DEF Done
    <3>4. Done(c)'
      BY <1>0, <2>1, <2>4, <3>1, <3>3 DEF Done, Same, Goes
    <3> QED BY <2>1, <2>4, <3>1, <3>2, <3>4, IdsAssumption, StepLedger DEF Same, Goes
  <2> QED BY <2>5, <2>6
<1> QED BY <1>1, <1>2

LEMMA RecordingLedger ==
  ASSUME LedgerInv, NEW c \in Clerks, Recording(c)
  PROVE  Ledger'
<1>0. /\ TicketTypes /\ op[c] \in Recordings /\ Busy(op[c]) /\ Follows(c) /\ Plan(c) /\ Done(c)
      /\ op \in [Clerks -> Recordings]
  BY ClerkFacts
<1>1. ASSUME ReadSequence(c) PROVE Ledger'
  <2> DEFINE r == [op[c] EXCEPT !.step = "row", !.seq = NextSequence,
               !.session = IF op[c].of = None THEN OpenSessionId ELSE op[c].session]
  <2>1. /\ r.step = "row" /\ r.sale = op[c].sale /\ r.of = op[c].of /\ r.pay = op[c].pay
        /\ r.due = op[c].due /\ r.cart = op[c].cart /\ r.todo = op[c].todo
    BY <1>0 DEF Recordings
  <2>2. /\ Set(c, r) /\ op[c].step = "number" /\ op[c].sale = None
        /\ UNCHANGED <<sale, item, paid, moved, cut>>
    BY <1>0, <1>1 DEF ReadSequence, tables, ghosts, Follows
  <2> HIDE DEF r
  <2>3. op'[c] = r /\ \A d \in Clerks : d # c => op'[d] = op[d]
    BY <1>0, <2>2 DEF Set
  <2>4. \A s : RefundsOf(s)' = RefundsOf(s) /\ (Recorded(s)' <=> Recorded(s))
    BY <2>2 DEF RefundsOf, Recorded
  <2>5. Plan(c)' /\ Done(c)'
    BY <1>0, <2>1, <2>2, <2>3, <2>4 DEF Plan, Done
  <2> QED BY <2>1, <2>2, <2>3, <2>5, IdsAssumption, StepLedger
<1>2. ASSUME NEW s \in Sales, InsertSale(c, s) PROVE Ledger'
  BY <1>2, InsertSaleLedger
<1>3. ASSUME InsertRefused(c) \/ CreditRefused(c) \/ StatementFails(c) \/ ChargeSale(c) PROVE Ledger'
  <2>1. Set(c, Idle) /\ UNCHANGED <<sale, item, paid, moved>> /\ cut \subseteq cut'
    BY <1>3 DEF InsertRefused, CreditRefused, StatementFails, ChargeSale, tables, ghosts
  <2>2. op[c].sale = None \/ op[c].sale \in cut' \/ op[c].step \in {"stock", "level", "credit", "charge"}
    BY <1>0, <1>3 DEF InsertRefused, CreditRefused, StatementFails, ChargeSale, Follows
  <2>3. op'[c] = Idle /\ \A d \in Clerks : d # c => op'[d] = op[d]
    BY <1>0, <2>1 DEF Set
  <2> QED BY <2>1, <2>2, <2>3, EndsLedger
<1>4. ASSUME ReadBalance(c) PROVE Ledger'
  <2> DEFINE r == [op[c] EXCEPT !.step = "charge"]
  <2>1. /\ Set(c, r) /\ op[c].step = "credit" /\ op[c].sale # None
        /\ UNCHANGED <<sale, item, paid, moved, cut>>
    BY <1>0, <1>4 DEF ReadBalance, tables, ghosts, Busy
  <2>2. Same(op[c], r) /\ r.step = "charge"
    BY <1>0 DEF Recordings, Same, Goes
  <2> HIDE DEF r
  <2>3. op'[c] = r /\ \A d \in Clerks : d # c => op'[d] = op[d]
    BY <1>0, <2>1 DEF Set
  <2>4. Plan(c)'
    BY <2>1, <2>2, <2>3, PlanKept
  <2>5. Done(c)'
    BY <1>0, <2>1, <2>2, <2>3 DEF Done, Same, Goes
  <2> QED BY <2>1, <2>2, <2>3, <2>4, <2>5, IdsAssumption, StepLedger DEF Same, Goes
<1>5. ASSUME NEW cart \in Carts, NEW pay \in Splits(cart), RecordCheck(c, cart, pay)
      PROVE  Ledger'
  BY <1>5, RecordCheckLedger
<1> QED BY <1>1, <1>2, <1>3, <1>4, <1>5, InsertItemLedger, InsertPaymentLedger, StockLedger DEF Recording

LEMMA ArriveLedger ==
  ASSUME LedgerInv, NEW s \in Sales, NEW p \in Products, Arrive(s, p)
  PROVE  Ledger'
<1> DEFINE cash == [Nothing EXCEPT !["cash"] = 1]
<1>0. TicketTypes /\ Tickets
  BY DEF LedgerInv, Ledger, AccountInv, NumInv, TypeInv
<1>1. /\ ~Recorded(s) /\ sale'[s].seq = foreign + 1 /\ sale'[s].of = None /\ sale'[s].total = 1
      /\ item'[s] = {p} /\ paid'[s] = cash
      /\ \A u \in Sales : u # s => sale'[u] = sale[u] /\ paid'[u] = paid[u] /\ item'[u] = item[u]
      /\ UNCHANGED <<moved, cut, op>>
  BY <1>0 DEF Arrive, TicketTypes, ghosts
<1>2. Recorded(s)'
  BY <1>0, <1>1, NumbersAssumption DEF TicketTypes, Recorded
<1>3. /\ Nothing \in Owed /\ Nothing["cash"] = 0 /\ cash \in Owed /\ cash["cash"] = 1 /\ "cash" \in Methods
      /\ \A m \in Methods : m # "cash" => cash[m] = Nothing[m]
      /\ \A m \in Methods : Nothing[m] = 0 /\ cash[m] \in Int
  BY MethodsAssumption DEF Nothing, Owed
<1> HIDE DEF cash
<1>4. SumFunctionOnSet(Nothing, Methods) = 0
  BY <1>3, SumZeros, MethodsAssumption
<1>5. SumFunctionOnSet(cash, Methods) = SumFunctionOnSet(Nothing, Methods) + cash["cash"] - Nothing["cash"]
  BY <1>3, SumPut, MethodsAssumption
<1>6. PaidAmount(s)' = 1
  BY <1>1, <1>3, <1>4, <1>5, OwedSum DEF PaidAmount
<1>7. Whole(s)'
  BY <1>1, <1>6, FS_Singleton DEF Whole
<1> QED BY <1>1, <1>2, <1>7, RowLedger

LEMMA CrashLedger ==
  ASSUME LedgerInv, Crash
  PROVE  Ledger'
<1>1. /\ UNCHANGED <<sale, item, paid, moved>> /\ \A c \in Clerks : op'[c] = Idle
      /\ cut' = cut \cup ({op[c].sale : c \in Clerks} \ {None})
  BY DEF Crash, tables
<1>2. \A c \in Clerks : Plan(c)' /\ Done(c)'
  BY <1>1, IdleHolds
<1>3. /\ \A s : RefundsOf(s)' = RefundsOf(s)
      /\ \A s \in Sales : /\ Recorded(s)' <=> Recorded(s)
                          /\ Reported(s)' <=> Reported(s)
                          /\ PaidAmount(s)' = PaidAmount(s)
  BY <1>1 DEF RefundsOf, Recorded, Reported, PaidAmount
<1>4. Tickets
  BY DEF LedgerInv, Ledger
<1>5. Unwritten' /\ GivenBack' /\ RefundedOnce'
  BY <1>1, <1>3, <1>4 DEF Tickets, Unwritten, GivenBack, RefundedOnce
<1>6. IntegrityReports'
  <2> SUFFICES ASSUME NEW s \in Sales, Recorded(s), sale[s].of = None
               PROVE  /\ ~Reported(s) => Cardinality(item[s]) = sale[s].total /\ PaidAmount(s) = sale[s].total
                      /\ s \notin cut' => ~Reported(s)
    BY <1>1, <1>3 DEF IntegrityReports
  <2>1. CASE ~UnderWay(s)
    BY <1>1, <1>4, <2>1 DEF Tickets, IntegrityReports
  <2>2. CASE UnderWay(s)
    <3>1. PICK c \in Clerks : op[c].sale = s
      BY <2>2 DEF UnderWay
    <3>2. s \in cut' /\ s # None /\ op[c].of = None
      BY <1>1, <3>1, IdsAssumption, ClerkFacts DEF Follows
    <3>3. Reported(s) \/ Whole(s)
      BY <3>1, <3>2, CutOff
    <3> QED BY <3>2, <3>3 DEF Whole
  <2> QED BY <2>1, <2>2
<1> QED BY <1>2, <1>5, <1>6 DEF Ledger, Tickets

\* Nothing of this moves with the drawer or the account.
LEMMA LedgerFrame ==
  ASSUME LedgerInv, UNCHANGED <<sale, item, paid, moved, op, cut>>
  PROVE  Ledger'
<1>1. \A s : /\ RefundsOf(s)' = RefundsOf(s)
             /\ Recorded(s)' <=> Recorded(s)
             /\ Reported(s)' <=> Reported(s)
             /\ PaidAmount(s)' = PaidAmount(s)
             /\ UnderWay(s)' <=> UnderWay(s)
  BY DEF RefundsOf, Recorded, Reported, PaidAmount, UnderWay
<1>2. \A c \in Clerks : Plan(c)' /\ Done(c)'
  BY <1>1 DEF LedgerInv, Ledger, Plan, Done
<1>3. Tickets'
  BY <1>1 DEF LedgerInv, Ledger, Tickets, Unwritten, GivenBack, RefundedOnce, IntegrityReports
<1> QED BY <1>2, <1>3 DEF Ledger

LEMMA NextLedger == LedgerInv /\ [Next]_vars => LedgerInv'
<1> SUFFICES ASSUME LedgerInv, [Next]_vars PROVE Ledger'
  BY NextAccounts DEF LedgerInv
<1>1. CASE ArriveMisfit \/ TicketsStay \/ UNCHANGED vars
  BY <1>1, LedgerFrame DEF ArriveMisfit, TicketsStay, vars, tables, ghosts
<1> QED BY <1>1, RecordingLedger, RefundCheckLedger, ArriveLedger, CrashLedger, DrawerLeavesTickets
        DEF Next

LEMMA LedgerInvCorrect == Spec => []LedgerInv
BY InitLedger, NextLedger, PTL DEF Spec

\* A sale cut off while it was recorded is reported by checkIntegrity unless it has all its lines
\* and payments, and a sale recorded to its end is never reported, whatever other screens write
\* in between and wherever a statement fails (the order of record's inserts).
THEOREM IntegrityReportsCorrect == Spec => []IntegrityReports
<1>1. LedgerInv => IntegrityReports
  BY DEF LedgerInv, Ledger, Tickets
<1> QED BY <1>1, LedgerInvCorrect, PTL

\* A sale recorded to its end is refunded once at most, whatever fails on the way
\* (refundedAmountOf, recordRefund).
THEOREM RefundedOnceCorrect == Spec => []RefundedOnce
<1>1. LedgerInv => RefundedOnce
  BY DEF LedgerInv, Ledger, Tickets
<1> QED BY <1>1, LedgerInvCorrect, PTL

-----------------------------------------------------------------------------
(* Stock.  Between the two statements that move an article, the level      *)
(* still lacks what the movement says.                                     *)

Moving(s, p) == \E c \in Clerks : op[c].step = "level" /\ op[c].sale = s /\ op[c].item = p

\* The sales, and the refunds, whose moves of an article its level shows.
Taken(p) == {s \in Sales : p \in moved[s] /\ sale[s].of = None /\ ~Moving(s, p)}
Restored(p) == {s \in Sales : p \in moved[s] /\ sale[s].of # None /\ ~Moving(s, p)}

Levels ==
  \A p \in Products :
    (\A s \in Sales : p \in moved[s] => s \notin cut) =>
      level[p] = Opening - Cardinality(Taken(p)) + Cardinality(Restored(p))

LevelInv == LedgerInv /\ Levels

\* The level stays when the moves do.
LEMMA LevelStays ==
  ASSUME LevelInv, UNCHANGED <<level, moved>>, cut \subseteq cut',
         \A s \in Sales : Recorded(s) => sale'[s] = sale[s],
         \A s \in Sales, p \in Products :
           p \in moved[s] /\ s \notin cut' => (Moving(s, p)' <=> Moving(s, p))
  PROVE  Levels'
<1> SUFFICES ASSUME NEW p \in Products, \A s \in Sales : p \in moved[s] => s \notin cut'
             PROVE  level[p] = Opening - Cardinality(Taken(p)') + Cardinality(Restored(p)')
  BY DEF Levels
<1>1. \A s \in Sales : p \in moved[s] => sale'[s] = sale[s] /\ (Moving(s, p)' <=> Moving(s, p))
  BY DEF LevelInv, LedgerInv, Ledger, Tickets, Unwritten
<1>2. Taken(p)' = Taken(p) /\ Restored(p)' = Restored(p)
  BY <1>1 DEF Taken, Restored
<1> QED BY <1>2 DEF LevelInv, Levels

\* A step of one screen that is not between the two statements, before or after.
LEMMA LevelStep ==
  ASSUME LevelInv, NEW c \in Clerks, UNCHANGED <<level, moved>>, cut \subseteq cut',
         \A s \in Sales : Recorded(s) => sale'[s] = sale[s],
         \A d \in Clerks : d # c => op'[d] = op[d],
         op[c].step # "level" \/ op[c].sale \in cut', op'[c].step # "level"
  PROVE  Levels'
<1>1. \A s \in Sales, p \in Products : s \notin cut' => (Moving(s, p)' <=> Moving(s, p))
  BY DEF Moving
<1> QED BY <1>1, LevelStays

LEMMA InitLevels == Init => LevelInv
<1> SUFFICES ASSUME Init PROVE Levels
  BY InitLedger DEF LevelInv
<1>1. \A p \in Products : Taken(p) = {} /\ Restored(p) = {} /\ level[p] = Opening
  BY DEF Init, Taken, Restored
<1>2. Cardinality({}) = 0 /\ Opening \in Nat
  BY FS_EmptySet, NumbersAssumption
<1> QED BY <1>1, <1>2 DEF Levels

LEMMA MovementLevels ==
  ASSUME LevelInv, NEW c \in Clerks, InsertMovement(c)
  PROVE  Levels'
<1> DEFINE x == First(op[c].todo)
           r == [op[c] EXCEPT !.step = "level", !.item = x]
           o == op[c].sale
<1>0. TicketTypes /\ op[c] \in Recordings /\ Busy(op[c]) /\ Done(c) /\ op \in [Clerks -> Recordings] /\ Alone
  BY ClerkFacts DEF LevelInv
<1>1. x \in op[c].todo /\ op[c].step = "stock" /\ o \in Sales /\ x \notin moved[o] /\ o # None
  BY <1>0, FirstIn DEF InsertMovement, Busy, Recordings, Done
<1>2. /\ Set(c, r) /\ moved' = [moved EXCEPT ![o] = @ \cup {x}] /\ UNCHANGED <<sale, level, cut>>
  BY DEF InsertMovement, ghosts
<1> HIDE DEF x
<1>3. r.step = "level" /\ r.item = x /\ r.sale = o
  BY <1>0 DEF Recordings
<1> HIDE DEF r
<1>4. op'[c] = r /\ \A d \in Clerks : d # c => op'[d] = op[d]
  BY <1>0, <1>2 DEF Set
<1>5. /\ moved'[o] = moved[o] \cup {x} /\ \A s \in Sales : s # o => moved'[s] = moved[s]
  BY <1>0, <1>1, <1>2 DEF TicketTypes
<1> HIDE DEF o
<1>6. \A s \in Sales, p \in Products : Moving(s, p)' <=> Moving(s, p) \/ (s = o /\ p = x)
  BY <1>1, <1>3, <1>4 DEF Moving
<1>7. \A p \in Products : Taken(p)' = Taken(p) /\ Restored(p)' = Restored(p)
  BY <1>1, <1>2, <1>5, <1>6 DEF Taken, Restored
<1>8. \A s \in Sales, p \in Products : p \in moved[s] => p \in moved'[s]
  BY <1>5
<1> QED BY <1>2, <1>7, <1>8 DEF LevelInv, Levels

LEMMA MoveLevels ==
  ASSUME LevelInv, NEW c \in Clerks, MoveLevel(c)
  PROVE  Levels'
<1> DEFINE left == [op[c] EXCEPT !.todo = @ \ {op[c].item}, !.step = "stock", !.item = None]
           r == IF op[c].todo = {op[c].item} THEN AfterStock(left) ELSE left
<1>0. /\ TicketTypes /\ op[c] \in Recordings /\ Busy(op[c]) /\ Done(c) /\ Follows(c)
      /\ op \in [Clerks -> Recordings] /\ Alone
  BY ClerkFacts DEF LevelInv
<1>13. op[c].step = "level" /\ op[c].sale \in Sales /\ op[c].item \in Products
  BY <1>0 DEF MoveLevel, Busy, Recordings
<1> PICK o \in Sales, x \in Products : o = op[c].sale /\ x = op[c].item
  BY <1>13
<1>1. /\ Set(c, r) /\ level' = [level EXCEPT ![x] = @ + Delta(op[c].of)]
      /\ UNCHANGED <<sale, moved, cut>> /\ op[c].step = "level"
  BY DEF MoveLevel, ghosts
<1>2. /\ o \in Sales /\ o # None /\ x \in moved[o] /\ sale[o].of = op[c].of /\ x \in Products
  BY <1>0, <1>1 DEF Busy, Recordings, Done, Follows
<1>3. r.step # "level"
  <2>1. left \in Recordings /\ left.step = "stock"
    BY <1>0 DEF Recordings, Steps
  <2> HIDE DEF left
  <2>2. AfterStock(left).step # "level"
    BY <2>1, AfterStockKeeps, IdleAccounts
  <2> QED BY <2>1, <2>2
<1> HIDE DEF r
<1>4. op'[c] = r /\ \A d \in Clerks : d # c => op'[d] = op[d]
  BY <1>0, <1>1 DEF Set
<1>5. Moving(o, x) /\ \A s \in Sales, p \in Products : Moving(s, p)' <=> Moving(s, p) /\ ~(s = o /\ p = x)
  <2>1. Moving(o, x)
    BY <1>1 DEF Moving
  <2>2. \A d \in Clerks : op[d].sale = o => d = c
    BY <1>0, <1>2 DEF Alone
  <2>3. ASSUME NEW s \in Sales, NEW p \in Products
        PROVE  Moving(s, p)' <=> Moving(s, p) /\ ~(s = o /\ p = x)
    <3>1. Moving(s, p)' <=> \E d \in Clerks : d # c /\ op[d].step = "level" /\ op[d].sale = s /\ op[d].item = p
      BY <1>3, <1>4 DEF Moving
    <3> QED BY <2>2, <3>1, <1>1 DEF Moving
  <2> QED BY <2>1, <2>3
<1>6. \A p \in Products : p # x => level'[p] = level[p]
  BY <1>0, <1>1 DEF TicketTypes
<1>7. level'[x] = level[x] + Delta(op[c].of) /\ level[x] \in Int
  BY <1>0, <1>1, <1>2 DEF TicketTypes
<1>8. /\ \A p \in Products : p # x => Taken(p)' = Taken(p) /\ Restored(p)' = Restored(p)
      /\ o \notin Taken(x) /\ o \notin Restored(x)
  BY <1>1, <1>5 DEF Taken, Restored
<1>9. /\ Taken(x)' = IF op[c].of = None THEN Taken(x) \cup {o} ELSE Taken(x)
      /\ Restored(x)' = IF op[c].of # None THEN Restored(x) \cup {o} ELSE Restored(x)
  BY <1>1, <1>2, <1>5 DEF Taken, Restored
<1>10. /\ IsFiniteSet(Taken(x)) /\ IsFiniteSet(Restored(x))
       /\ Cardinality(Taken(x)) \in Nat /\ Cardinality(Restored(x)) \in Nat
  <2>1. Taken(x) \subseteq Sales /\ Restored(x) \subseteq Sales
    BY DEF Taken, Restored
  <2> QED BY <2>1, SetsAssumption, FS_Subset, FS_CardinalityType
<1>11. /\ Cardinality(Taken(x) \cup {o}) = Cardinality(Taken(x)) + 1
       /\ Cardinality(Restored(x) \cup {o}) = Cardinality(Restored(x)) + 1
  BY <1>8, <1>10, FS_AddElement
<1>12. ASSUME \A s \in Sales : x \in moved[s] => s \notin cut
       PROVE  level'[x] = Opening - Cardinality(Taken(x)') + Cardinality(Restored(x)')
  <2>1. level[x] = Opening - Cardinality(Taken(x)) + Cardinality(Restored(x))
    BY <1>2, <1>12 DEF LevelInv, Levels
  <2>2. Opening \in Int /\ Delta(op[c].of) = IF op[c].of = None THEN -1 ELSE 1
    BY NumbersAssumption DEF Delta
  <2>3. CASE op[c].of = None
    BY <1>7, <1>9, <1>10, <1>11, <2>1, <2>2, <2>3
  <2>4. CASE op[c].of # None
    BY <1>7, <1>9, <1>10, <1>11, <2>1, <2>2, <2>4
  <2> QED BY <2>3, <2>4
<1> QED BY <1>1, <1>6, <1>8, <1>12 DEF LevelInv, Levels

LEMMA NextLevels == LevelInv /\ [Next]_vars => LevelInv'
<1> SUFFICES ASSUME LevelInv, [Next]_vars PROVE Levels'
  BY NextLedger DEF LevelInv
<1>0. LedgerInv /\ op \in [Clerks -> Recordings] /\ TicketTypes
  BY IdsAssumption DEF LevelInv, LedgerInv, AccountInv, NumInv, TypeInv, TicketTypes
<1>1. ASSUME NEW c \in Clerks, Recording(c) PROVE Levels'
  <2>0. op[c] \in Recordings /\ Busy(op[c])
    BY <1>0, ClerkFacts
  <2>1. CASE ReadSequence(c) \/ InsertRefused(c) \/ ReadBalance(c) \/ CreditRefused(c) \/ ChargeSale(c)
               \/ StatementFails(c)
    <3>1. /\ UNCHANGED <<sale, level, moved>> /\ cut \subseteq cut'
          /\ op[c].step # "level" \/ op[c].sale \in cut'
      BY <2>0, <2>1 DEF ReadSequence, InsertRefused, ReadBalance, CreditRefused, ChargeSale,
                        StatementFails, tables, ghosts, Busy
    <3>2. op'[c].step # "level" /\ \A d \in Clerks : d # c => op'[d] = op[d]
      BY <1>0, <2>0, <2>1, IdleAccounts
         DEF ReadSequence, InsertRefused, ReadBalance, CreditRefused, ChargeSale, StatementFails, Set,
             Recordings
    <3> QED BY <3>1, <3>2, LevelStep
  <2>2. CASE \E s \in Sales : InsertSale(c, s)
    <3>1. PICK s \in Sales : InsertSale(c, s)
      BY <2>2
    <3>2. /\ UNCHANGED <<level, moved, cut>> /\ op[c].step # "level"
          /\ \A u \in Sales : Recorded(u) => sale'[u] = sale[u]
      BY <1>0, <3>1 DEF InsertSale, ghosts, TicketTypes
    <3>3. op'[c].step # "level" /\ \A d \in Clerks : d # c => op'[d] = op[d]
      BY <1>0, <2>0, <3>1 DEF InsertSale, Set, Recordings
    <3> QED BY <3>2, <3>3, LevelStep
  <2>3. CASE InsertItem(c)
    <3>1. UNCHANGED <<sale, level, moved, cut>> /\ op[c].step # "level"
      BY <2>3 DEF InsertItem, ghosts
    <3>2. op'[c].step # "level" /\ \A d \in Clerks : d # c => op'[d] = op[d]
      BY <1>0, <2>0, <2>3 DEF InsertItem, Set, Recordings
    <3> QED BY <3>1, <3>2, LevelStep
  <2>4. CASE InsertPayment(c)
    <3> DEFINE left == [op[c] EXCEPT !.due = @ \ {First(op[c].due)}]
               r == IF op[c].due = {First(op[c].due)} THEN AfterPayments(left) ELSE left
    <3>1. UNCHANGED <<sale, level, moved, cut>> /\ op[c].step = "payments" /\ Set(c, r)
      BY <2>4 DEF InsertPayment, CashMoves
    <3>2. left \in Recordings /\ left.step = "payments"
      BY <2>0, <3>1 DEF Recordings
    <3> HIDE DEF left
    <3>3. r.step # "level"
      BY <3>2, AfterPaymentsKeeps, IdleAccounts
    <3> HIDE DEF r
    <3>4. op'[c].step # "level" /\ \A d \in Clerks : d # c => op'[d] = op[d]
      BY <1>0, <3>1, <3>3 DEF Set
    <3> QED BY <3>1, <3>4, LevelStep
  <2>5. CASE \E cart \in Carts : \E pay \in Splits(cart) : RecordCheck(c, cart, pay)
    <3>1. UNCHANGED <<sale, level, moved, cut>> /\ op[c].step # "level"
      BY <2>5, IdleAccounts DEF RecordCheck, tables, ghosts
    <3>2. op'[c].step # "level" /\ \A d \in Clerks : d # c => op'[d] = op[d]
      BY <1>0, <2>5 DEF RecordCheck, Set, Idle
    <3> QED BY <3>1, <3>2, LevelStep
  <2> QED BY <1>1, <2>1, <2>2, <2>3, <2>4, <2>5, MovementLevels, MoveLevels DEF Recording
<1>2. ASSUME NEW s \in Sales, RefundCheck(s) PROVE Levels'
  <2>1. /\ UNCHANGED <<sale, level, moved, cut>> /\ op[History].step # "level" /\ History \in Clerks
    BY <1>2, IdleAccounts DEF RefundCheck, tables, ghosts, Clerks
  <2>2. op'[History].step # "level" /\ \A d \in Clerks : d # History => op'[d] = op[d]
    BY <1>0, <1>2, <2>1 DEF RefundCheck, Set, Idle
  <2> QED BY <2>1, <2>2, LevelStep
<1>3. ASSUME NEW s \in Sales, NEW p \in Products, Arrive(s, p) PROVE Levels'
  <2>1. UNCHANGED <<level, moved, cut, op>> /\ \A u \in Sales : Recorded(u) => sale'[u] = sale[u]
    BY <1>0, <1>3 DEF Arrive, ghosts, TicketTypes
  <2>2. \A u, q : Moving(u, q)' <=> Moving(u, q)
    BY <2>1 DEF Moving
  <2> QED BY <2>1, <2>2, LevelStays
<1>4. CASE Crash
  <2>1. /\ UNCHANGED <<sale, level, moved>> /\ \A c \in Clerks : op'[c] = Idle
        /\ cut' = cut \cup ({op[c].sale : c \in Clerks} \ {None})
    BY <1>4 DEF Crash, tables
  <2>2. \A s \in Sales, p \in Products : s \notin cut' => ~Moving(s, p)' /\ ~Moving(s, p)
    BY <2>1, IdleAccounts, IdsAssumption DEF Moving
  <2> QED BY <2>1, <2>2, LevelStays
<1>5. CASE ArriveMisfit \/ TicketsStay \/ UNCHANGED vars
  <2>1. UNCHANGED <<sale, level, moved, cut, op>>
    BY <1>5 DEF ArriveMisfit, TicketsStay, vars, tables, ghosts
  <2>2. \A u, q : Moving(u, q)' <=> Moving(u, q)
    BY <2>1 DEF Moving
  <2> QED BY <2>1, <2>2, LevelStays
<1> QED BY <1>1, <1>2, <1>3, <1>4, <1>5, DrawerLeavesTickets DEF Next

\* The level of an article is what its movements leave, unless a sale that moved it was cut off,
\* whatever other screens sell or take back between the movement and the level
\* (decrementStock, restoreStock).
THEOREM LevelFollowsMovesCorrect == Spec => []LevelFollowsMoves
<1>1. ASSUME LevelInv PROVE LevelFollowsMoves
  <2> SUFFICES ASSUME NEW p \in Products, \A s \in Sales : p \in moved[s] => s \notin cut,
                      \A c \in Clerks : op[c].step = "level" => op[c].item # p
               PROVE  level[p] = Opening - Cardinality({s \in Sales : p \in moved[s] /\ sale[s].of = None})
                                         + Cardinality({s \in Sales : p \in moved[s] /\ sale[s].of # None})
    BY DEF LevelFollowsMoves
  <2>1. \A s \in Sales : ~Moving(s, p)
    BY DEF Moving
  <2>2. /\ Taken(p) = {s \in Sales : p \in moved[s] /\ sale[s].of = None}
        /\ Restored(p) = {s \in Sales : p \in moved[s] /\ sale[s].of # None}
    BY <2>1 DEF Taken, Restored
  <2> QED BY <1>1, <2>2 DEF LevelInv, Levels
<1> QED BY <1>1, InitLevels, NextLevels, PTL DEF Spec

-----------------------------------------------------------------------------
(* The drawer.                                                             *)

TillTypes == LedgerInv /\ DrawerTypes

CashOf(k) == SumFunctionOnSet([s \in TicketsOf(k) |-> paid[s]["cash"]], TicketsOf(k))

LEMMA CentsType ==
  ASSUME TicketTypes, DrawerTypes, NEW k \in Sessions
  PROVE  /\ ExpectedCents(k) = session[k].collected + CashOf(k)
         /\ CashOf(k) \in Int /\ ExpectedCents(k) \in Int /\ session[k].collected \in Int
         /\ IsFiniteSet(TicketsOf(k)) /\ \A s \in Sales : paid[s]["cash"] \in Int
<1> DEFINE f == [s \in TicketsOf(k) |-> paid[s]["cash"]]
<1>1. TicketsOf(k) \in SUBSET Sales /\ IsFiniteSet(TicketsOf(k))
  BY SetsAssumption, FS_Subset DEF TicketsOf
<1>2. \A s \in Sales : paid[s]["cash"] \in Int
  BY MethodsAssumption DEF TicketTypes, Owed
<1>3. \A s \in TicketsOf(k) : f[s] \in Int
  BY <1>1, <1>2
<1>4. SumFunction(f) = CashOf(k)
  BY DEF SumFunction, CashOf
<1> HIDE DEF f
<1>5. SumFunctionOnSet(f, TicketsOf(k)) \in Int
  BY <1>1, <1>3, SumType
<1>6. session[k].collected \in Int
  BY DEF DrawerTypes, SessionRows
<1> QED BY <1>1, <1>2, <1>4, <1>5, <1>6 DEF ExpectedCents, f, CashOf

\* The open session, if there is one.
LEMMA OpenOne == OpenSessionId # None => OpenSessionId \in Sessions /\ session[OpenSessionId].status = "open"
BY DEF OpenSessionId

LEMMA CashMovesType ==
  ASSUME DrawerTypes, NEW amount \in Int, NEW account \in Sessions \cup {None}, NEW back,
         CashMoves(amount, account, back)
  PROVE  drawer' \in [Sessions -> Int] /\ overlapped' \subseteq Sessions /\ returned' \subseteq Sessions
<1> PICK k : k = OpenSessionId
  OBVIOUS
<1>1. k \in Sessions \cup {None}
  BY OpenSessionType
<1>2. drawer' = IF k = None THEN drawer ELSE [drawer EXCEPT ![k] = @ + amount]
  BY DEF CashMoves
<1>3. drawer' \in [Sessions -> Int]
  <2>1. \A l \in Sessions : drawer[l] \in Int /\ drawer[l] + amount \in Int
    BY DEF DrawerTypes
  <2>2. drawer \in [Sessions -> Int]
    BY DEF DrawerTypes
  <2>3. k # None => drawer' = [drawer EXCEPT ![k] = drawer[k] + amount]
    BY <1>2
  <2> QED BY <1>1, <1>2, <2>1, <2>2, <2>3
<1>4. closing.session \in Sessions \cup {None}
  BY DEF DrawerTypes, Closings
<1>5. overlapped' \subseteq Sessions /\ returned' \subseteq Sessions
  BY <1>1, <1>4 DEF CashMoves, DrawerTypes
<1> QED BY <1>3, <1>5

LEMMA InitDrawerTypes == Init => DrawerTypes
<1> SUFFICES ASSUME Init PROVE DrawerTypes
  OBVIOUS
<1>1. session \in [Sessions -> SessionRows] /\ drawer \in [Sessions -> Int]
  BY DEF Init, SessionRows
<1>2. closing \in Closings /\ settling \in Settlings
  BY MethodsAssumption DEF Init, Closings, Settlings, NoClosing, NoSettling
<1> QED BY <1>1, <1>2, NumbersAssumption DEF Init, DrawerTypes

\* A payment's cash, and the session of its ticket.
LEMMA PaymentCash ==
  ASSUME TicketTypes, NEW c \in Clerks, InsertPayment(c)
  PROVE  /\ op[c].pay["cash"] \in Int /\ op[c].session \in Sessions \cup {None}
         /\ CashMoves(IF First(op[c].due) = "cash" THEN op[c].pay["cash"] ELSE 0,
                      op[c].session, op[c].of # None)
<1>1. op[c] \in Recordings
  BY DEF TicketTypes
<1>2. op[c].pay["cash"] \in Int /\ op[c].session \in Sessions \cup {None}
  BY <1>1, MethodsAssumption DEF Recordings, Owed
<1>3. First(op[c].due) = "cash" => op[c].pay[First(op[c].due)] = op[c].pay["cash"]
  OBVIOUS
<1> QED BY <1>2, <1>3 DEF InsertPayment

LEMMA NextDrawerTypes ==
  ASSUME TicketTypes, DrawerTypes, [Next]_vars
  PROVE  DrawerTypes'
<1>1. CASE UNCHANGED <<session, settled, closing, settling, drawer, overlapped, returned>>
             /\ begun' \in 0..MaxBegun /\ faults' \in 0..MaxFaults
  BY <1>1 DEF DrawerTypes
<1>2. Begin => begun' \in 0..MaxBegun
  BY NumbersAssumption DEF Begin, DrawerTypes
<1>3. faults < MaxFaults => faults + 1 \in 0..MaxFaults
  BY NumbersAssumption DEF DrawerTypes
<1>4. begun \in 0..MaxBegun /\ faults \in 0..MaxFaults
  BY DEF DrawerTypes
<1>5. ASSUME NEW c \in Clerks, Recording(c) PROVE DrawerTypes'
  <2>1. CASE InsertPayment(c)
    <3> DEFINE a == IF First(op[c].due) = "cash" THEN op[c].pay["cash"] ELSE 0
    <3>1. a \in Int /\ op[c].session \in Sessions \cup {None} /\ CashMoves(a, op[c].session, op[c].of # None)
      BY <2>1, PaymentCash
    <3> HIDE DEF a
    <3>2. drawer' \in [Sessions -> Int] /\ overlapped' \subseteq Sessions /\ returned' \subseteq Sessions
      BY <3>1, CashMovesType
    <3>3. UNCHANGED <<settled, session, closing, settling, begun, faults>>
      BY <2>1 DEF InsertPayment
    <3> QED BY <3>2, <3>3 DEF DrawerTypes
  <2>2. CASE \E cart \in Carts : \E pay \in Splits(cart) : RecordCheck(c, cart, pay)
    BY <1>1, <1>2, <1>4, <2>2 DEF RecordCheck, tables, ghosts
  <2>3. CASE StatementFails(c)
    BY <1>1, <1>3, <1>4, <2>3 DEF StatementFails, tables
  <2>4. CASE ReadSequence(c) \/ InsertRefused(c) \/ ReadBalance(c) \/ CreditRefused(c)
    BY <1>1, <1>4, <2>4 DEF ReadSequence, InsertRefused, ReadBalance, CreditRefused, tables, ghosts
  <2>5. CASE ChargeSale(c) \/ (\E s \in Sales : InsertSale(c, s)) \/ InsertItem(c) \/ InsertMovement(c)
               \/ MoveLevel(c)
    BY <1>1, <1>4, <2>5 DEF ChargeSale, InsertSale, InsertItem, InsertMovement, MoveLevel, ghosts
  <2> QED BY <1>5, <2>1, <2>2, <2>3, <2>4, <2>5 DEF Recording
<1>6. ASSUME NEW s \in Sales, RefundCheck(s) PROVE DrawerTypes'
  BY <1>1, <1>2, <1>4, <1>6 DEF RefundCheck, tables, ghosts
<1>7. ASSUME NEW s \in Sales, NEW p \in Products, Arrive(s, p) PROVE DrawerTypes'
  BY <1>1, <1>4, <1>7 DEF Arrive, ghosts
<1>8. ASSUME NEW k \in Sessions, OpenSession(k) PROVE DrawerTypes'
  <2>1. session' = [session EXCEPT ![k].status = "open"]
          /\ UNCHANGED <<settled, closing, settling, begun, faults, ghosts>>
    BY <1>8 DEF OpenSession
  <2>2. session' \in [Sessions -> SessionRows]
    BY <2>1 DEF DrawerTypes, SessionRows
  <2> QED BY <2>1, <2>2 DEF DrawerTypes, ghosts
<1>9. ASSUME NEW k \in Sessions, CloseRead(k) PROVE DrawerTypes'
  <2>1. closing' = [session |-> k, expected |-> ExpectedCents(k)] /\ ExpectedCents(k) \in Int
    BY <1>9, CentsType DEF CloseRead
  <2>2. closing' \in Closings
    BY <2>1 DEF Closings
  <2> QED BY <1>2, <1>4, <1>9, <2>2 DEF CloseRead, DrawerTypes, tables, ghosts
<1>10. CASE CloseWrite
  <2>1. /\ session' = [session EXCEPT ![closing.session].status = "closed",
                                      ![closing.session].expected = closing.expected]
        /\ closing' = NoClosing /\ UNCHANGED <<settled, settling, begun, faults, ghosts>>
    BY <1>10 DEF CloseWrite
  <2>2. closing.session \in Sessions /\ closing.expected \in Int
    BY <1>10 DEF CloseWrite, DrawerTypes, Closings
  <2>3. session' \in [Sessions -> SessionRows]
    BY <2>1, <2>2 DEF DrawerTypes, SessionRows
  <2>4. NoClosing \in Closings
    BY DEF NoClosing, Closings
  <2> QED BY <2>1, <2>3, <2>4 DEF DrawerTypes, ghosts
<1>11. CASE SettleWrite
  <2> DEFINE cash == IF settling.method = "cash" THEN settling.amount ELSE 0
  <2>0. cash \in Int /\ settling.session \in Sessions \cup {None} /\ settling.amount \in Nat
    BY DEF DrawerTypes, Settlings
  <2>1. /\ settled' = settled + settling.amount
        /\ session' = IF settling.session = None THEN session
                      ELSE [session EXCEPT ![settling.session].collected = @ + cash]
        /\ CashMoves(cash, settling.session, FALSE)
        /\ settling' = NoSettling
        /\ UNCHANGED <<closing, begun, faults>>
    BY <1>11 DEF SettleWrite
  <2> HIDE DEF cash
  <2>2. drawer' \in [Sessions -> Int] /\ overlapped' \subseteq Sessions /\ returned' \subseteq Sessions
    BY <2>0, <2>1, CashMovesType
  <2>3. session' \in [Sessions -> SessionRows]
    BY <2>0, <2>1 DEF DrawerTypes, SessionRows
  <2>4. NoSettling \in Settlings /\ settled' \in Nat
    BY <2>0, <2>1, MethodsAssumption DEF NoSettling, Settlings, DrawerTypes
  <2> QED BY <2>1, <2>2, <2>3, <2>4 DEF DrawerTypes
<1>12. ASSUME NEW amount \in 1..MaxSettled, NEW method \in Methods \ {"credit"}, SettleRead(amount, method)
       PROVE  DrawerTypes'
  <2>1. settling' = [amount |-> amount, method |-> method, session |-> OpenSessionId] /\ amount \in Nat
    BY <1>12, NumbersAssumption DEF SettleRead
  <2>2. settling' \in Settlings
    BY <2>1, OpenSessionType DEF Settlings
  <2> QED BY <1>2, <1>4, <1>12, <2>2 DEF SettleRead, DrawerTypes, tables, ghosts
<1>13. CASE ArriveMisfit \/ UNCHANGED vars
  BY <1>1, <1>4, <1>13 DEF ArriveMisfit, vars, tables, ghosts
<1>14. CASE Crash
  <2>1. NoClosing \in Closings /\ NoSettling \in Settlings
    BY MethodsAssumption DEF NoClosing, Closings, NoSettling, Settlings
  <2> QED BY <1>3, <1>4, <1>14, <2>1 DEF Crash, DrawerTypes, tables
<1> QED BY <1>5, <1>6, <1>7, <1>8, <1>9, <1>10, <1>11, <1>12, <1>13, <1>14 DEF Next

-----------------------------------------------------------------------------
(* The account.  One panel at a time: what it was granted is still within  *)
(* the limit when it is charged, for payments only lower the balance.      *)

OnePanel == \A c, d \in Panels : c = d

Charges(c) ==
  /\ op[c].step # "idle" /\ op[c].of = None => c \in Panels
  /\ op[c].step \in {"credit", "charge"} => op[c].of = None
  /\ op[c].step = "charge" => Balance + op[c].pay["credit"] <= Limit

LimitInv == TillTypes /\ (\A c \in Clerks : Charges(c)) /\ WithinLimit

LEMMA BalanceType ==
  ASSUME TicketTypes, DrawerTypes
  PROVE  Balance = SumFunctionOnSet(charged, Sales) - settled /\ Balance \in Int
           /\ SumFunctionOnSet(charged, Sales) \in Int
<1>1. DOMAIN charged = Sales /\ \A s \in Sales : charged[s] \in Int
  BY DEF TicketTypes
<1>2. SumFunctionOnSet(charged, Sales) \in Int
  BY <1>1, SumType, SetsAssumption
<1>3. settled \in Int
  BY DEF DrawerTypes
<1> QED BY <1>1, <1>2, <1>3 DEF Balance, SumFunction

LEMMA LimitStays ==
  ASSUME LimitInv, charged' = charged, DrawerTypes', TicketTypes', settled <= settled',
         \A d \in Clerks :
           \/ op'[d] = op[d]
           \/ /\ op'[d].step # "idle" /\ op'[d].of = None => d \in Panels
              /\ op'[d].step \in {"credit", "charge"} => op'[d].of = None
              /\ op'[d].step = "charge" => Balance + op'[d].pay["credit"] <= Limit
  PROVE  (\A c \in Clerks : Charges(c)') /\ WithinLimit'
<1>0. TicketTypes /\ DrawerTypes /\ Limit \in Int
  BY NumbersAssumption DEF LimitInv, TillTypes, LedgerInv, AccountInv, NumInv, TypeInv
<1>1. Balance \in Int /\ Balance' \in Int /\ Balance' <= Balance
  <2>1. /\ Balance = SumFunctionOnSet(charged, Sales) - settled
        /\ Balance' = SumFunctionOnSet(charged, Sales) - settled'
        /\ SumFunctionOnSet(charged, Sales) \in Int
    <3>1. DOMAIN charged = Sales
      BY <1>0 DEF TicketTypes
    <3> QED BY <1>0, <3>1, BalanceType DEF Balance, SumFunction
  <2>2. settled \in Int /\ settled' \in Int
    BY <1>0 DEF DrawerTypes
  <2> QED BY <2>1, <2>2
<1>2. WithinLimit'
  BY <1>0, <1>1 DEF LimitInv, WithinLimit
<1>3. \A d \in Clerks : op'[d].pay["credit"] \in Int
  BY MethodsAssumption DEF TicketTypes, Recordings, Owed
<1>4. ASSUME NEW d \in Clerks PROVE Charges(d)'
  <2>1. op'[d].step = "charge" => Balance + op'[d].pay["credit"] <= Limit
    BY DEF LimitInv, Charges
  <2>2. op'[d].step = "charge" => Balance' + op'[d].pay["credit"] <= Limit
    BY <1>0, <1>1, <1>3, <2>1
  <2> QED BY <2>2 DEF LimitInv, Charges
<1> QED BY <1>2, <1>4

\* Another step of a recording than those at the account, or its end.
LEMMA LimitStep ==
  ASSUME LimitInv, charged' = charged, DrawerTypes', TicketTypes', settled' = settled,
         NEW c \in Clerks, \A d \in Clerks : d # c => op'[d] = op[d],
         op'[c] = Idle \/ (/\ op[c].step # "idle" /\ op'[c].of = op[c].of
                           /\ op'[c].step \notin {"credit", "charge"})
  PROVE  (\A d \in Clerks : Charges(d)') /\ WithinLimit'
<1>1. settled <= settled'
  BY DEF LimitInv, TillTypes, DrawerTypes
<1>2. /\ op'[c].step # "idle" /\ op'[c].of = None => c \in Panels
      /\ op'[c].step \notin {"credit", "charge"}
  BY IdleAccounts DEF LimitInv, Charges
<1> QED BY <1>1, <1>2, LimitStays

\* What follows the stock, or the payments.
LEMMA AfterStockOf ==
  ASSUME NEW o \in Recordings
  PROVE  AfterStock(o) = Idle
           \/ (AfterStock(o).of = None /\ o.of = None /\ AfterStock(o).step = "credit")
BY DEF AfterStock, Recordings

LEMMA AfterPaymentsOf ==
  ASSUME NEW o \in Recordings
  PROVE  \/ AfterPayments(o) = Idle
         \/ AfterPayments(o).of = None /\ o.of = None /\ AfterPayments(o).step = "credit"
         \/ AfterPayments(o).of = o.of /\ AfterPayments(o).step = "stock"
<1>1. CASE o.cart \cap Tracked = {}
  BY <1>1, AfterStockOf DEF AfterPayments
<1>2. CASE o.cart \cap Tracked # {}
  BY <1>2 DEF AfterPayments, Recordings
<1> QED BY <1>1, <1>2

LEMMA InitLimit == Init => LimitInv
<1> SUFFICES ASSUME Init PROVE (\A c \in Clerks : Charges(c)) /\ WithinLimit
  BY InitLedger, InitDrawerTypes DEF LimitInv, TillTypes
<1>1. \A c \in Clerks : Charges(c)
  BY IdleAccounts DEF Init, Charges
<1>2. charged = [s \in Sales |-> 0] /\ DOMAIN charged = Sales /\ settled = 0
  BY DEF Init
<1>3. SumFunctionOnSet(charged, Sales) = 0
  BY <1>2, SumZeros, SetsAssumption
<1> QED BY <1>1, <1>2, <1>3, NumbersAssumption DEF WithinLimit, Balance, SumFunction

LEMMA ChargeLimit ==
  ASSUME LimitInv, OnePanel, TicketTypes', DrawerTypes', NEW c \in Clerks, ChargeSale(c)
  PROVE  (\A d \in Clerks : Charges(d)') /\ WithinLimit'
<1>0. /\ TicketTypes /\ DrawerTypes /\ op[c] \in Recordings /\ Busy(op[c]) /\ op \in [Clerks -> Recordings]
      /\ Limit \in Int
  BY ClerkFacts, NumbersAssumption DEF LimitInv, TillTypes
<1> DEFINE a == op[c].pay["credit"]
<1>1. PICK s \in Sales : s = op[c].sale
  BY <1>0 DEF ChargeSale, Busy, Recordings
<1>2. /\ charged' = [charged EXCEPT ![s] = @ + a] /\ settled' = settled /\ op[c].step = "charge"
      /\ op'[c] = Idle /\ \A d \in Clerks : d # c => op'[d] = op[d]
  BY <1>0, <1>1 DEF ChargeSale, Set
<1>3. a \in Int /\ Balance + a <= Limit /\ c \in Panels
  BY <1>0, <1>2, MethodsAssumption DEF Recordings, Owed, LimitInv, Charges
<1> HIDE DEF a
<1>4. /\ \A u \in Sales : charged[u] \in Int /\ charged'[u] \in Int
      /\ charged'[s] = charged[s] + a /\ \A u \in Sales : u # s => charged'[u] = charged[u]
      /\ DOMAIN charged' = Sales /\ DOMAIN charged = Sales
  BY <1>0, <1>2 DEF TicketTypes
<1>5. SumFunctionOnSet(charged', Sales) = SumFunctionOnSet(charged, Sales) + charged'[s] - charged[s]
  BY <1>4, SumPut, SetsAssumption
<1>6. /\ Balance = SumFunctionOnSet(charged, Sales) - settled
      /\ Balance' = SumFunctionOnSet(charged', Sales) - settled
      /\ SumFunctionOnSet(charged, Sales) \in Int /\ settled \in Int /\ charged[s] \in Int
  BY <1>0, <1>2, <1>4, BalanceType DEF Balance, SumFunction, DrawerTypes
<1>7. Balance' = Balance + a
  BY <1>3, <1>4, <1>5, <1>6
<1>8. WithinLimit'
  BY <1>3, <1>7 DEF WithinLimit
<1>9. \A d \in Clerks : op'[d].step \notin {"charge"}
  BY <1>2, <1>3, IdleAccounts DEF LimitInv, Charges, OnePanel
<1>10. \A d \in Clerks : Charges(d)'
  BY <1>2, <1>9, IdleAccounts DEF LimitInv, Charges
<1> QED BY <1>8, <1>10

LEMMA NextLimit == OnePanel /\ LimitInv /\ [Next]_vars => LimitInv'
<1> SUFFICES ASSUME OnePanel, LimitInv, [Next]_vars
             PROVE  TillTypes' /\ (\A c \in Clerks : Charges(c)') /\ WithinLimit'
  BY DEF LimitInv
<1>0. LedgerInv /\ LedgerInv' /\ TicketTypes /\ TicketTypes' /\ DrawerTypes /\ op \in [Clerks -> Recordings]
  BY NextLedger DEF LimitInv, TillTypes, LedgerInv, AccountInv, NumInv, TypeInv, TicketTypes
<1>1. DrawerTypes' /\ TillTypes'
  BY <1>0, NextDrawerTypes DEF TillTypes
<1> DEFINE Goal == (\A c \in Clerks : Charges(c)') /\ WithinLimit'
<1>2. ASSUME NEW c \in Clerks, Recording(c) PROVE Goal
  <2>0. op[c] \in Recordings /\ Busy(op[c])
    BY <1>0, ClerkFacts
  <2>1. CASE ReadSequence(c) \/ InsertRefused(c) \/ CreditRefused(c) \/ StatementFails(c)
    <3>1. /\ UNCHANGED <<charged, settled>> /\ \A d \in Clerks : d # c => op'[d] = op[d]
          /\ op'[c] = Idle \/ (op[c].step # "idle" /\ op'[c].of = op[c].of /\ op'[c].step = "row")
      <4>1. CASE ReadSequence(c)
        BY <1>0, <2>0, <4>1 DEF ReadSequence, Set, Recordings, tables
      <4>2. CASE InsertRefused(c) \/ CreditRefused(c) \/ StatementFails(c)
        BY <1>0, <2>0, <4>2 DEF InsertRefused, CreditRefused, StatementFails, Set, tables
      <4> QED BY <2>1, <4>1, <4>2
    <3> QED BY <1>0, <1>1, <3>1, LimitStep
  <2>2. CASE (\E s \in Sales : InsertSale(c, s)) \/ InsertItem(c) \/ InsertMovement(c)
    <3>1. /\ UNCHANGED <<charged, settled>> /\ \A d \in Clerks : d # c => op'[d] = op[d]
          /\ op[c].step # "idle" /\ op'[c].of = op[c].of /\ op'[c].step \in {"items", "payments", "level"}
      <4>1. CASE \E s \in Sales : InsertSale(c, s)
        BY <1>0, <2>0, <4>1 DEF InsertSale, Set, Recordings
      <4>2. CASE InsertItem(c)
        BY <1>0, <2>0, <4>2 DEF InsertItem, Set, Recordings
      <4>3. CASE InsertMovement(c)
        BY <1>0, <2>0, <4>3 DEF InsertMovement, Set, Recordings
      <4> QED BY <2>2, <4>1, <4>2, <4>3
    <3> QED BY <1>0, <1>1, <3>1, LimitStep
  <2>3. CASE InsertPayment(c)
    <3> DEFINE left == [op[c] EXCEPT !.due = @ \ {First(op[c].due)}]
               r == IF op[c].due = {First(op[c].due)} THEN AfterPayments(left) ELSE left
    <3>1. UNCHANGED <<charged, settled>> /\ op[c].step = "payments" /\ Set(c, r)
      BY <2>3 DEF InsertPayment
    <3>2. left \in Recordings /\ left.step = "payments" /\ left.of = op[c].of
      BY <2>0, <3>1 DEF Recordings
    <3> HIDE DEF left
    <3>3. \/ r = Idle
          \/ r.of = op[c].of /\ r.step \in {"payments", "stock"}
          \/ r.of = None /\ op[c].of = None /\ r.step = "credit"
      BY <3>2, AfterPaymentsOf
    <3> HIDE DEF r
    <3>4. op'[c] = r /\ \A d \in Clerks : d # c => op'[d] = op[d]
      BY <1>0, <3>1 DEF Set
    <3>5. op[c].of = None => c \in Panels
      BY <3>1 DEF LimitInv, Charges
    <3>6. settled <= settled'
      BY <1>0, <3>1 DEF DrawerTypes
    <3> QED BY <1>0, <1>1, <3>1, <3>3, <3>4, <3>5, <3>6, IdleAccounts, LimitStays
  <2>4. CASE MoveLevel(c)
    <3> DEFINE left == [op[c] EXCEPT !.todo = @ \ {op[c].item}, !.step = "stock", !.item = None]
               r == IF op[c].todo = {op[c].item} THEN AfterStock(left) ELSE left
    <3>1. UNCHANGED <<charged, settled>> /\ op[c].step = "level" /\ Set(c, r)
      BY <2>4 DEF MoveLevel
    <3>2. left \in Recordings /\ left.step = "stock" /\ left.of = op[c].of
      BY <2>0 DEF Recordings, Steps
    <3> HIDE DEF left
    <3>3. \/ r = Idle
          \/ r.of = op[c].of /\ r.step = "stock"
          \/ r.of = None /\ op[c].of = None /\ r.step = "credit"
      BY <3>2, AfterStockOf
    <3> HIDE DEF r
    <3>4. op'[c] = r /\ \A d \in Clerks : d # c => op'[d] = op[d]
      BY <1>0, <3>1 DEF Set
    <3>5. op[c].of = None => c \in Panels
      BY <3>1 DEF LimitInv, Charges
    <3>6. settled <= settled'
      BY <1>0, <3>1 DEF DrawerTypes
    <3> QED BY <1>0, <1>1, <3>1, <3>3, <3>4, <3>5, <3>6, IdleAccounts, LimitStays
  <2>5. CASE ReadBalance(c)
    <3> DEFINE r == [op[c] EXCEPT !.step = "charge"]
    <3>1. /\ UNCHANGED <<charged, settled>> /\ op[c].step = "credit" /\ Set(c, r)
          /\ op[c].pay["credit"] <= Limit - Balance
      BY <2>5 DEF ReadBalance, CreditAllowed, tables
    <3>2. r.of = op[c].of /\ r.pay = op[c].pay
      BY <2>0 DEF Recordings
    <3> HIDE DEF r
    <3>3. op'[c] = r /\ \A d \in Clerks : d # c => op'[d] = op[d]
      BY <1>0, <3>1 DEF Set
    <3>4. op[c].of = None /\ c \in Panels
      BY <3>1 DEF LimitInv, Charges
    <3>5. Balance + op[c].pay["credit"] <= Limit
      BY <1>0, <2>0, <3>1, BalanceType, NumbersAssumption, MethodsAssumption DEF Recordings, Owed
    <3>6. settled <= settled'
      BY <1>0, <3>1 DEF DrawerTypes
    <3> QED BY <1>0, <1>1, <3>1, <3>2, <3>3, <3>4, <3>5, <3>6, LimitStays
  <2>6. CASE \E cart \in Carts : \E pay \in Splits(cart) : RecordCheck(c, cart, pay)
    <3>1. /\ UNCHANGED <<charged, settled>> /\ \A d \in Clerks : d # c => op'[d] = op[d]
          /\ c \in Panels /\ op'[c].step = "number"
      BY <1>0, <2>6 DEF RecordCheck, Set, Idle, tables
    <3>2. settled <= settled'
      BY <1>0, <3>1 DEF DrawerTypes
    <3> QED BY <1>0, <1>1, <3>1, <3>2, LimitStays
  <2>7. CASE ChargeSale(c)
    BY <1>0, <1>1, <2>7, ChargeLimit
  <2> QED BY <1>2, <2>1, <2>2, <2>3, <2>4, <2>5, <2>6, <2>7 DEF Recording
<1>3. ASSUME NEW s \in Sales, RefundCheck(s) PROVE Goal
  <2>1. /\ UNCHANGED <<charged, settled>> /\ History \in Clerks
        /\ \A d \in Clerks : d # History => op'[d] = op[d]
        /\ op'[History].step = "number" /\ op'[History].of = s /\ s # None
    BY <1>0, <1>3, IdsAssumption DEF RefundCheck, Set, Idle, tables, Clerks
  <2>2. settled <= settled'
    BY <1>0, <2>1 DEF DrawerTypes
  <2> QED BY <1>0, <1>1, <2>1, <2>2, LimitStays
<1>4. CASE Crash
  <2>1. UNCHANGED <<charged, settled>> /\ \A c \in Clerks : op'[c] = Idle
    BY <1>4 DEF Crash, tables
  <2>2. settled <= settled'
    BY <1>0, <2>1 DEF DrawerTypes
  <2> QED BY <1>0, <1>1, <2>1, <2>2, IdleAccounts, LimitStays
<1>5. CASE SettleWrite
  <2>1. UNCHANGED <<charged, op>> /\ settled' = settled + settling.amount
    BY <1>5 DEF SettleWrite
  <2>2. settled <= settled'
    BY <1>0, <2>1 DEF DrawerTypes, Settlings
  <2> QED BY <1>0, <1>1, <2>1, <2>2, LimitStays
<1>6. CASE UNCHANGED <<charged, op, settled>>
  <2>1. settled <= settled'
    BY <1>0, <1>6 DEF DrawerTypes
  <2> QED BY <1>0, <1>1, <1>6, <2>1, LimitStays
<1>7. ASSUME \/ \E s \in Sales, p \in Products : Arrive(s, p)
             \/ \E k \in Sessions : OpenSession(k) \/ CloseRead(k)
             \/ CloseWrite \/ ArriveMisfit \/ UNCHANGED vars
             \/ \E amount \in 1..MaxSettled, method \in Methods \ {"credit"} : SettleRead(amount, method)
      PROVE  Goal
  BY <1>6, <1>7 DEF Arrive, OpenSession, CloseRead, CloseWrite, ArriveMisfit, SettleRead, vars, tables
<1> HIDE DEF Goal
<1>8. Goal
  BY <1>2, <1>3, <1>4, <1>5, <1>7 DEF Next, Goal
<1> QED BY <1>1, <1>8 DEF Goal

-----------------------------------------------------------------------------
(* What the drawer holds.  As long as a session is not closed its tickets  *)
(* and its accounts' payments add up to its cash, unless cash moved during *)
(* its closing or for another session's ticket.                            *)

\* The session being closed is open; what a screen or a ticket names has been opened.
Known ==
  /\ \A k, l \in Sessions : session[k].status = "open" /\ session[l].status = "open" => k = l
  /\ closing.session # None => session[closing.session].status = "open"
  /\ settling.session # None => session[settling.session].status # "none"
  /\ \A c \in Clerks : op[c].session # None => session[op[c].session].status # "none"
  /\ \A s \in Sales : sale[s].session # None => session[sale[s].session].status # "none"

Kept(k) ==
  k \notin overlapped \cup returned =>
    /\ session[k].status # "closed" => ExpectedCents(k) = drawer[k]
    /\ closing.session = k => closing.expected = drawer[k]
    /\ session[k].status = "closed" => session[k].expected = drawer[k]

DrawerInv == TillTypes /\ Known /\ \A k \in Sessions : Kept(k)

LEMMA DrawerFacts ==
  ASSUME DrawerInv
  PROVE  /\ TicketTypes /\ DrawerTypes /\ LedgerInv /\ Tickets /\ op \in [Clerks -> Recordings]
         /\ \A c \in Clerks : op[c].session \in Sessions \cup {None} /\ op[c].of \in Sales \cup {None}
         /\ \A s \in Sales : sale[s].session \in Sessions \cup {None}
         /\ closing.session \in Sessions \cup {None} /\ settling.session \in Sessions \cup {None}
<1>1. TicketTypes /\ DrawerTypes /\ LedgerInv /\ Tickets
  BY DEF DrawerInv, TillTypes, LedgerInv, Ledger, AccountInv, NumInv, TypeInv
<1>2. op \in [Clerks -> Recordings] /\ sale \in [Sales -> SaleRows]
  BY <1>1 DEF TicketTypes
<1> QED BY <1>1, <1>2 DEF Recordings, SaleRows, DrawerTypes, Closings, Settlings

\* A session's cash, when its tickets and their cash are the same.
LEMMA CentsStay ==
  ASSUME TicketTypes, DrawerTypes, TicketTypes', DrawerTypes', NEW k \in Sessions,
         TicketsOf(k)' = TicketsOf(k), session'[k].collected = session[k].collected,
         \A s \in TicketsOf(k) : paid'[s]["cash"] = paid[s]["cash"]
  PROVE  ExpectedCents(k)' = ExpectedCents(k)
<1>1. [s \in TicketsOf(k) |-> paid[s]["cash"]]' = [s \in TicketsOf(k) |-> paid[s]["cash"]]
  OBVIOUS
<1>2. CashOf(k)' = CashOf(k)
  BY <1>1 DEF CashOf
<1>3. /\ ExpectedCents(k) = session[k].collected + CashOf(k)
      /\ ExpectedCents(k)' = session'[k].collected + CashOf(k)'
  <2>1. ExpectedCents(k)' = session'[k].collected + CashOf(k)'
    BY DEF ExpectedCents, CashOf, SumFunction
  <2> QED BY <2>1, CentsType
<1> QED BY <1>2, <1>3

\* A ticket that brings no cash.
LEMMA CentsOfNewRow ==
  ASSUME TicketTypes, DrawerTypes, TicketTypes', DrawerTypes', NEW s \in Sales, NEW k \in Sessions,
         ~Recorded(s), UNCHANGED session,
         \A u \in Sales : u # s => sale'[u] = sale[u] /\ paid'[u] = paid[u],
         sale'[s].session = k => paid'[s]["cash"] = 0
  PROVE  ExpectedCents(k)' = ExpectedCents(k)
<1>1. \A u \in Sales : u # s => (u \in TicketsOf(k)' <=> u \in TicketsOf(k))
  BY DEF TicketsOf, Recorded
<1>2. s \notin TicketsOf(k) /\ TicketsOf(k) \subseteq Sales /\ TicketsOf(k)' \subseteq Sales
  BY DEF TicketsOf
<1>3. CASE s \notin TicketsOf(k)'
  <2>1. TicketsOf(k)' = TicketsOf(k)
    BY <1>1, <1>2, <1>3
  <2> QED BY <1>2, <2>1, CentsStay
<1>4. CASE s \in TicketsOf(k)'
  <2> DEFINE T == TicketsOf(k)
             f == [u \in T |-> paid[u]["cash"]]
             g == [u \in T \cup {s} |-> paid'[u]["cash"]]
  <2>1. TicketsOf(k)' = T \cup {s} /\ paid'[s]["cash"] = 0
    BY <1>1, <1>2, <1>4 DEF TicketsOf
  <2>2. IsFiniteSet(T) /\ (\A u \in T : f[u] \in Int /\ g[u] = f[u] /\ g[u] \in Int) /\ g[s] = 0
    BY <1>2, <2>1, CentsType
  <2>3. CashOf(k) = SumFunctionOnSet(f, T) /\ CashOf(k)' = SumFunctionOnSet(g, T \cup {s})
    BY <2>1 DEF CashOf
  <2>4. s \notin T
    BY <1>2
  <2> HIDE DEF f, g, T
  <2>5. SumFunctionOnSet(g, T \cup {s}) = g[s] + SumFunctionOnSet(g, T)
    BY <2>2, <2>4, SumAdd
  <2>6. SumFunctionOnSet(f, T) = SumFunctionOnSet(g, T) /\ SumFunctionOnSet(g, T) \in Int
    BY <2>2, SumSame, SumType
  <2>7. CashOf(k)' = CashOf(k)
    BY <2>2, <2>3, <2>5, <2>6
  <2>8. ExpectedCents(k)' = session'[k].collected + CashOf(k)'
    BY DEF ExpectedCents, CashOf, SumFunction
  <2> QED BY <2>7, <2>8, CentsType
<1> QED BY <1>3, <1>4

\* A payment.
LEMMA CentsOfPayment ==
  ASSUME TicketTypes, DrawerTypes, TicketTypes', DrawerTypes', NEW s \in Sales, NEW k \in Sessions,
         Recorded(s), UNCHANGED <<session, sale>>,
         \A u \in Sales : u # s => paid'[u] = paid[u]
  PROVE  ExpectedCents(k)' =
           ExpectedCents(k) + (IF sale[s].session = k THEN paid'[s]["cash"] - paid[s]["cash"] ELSE 0)
<1> DEFINE T == TicketsOf(k)
           f == [u \in T |-> paid[u]["cash"]]
           g == [u \in T |-> paid'[u]["cash"]]
<1>1. TicketsOf(k)' = T /\ T \subseteq Sales
  BY DEF TicketsOf, Recorded
<1>2. CASE sale[s].session # k
  <2>1. s \notin T
    BY <1>2 DEF TicketsOf
  <2>2. ExpectedCents(k)' = ExpectedCents(k)
    BY <1>1, <2>1, CentsStay
  <2> QED BY <1>2, <2>2, CentsType
<1>3. CASE sale[s].session = k
  <2>1. s \in T
    BY <1>3 DEF TicketsOf
  <2>2. /\ IsFiniteSet(T) /\ (\A u \in T : f[u] \in Int /\ g[u] \in Int)
        /\ (\A u \in T : u # s => g[u] = f[u]) /\ g[s] = paid'[s]["cash"] /\ f[s] = paid[s]["cash"]
    <3>1. \A u \in Sales : paid'[u]["cash"] \in Int
      BY MethodsAssumption DEF TicketTypes, Owed
    <3> QED BY <1>1, <2>1, <3>1, CentsType
  <2>3. CashOf(k) = SumFunctionOnSet(f, T) /\ CashOf(k)' = SumFunctionOnSet(g, T)
    BY <1>1 DEF CashOf
  <2> HIDE DEF f, g, T
  <2>4. SumFunctionOnSet(g, T) = SumFunctionOnSet(f, T) + g[s] - f[s]
    BY <2>1, <2>2, SumPut
  <2>5. ExpectedCents(k)' = session[k].collected + CashOf(k)'
    BY DEF ExpectedCents, CashOf, SumFunction
  <2>6. f[s] \in Int /\ g[s] \in Int
    BY <2>1, <2>2
  <2> QED BY <1>3, <2>2, <2>3, <2>4, <2>5, <2>6, CentsType
<1> QED BY <1>2, <1>3

\* Cash that goes into the drawer, and that a session's tickets or accounts show.
LEMMA CashKept ==
  ASSUME DrawerInv, NEW a \in Int, NEW account \in Sessions \cup {None}, NEW back \in BOOLEAN,
         CashMoves(a, account, back), closing' = closing,
         \A l \in Sessions : session'[l].status = session[l].status
                               /\ session'[l].expected = session[l].expected,
         \A l \in Sessions : ExpectedCents(l)' = ExpectedCents(l) + (IF l = account THEN a ELSE 0),
         account # None => session[account].status # "none"
  PROVE  \A l \in Sessions : Kept(l)'
<1> SUFFICES ASSUME NEW l \in Sessions, l \notin overlapped' \cup returned'
             PROVE  /\ session'[l].status # "closed" => ExpectedCents(l)' = drawer'[l]
                    /\ closing'.session = l => closing'.expected = drawer'[l]
                    /\ session'[l].status = "closed" => session'[l].expected = drawer'[l]
  BY DEF Kept
<1> PICK k : k = OpenSessionId
  OBVIOUS
<1>0. TicketTypes /\ DrawerTypes
  BY DrawerFacts
<1>1. /\ drawer' = IF k = None THEN drawer ELSE [drawer EXCEPT ![k] = @ + a]
      /\ overlapped' = overlapped \cup
          ((IF a = 0 THEN {} ELSE {closing.session}
              \cup IF account # k /\ ~back THEN {k, account} ELSE {}) \ {None})
      /\ returned' = returned \cup (IF a # 0 /\ account # k /\ back THEN {k} \ {None} ELSE {})
  BY DEF CashMoves
<1>2. k # None => k \in Sessions /\ session[k].status = "open"
  BY OpenOne
<1>3. \A m \in Sessions : session[m].status = "open" => k # None /\ k = m
  <2> SUFFICES ASSUME NEW m \in Sessions, session[m].status = "open" PROVE k # None /\ k = m
    OBVIOUS
  <2>1. k # None
    BY IdsAssumption DEF OpenSessionId
  <2> QED BY <1>2, <2>1 DEF DrawerInv, Known
<1>4. l # None /\ l \notin overlapped \cup returned /\ drawer[l] \in Int /\ ExpectedCents(l) \in Int
        /\ session[l].status \in {"none", "open", "closed"}
  BY <1>0, <1>1, IdsAssumption, CentsType DEF DrawerTypes, SessionRows
<1>5. Kept(l)
  BY DEF DrawerInv
<1>6. drawer'[l] = drawer[l] + (IF l = k THEN a ELSE 0)
  BY <1>0, <1>1, <1>2, <1>4 DEF DrawerTypes
<1>7. CASE a = 0
  BY <1>4, <1>5, <1>6, <1>7 DEF Kept
<1>8. CASE a # 0 /\ l = k
  <2>1. account = k /\ closing.session # l /\ session[l].status = "open"
    BY <1>1, <1>2, <1>4, <1>8
  <2> QED BY <1>4, <1>5, <1>6, <1>8, <2>1 DEF Kept
<1>9. CASE a # 0 /\ l # k
  <2>1. closing.session # l /\ drawer'[l] = drawer[l] /\ session[l].status # "open"
    BY <1>1, <1>3, <1>4, <1>6, <1>9
  <2>2. session[l].status # "closed" => account # l
    BY <1>4, <2>1
  <2> QED BY <1>4, <1>5, <2>1, <2>2 DEF Kept
<1> QED BY <1>7, <1>8, <1>9

\* A step that moves no cash and neither opens nor closes a session.
LEMMA DrawerStays ==
  ASSUME DrawerInv, UNCHANGED <<session, drawer, overlapped, returned>>,
         closing' = closing \/ closing'.session = None,
         settling'.session # None => session[settling'.session].status # "none",
         \A k \in Sessions : ExpectedCents(k)' = ExpectedCents(k),
         \A c \in Clerks : op'[c].session # None => session[op'[c].session].status # "none",
         \A s \in Sales : sale'[s].session # None => session[sale'[s].session].status # "none"
  PROVE  Known' /\ \A k \in Sessions : Kept(k)'
<1>1. Known'
  BY DEF DrawerInv, Known
<1>2. ASSUME NEW k \in Sessions PROVE Kept(k)'
  BY IdsAssumption DEF DrawerInv, Kept
<1> QED BY <1>1, <1>2

LEMMA InitDrawer == Init => DrawerInv
<1> SUFFICES ASSUME Init PROVE Known /\ \A k \in Sessions : Kept(k)
  BY InitLedger, InitDrawerTypes DEF DrawerInv, TillTypes
<1>1. Known
  BY DEF Init, Known, NoClosing, NoSettling, Idle, NoRow
<1>2. ASSUME NEW k \in Sessions PROVE ExpectedCents(k) = 0 /\ drawer[k] = 0
  <2>1. TicketsOf(k) = {}
    BY DEF Init, TicketsOf, Recorded, NoRow
  <2>2. SumFunctionOnSet([s \in {} |-> paid[s]["cash"]], {}) = 0
    BY SumEmpty
  <2> QED BY <2>1, <2>2 DEF ExpectedCents, SumFunction, Init
<1>3. ASSUME NEW k \in Sessions PROVE Kept(k)
  BY <1>2, IdsAssumption DEF Kept, Init, NoClosing
<1> QED BY <1>1, <1>3

LEMMA PaymentDrawer ==
  ASSUME DrawerInv, TicketTypes', DrawerTypes', NEW c \in Clerks, InsertPayment(c)
  PROVE  Known' /\ \A k \in Sessions : Kept(k)'
<1> DEFINE m == First(op[c].due)
           left == [op[c] EXCEPT !.due = @ \ {m}]
           r == IF op[c].due = {m} THEN AfterPayments(left) ELSE left
           a == IF m = "cash" THEN op[c].pay["cash"] ELSE 0
<1>0. /\ TicketTypes /\ DrawerTypes /\ op[c] \in Recordings /\ op \in [Clerks -> Recordings] /\ Done(c)
      /\ Follows(c) /\ Busy(op[c])
  BY DrawerFacts, ClerkFacts
<1>1. PICK s \in Sales : s = op[c].sale
  BY <1>0 DEF InsertPayment, Busy, Recordings
<1>2. /\ op[c].step = "payments" /\ Set(c, r) /\ UNCHANGED <<sale, session, closing, settling>>
      /\ paid' = [paid EXCEPT ![s] = [@ EXCEPT ![m] = op[c].pay[m]]]
      /\ a \in Int /\ op[c].session \in Sessions \cup {None} /\ CashMoves(a, op[c].session, op[c].of # None)
  <2>1. a \in Int /\ op[c].session \in Sessions \cup {None} /\ CashMoves(a, op[c].session, op[c].of # None)
    BY <1>0, PaymentCash
  <2> HIDE DEF a
  <2>2. /\ op[c].step = "payments" /\ Set(c, r) /\ UNCHANGED <<sale, session, closing, settling>>
        /\ paid' = [paid EXCEPT ![op[c].sale] = [@ EXCEPT ![m] = op[c].pay[m]]]
    BY DEF InsertPayment
  <2> QED BY <1>1, <2>1, <2>2
<1>3. /\ m \in op[c].due /\ m \in Methods /\ Recorded(s) /\ s # None /\ sale[s].session = op[c].session
      /\ paid[s] = [n \in Methods |-> IF n \in op[c].due THEN 0 ELSE op[c].pay[n]]
      /\ op[c].pay["cash"] \in Int /\ "cash" \in Methods
  BY <1>0, <1>1, <1>2, FirstIn, IdsAssumption, MethodsAssumption DEF Done, Follows, Recordings, Owed
<1>4. (\A u \in Sales : u # s => paid'[u] = paid[u]) /\ paid'[s] = [paid[s] EXCEPT ![m] = op[c].pay[m]]
  BY <1>0, <1>2 DEF TicketTypes
<1> HIDE DEF m
<1>5. paid'[s]["cash"] - paid[s]["cash"] = a
  BY <1>3, <1>4
<1>6. r.session \in {op[c].session, None}
  <2>1. left \in Recordings /\ left.session = op[c].session
    BY <1>0 DEF Recordings
  <2> HIDE DEF left
  <2>2. AfterPayments(left).session \in {left.session, None}
    BY <2>1, AfterPaymentsKeeps DEF Same, Idle
  <2> QED BY <2>1, <2>2
<1> HIDE DEF r, a
<1>7. op'[c] = r /\ \A d \in Clerks : d # c => op'[d] = op[d]
  BY <1>0, <1>2 DEF Set
<1>8. PICK account \in Sessions \cup {None}, amount \in Int :
        account = op[c].session /\ amount = a
  BY <1>2
<1>9. \A l \in Sessions : ExpectedCents(l)' = ExpectedCents(l) + (IF l = account THEN amount ELSE 0)
  BY <1>0, <1>2, <1>3, <1>4, <1>5, <1>8, CentsOfPayment
<1>10. account # None => session[account].status # "none"
  BY <1>8 DEF DrawerInv, Known
<1>11. CashMoves(amount, account, op[c].of # None)
  BY <1>2, <1>8
<1>12. PICK back \in BOOLEAN : back = (op[c].of # None)
  OBVIOUS
<1>13. CashMoves(amount, account, back)
  BY <1>11, <1>12
<1>14. \A l \in Sessions : Kept(l)'
  BY <1>2, <1>9, <1>10, <1>13, CashKept
<1>15. Known'
  BY <1>2, <1>6, <1>7 DEF DrawerInv, Known
<1> QED BY <1>14, <1>15

\* A step that writes neither a ticket nor a payment.
LEMMA CentsFrame ==
  ASSUME DrawerInv, UNCHANGED <<sale, paid>>, NEW k \in Sessions,
         session'[k].collected = session[k].collected, TicketTypes', DrawerTypes'
  PROVE  ExpectedCents(k)' = ExpectedCents(k)
<1>1. TicketsOf(k)' = TicketsOf(k)
  BY DEF TicketsOf, Recorded
<1> QED BY <1>1, DrawerFacts, CentsStay

\* A screen goes on with the session it knows, or with the open one.
LEMMA ScreenDrawer ==
  ASSUME DrawerInv, TicketTypes', DrawerTypes', NEW c \in Clerks,
         UNCHANGED <<sale, paid, session, closing, settling, drawer, overlapped, returned>>,
         \A d \in Clerks : d # c => op'[d] = op[d],
         \/ op'[c].session \in {None, op[c].session, OpenSessionId}
         \/ \E s \in Sales : op'[c].session = sale[s].session
  PROVE  Known' /\ \A k \in Sessions : Kept(k)'
<1>1. OpenSessionId # None => session[OpenSessionId].status # "none"
  BY OpenOne
<1>2. \A d \in Clerks : op'[d].session # None => session[op'[d].session].status # "none"
  BY <1>1 DEF DrawerInv, Known
<1>3. \A k \in Sessions : ExpectedCents(k)' = ExpectedCents(k)
  BY CentsFrame
<1>4. \A s \in Sales : sale'[s].session # None => session[sale'[s].session].status # "none"
  BY DEF DrawerInv, Known
<1>5. settling'.session # None => session[settling'.session].status # "none"
  BY DEF DrawerInv, Known
<1> QED BY <1>2, <1>3, <1>4, <1>5, DrawerStays

LEMMA RecordingDrawer ==
  ASSUME DrawerInv, TicketTypes', DrawerTypes', NEW c \in Clerks, Recording(c)
  PROVE  Known' /\ \A k \in Sessions : Kept(k)'
<1> DEFINE Goal == Known' /\ \A k \in Sessions : Kept(k)'
<1>0. /\ TicketTypes /\ DrawerTypes /\ op[c] \in Recordings /\ op \in [Clerks -> Recordings]
      /\ Idle.session = None /\ Tickets /\ NumInv /\ Done(c)
  BY DrawerFacts, ClerkFacts DEF Idle
<1>1. CASE ReadSequence(c) \/ InsertRefused(c) \/ ReadBalance(c) \/ CreditRefused(c) \/ StatementFails(c)
  <2>1. /\ UNCHANGED <<sale, paid, session, closing, settling, drawer, overlapped, returned>>
        /\ \A d \in Clerks : d # c => op'[d] = op[d]
    BY <1>0, <1>1 DEF ReadSequence, InsertRefused, ReadBalance, CreditRefused, StatementFails, Set,
                      tables, ghosts
  <2>2. op'[c].session \in {None, op[c].session, OpenSessionId}
    <3>1. InsertRefused(c) \/ CreditRefused(c) \/ StatementFails(c) => op'[c] = Idle
      BY <1>0 DEF InsertRefused, CreditRefused, StatementFails, Set
    <3>2. ReadSequence(c) => op'[c].session \in {op[c].session, OpenSessionId}
      BY <1>0 DEF ReadSequence, Set, Recordings
    <3>3. ReadBalance(c) => op'[c].session = op[c].session
      BY <1>0 DEF ReadBalance, Set, Recordings
    <3> QED BY <1>0, <1>1, <3>1, <3>2, <3>3
  <2> QED BY <2>1, <2>2, ScreenDrawer
<1>2. CASE ChargeSale(c) \/ InsertItem(c) \/ InsertMovement(c) \/ MoveLevel(c)
  <2>1. /\ UNCHANGED <<sale, paid, session, closing, settling, drawer, overlapped, returned>>
        /\ \A d \in Clerks : d # c => op'[d] = op[d]
    BY <1>0, <1>2 DEF ChargeSale, InsertItem, InsertMovement, MoveLevel, Set, ghosts
  <2>2. ChargeSale(c) => op'[c].session = None
    BY <1>0 DEF ChargeSale, Set
  <2>3. InsertItem(c) => op'[c].session = op[c].session
    BY <1>0 DEF InsertItem, Set, Recordings
  <2>4. InsertMovement(c) => op'[c].session = op[c].session
    BY <1>0 DEF InsertMovement, Set, Recordings
  <2>5. ASSUME MoveLevel(c) PROVE op'[c].session \in {None, op[c].session}
    <3> DEFINE left == [op[c] EXCEPT !.todo = @ \ {op[c].item}, !.step = "stock", !.item = None]
    <3>1. left \in Recordings /\ left.session = op[c].session
      BY <1>0 DEF Recordings, Steps
    <3>2. op'[c] = IF op[c].todo = {op[c].item} THEN AfterStock(left) ELSE left
      BY <1>0, <2>5 DEF MoveLevel, Set
    <3> HIDE DEF left
    <3>3. AfterStock(left).session \in {None, left.session}
      BY <1>0, <3>1, AfterStockKeeps DEF Same
    <3> QED BY <3>1, <3>2, <3>3
  <2>6. op'[c].session \in {None, op[c].session}
    BY <1>2, <2>2, <2>3, <2>4, <2>5
  <2> QED BY <2>1, <2>6, ScreenDrawer
<1>3. CASE \E s \in Sales : InsertSale(c, s)
  <2>1. PICK s \in Sales : InsertSale(c, s)
    BY <1>3
  <2> DEFINE r == [op[c] EXCEPT !.step = "items", !.sale = s]
  <2>2. /\ ~Recorded(s) /\ Set(c, r)
        /\ UNCHANGED <<paid, session, closing, settling, drawer, overlapped, returned>>
    BY <2>1 DEF InsertSale, ghosts
  <2>3. sale'[s].session = op[c].session /\ \A u \in Sales : u # s => sale'[u] = sale[u]
    BY <1>0, <2>1 DEF InsertSale, TicketTypes
  <2>4. r.session = op[c].session
    BY <1>0 DEF Recordings
  <2> HIDE DEF r
  <2>5. op'[c] = r /\ \A d \in Clerks : d # c => op'[d] = op[d]
    BY <1>0, <2>2 DEF Set
  <2>6. paid[s]["cash"] = 0
    BY <1>0, <2>2, MethodsAssumption DEF Tickets, Unwritten, Nothing
  <2>7. \A k \in Sessions : ExpectedCents(k)' = ExpectedCents(k)
    BY <1>0, <2>2, <2>3, <2>6, CentsOfNewRow
  <2>8. \A d \in Clerks : op'[d].session # None => session[op'[d].session].status # "none"
    BY <2>4, <2>5 DEF DrawerInv, Known
  <2>9. \A u \in Sales : sale'[u].session # None => session[sale'[u].session].status # "none"
    BY <2>3 DEF DrawerInv, Known
  <2>10. settling.session # None => session[settling.session].status # "none"
    BY DEF DrawerInv, Known
  <2> QED BY <2>2, <2>7, <2>8, <2>9, <2>10, DrawerStays
<1>4. CASE \E cart \in Carts : \E pay \in Splits(cart) : RecordCheck(c, cart, pay)
  <2>1. /\ UNCHANGED <<sale, paid, session, closing, settling, drawer, overlapped, returned>>
        /\ \A d \in Clerks : d # c => op'[d] = op[d]
        /\ op'[c].session = None
    BY <1>0, <1>4 DEF RecordCheck, Set, Idle, tables, ghosts
  <2> QED BY <2>1, ScreenDrawer
<1> QED BY <1>1, <1>2, <1>3, <1>4, PaymentDrawer DEF Recording

LEMMA NextDrawer == DrawerInv /\ [Next]_vars => DrawerInv'
<1> SUFFICES ASSUME DrawerInv, [Next]_vars
             PROVE  TillTypes' /\ Known' /\ \A k \in Sessions : Kept(k)'
  BY DEF DrawerInv
<1> DEFINE Goal == Known' /\ \A k \in Sessions : Kept(k)'
<1>0. LedgerInv' /\ TicketTypes' /\ TicketTypes /\ DrawerTypes /\ op \in [Clerks -> Recordings]
        /\ Idle.session = None /\ NoClosing.session = None /\ NoSettling.session = None
  BY DrawerFacts, NextLedger DEF LedgerInv, AccountInv, NumInv, TypeInv, Idle, NoClosing, NoSettling
<1>1. DrawerTypes' /\ TillTypes'
  BY <1>0, NextDrawerTypes DEF TillTypes
<1>2. ASSUME NEW c \in Clerks, Recording(c) PROVE Goal
  BY <1>0, <1>1, <1>2, RecordingDrawer
<1>3. ASSUME NEW s \in Sales, RefundCheck(s) PROVE Goal
  <2>1. /\ UNCHANGED <<sale, paid, session, closing, settling, drawer, overlapped, returned>>
        /\ History \in Clerks /\ \A d \in Clerks : d # History => op'[d] = op[d]
        /\ op'[History].session = sale[s].session
    BY <1>0, <1>3 DEF RefundCheck, Set, Idle, tables, ghosts, Clerks
  <2> QED BY <1>0, <1>1, <2>1, ScreenDrawer
<1>4. ASSUME NEW s \in Sales, NEW p \in Products, Arrive(s, p) PROVE Goal
  <2>1. /\ ~Recorded(s) /\ sale'[s].session = None
        /\ \A u \in Sales : u # s => sale'[u] = sale[u] /\ paid'[u] = paid[u]
        /\ UNCHANGED <<session, op, closing, settling, drawer, overlapped, returned>>
    BY <1>0, <1>4 DEF Arrive, TicketTypes, ghosts
  <2>2. \A k \in Sessions : ExpectedCents(k)' = ExpectedCents(k)
    BY <1>0, <1>1, <2>1, IdsAssumption, CentsOfNewRow
  <2>3. \A u \in Sales : sale'[u].session # None => session[sale'[u].session].status # "none"
    BY <2>1 DEF DrawerInv, Known
  <2>4. /\ \A d \in Clerks : op[d].session # None => session[op[d].session].status # "none"
        /\ settling.session # None => session[settling.session].status # "none"
    BY DEF DrawerInv, Known
  <2> QED BY <2>1, <2>2, <2>3, <2>4, DrawerStays
<1>5. ASSUME NEW k \in Sessions, OpenSession(k) PROVE Goal
  <2>1. /\ OpenSessionId = None /\ closing.session = None /\ session[k].status = "none"
        /\ session' = [session EXCEPT ![k].status = "open"]
        /\ UNCHANGED <<sale, paid, op, closing, settling, drawer, overlapped, returned>>
    BY <1>0, <1>5 DEF OpenSession, ghosts
  <2>2. \A l \in Sessions : session[l].status # "open"
    BY <2>1, IdsAssumption DEF OpenSessionId
  <2>3. /\ \A l \in Sessions : /\ session'[l].collected = session[l].collected
                               /\ session'[l].expected = session[l].expected
                               /\ session'[l].status = IF l = k THEN "open" ELSE session[l].status
    BY <1>0, <2>1 DEF DrawerTypes, SessionRows
  <2>4. \A l \in Sessions : ExpectedCents(l)' = ExpectedCents(l)
    BY <1>0, <1>1, <2>1, <2>3, CentsFrame
  <2>5. Known'
    BY <2>1, <2>2, <2>3, DrawerFacts DEF DrawerInv, Known
  <2>6. ASSUME NEW l \in Sessions PROVE Kept(l)'
    BY <2>1, <2>3, <2>4 DEF DrawerInv, Kept
  <2> QED BY <2>5, <2>6
<1>6. ASSUME NEW k \in Sessions, CloseRead(k) PROVE Goal
  <2>1. /\ OpenSessionId = k /\ closing' = [session |-> k, expected |-> ExpectedCents(k)]
        /\ UNCHANGED <<sale, paid, session, op, settling, drawer, overlapped, returned>>
    BY <1>6 DEF CloseRead, tables, ghosts
  <2>2. session[k].status = "open"
    BY <2>1, OpenOne, IdsAssumption
  <2>3. \A l \in Sessions : ExpectedCents(l)' = ExpectedCents(l)
    BY <1>0, <1>1, <2>1, CentsFrame
  <2>4. Known'
    BY <2>1, <2>2 DEF DrawerInv, Known
  <2>5. ASSUME NEW l \in Sessions PROVE Kept(l)'
    BY <2>1, <2>2, <2>3 DEF DrawerInv, Kept
  <2> QED BY <2>4, <2>5
<1>7. CASE CloseWrite
  <2>1. PICK k \in Sessions : k = closing.session
    BY <1>7, DrawerFacts DEF CloseWrite
  <2>2. /\ closing.session # None /\ closing'.session = None
        /\ session' = [session EXCEPT ![k].status = "closed", ![k].expected = closing.expected]
        /\ UNCHANGED <<sale, paid, op, settling, drawer, overlapped, returned>>
    BY <1>0, <1>7, <2>1 DEF CloseWrite, ghosts
  <2>3. \A l \in Sessions : /\ session'[l].collected = session[l].collected
                            /\ session'[l].expected = IF l = k THEN closing.expected ELSE session[l].expected
                            /\ session'[l].status = IF l = k THEN "closed" ELSE session[l].status
    BY <1>0, <2>2 DEF DrawerTypes, SessionRows
  <2>4. \A l \in Sessions : ExpectedCents(l)' = ExpectedCents(l)
    BY <1>0, <1>1, <2>2, <2>3, CentsFrame
  <2>5. Known'
    <3>1. \A l \in Sessions : session[l].status # "none" => session'[l].status # "none"
      BY <2>3
    <3>2. \A l, m \in Sessions : session'[l].status = "open" /\ session'[m].status = "open" => l = m
      BY <2>3 DEF DrawerInv, Known
    <3> QED BY <2>2, <3>1, <3>2, DrawerFacts DEF DrawerInv, Known
  <2>6. ASSUME NEW l \in Sessions PROVE Kept(l)'
    <3>1. closing'.session # l /\ overlapped' = overlapped /\ returned' = returned /\ drawer' = drawer
      BY <2>2, IdsAssumption
    <3>2. Kept(l)
      BY DEF DrawerInv
    <3>3. CASE l = k
      BY <2>1, <2>3, <3>1, <3>2, <3>3 DEF Kept
    <3>4. CASE l # k
      BY <2>3, <2>4, <3>1, <3>2, <3>4 DEF Kept
    <3> QED BY <3>3, <3>4
  <2> QED BY <1>1, <2>5, <2>6
<1>8. CASE SettleWrite
  <2> DEFINE cash == IF settling.method = "cash" THEN settling.amount ELSE 0
  <2>1. /\ session' = IF settling.session = None THEN session
                      ELSE [session EXCEPT ![settling.session].collected = @ + cash]
        /\ CashMoves(cash, settling.session, FALSE) /\ settling'.session = None
        /\ UNCHANGED <<sale, paid, op, closing>>
    BY <1>0, <1>8 DEF SettleWrite
  <2>2. PICK account \in Sessions \cup {None}, a \in Int : account = settling.session /\ a = cash
    BY <1>0 DEF DrawerTypes, Settlings
  <2>3. CashMoves(a, account, FALSE)
    BY <2>1, <2>2
  <2>4. session' = IF account = None THEN session ELSE [session EXCEPT ![account].collected = @ + a]
    BY <2>1, <2>2
  <2> HIDE DEF cash
  <2>5. \A l \in Sessions :
          /\ session'[l].collected = session[l].collected + (IF l = account THEN a ELSE 0)
          /\ session'[l].expected = session[l].expected
          /\ session'[l].status = session[l].status
    BY <1>0, <2>4, IdsAssumption DEF DrawerTypes, SessionRows
  <2>6. ASSUME NEW l \in Sessions
        PROVE  ExpectedCents(l)' = ExpectedCents(l) + (IF l = account THEN a ELSE 0)
    <3>1. [s \in TicketsOf(l) |-> paid[s]["cash"]]' = [s \in TicketsOf(l) |-> paid[s]["cash"]]
            /\ TicketsOf(l)' = TicketsOf(l)
      BY <2>1 DEF TicketsOf, Recorded
    <3>2. CashOf(l)' = CashOf(l)
      BY <3>1 DEF CashOf
    <3>3. ExpectedCents(l)' = session'[l].collected + CashOf(l)'
      BY DEF ExpectedCents, CashOf, SumFunction
    <3> QED BY <1>0, <2>5, <3>2, <3>3, CentsType
  <2>7. account # None => session[account].status # "none"
    BY <2>2 DEF DrawerInv, Known
  <2>8. \A l \in Sessions : Kept(l)'
    BY <2>1, <2>3, <2>5, <2>6, <2>7, CashKept
  <2>9. Known'
    BY <2>1, <2>5, DrawerFacts DEF DrawerInv, Known
  <2> QED BY <1>1, <2>8, <2>9
<1>9. ASSUME NEW amount \in 1..MaxSettled, NEW method \in Methods \ {"credit"}, SettleRead(amount, method)
      PROVE  Goal
  <2>1. /\ settling'.session = OpenSessionId
        /\ UNCHANGED <<sale, paid, session, op, closing, drawer, overlapped, returned>>
    BY <1>9 DEF SettleRead, tables, ghosts
  <2>2. settling'.session # None => session[settling'.session].status # "none"
    BY <2>1, OpenOne
  <2>3. \A l \in Sessions : ExpectedCents(l)' = ExpectedCents(l)
    BY <1>0, <1>1, <2>1, CentsFrame
  <2>4. /\ \A d \in Clerks : op'[d].session # None => session[op'[d].session].status # "none"
        /\ \A u \in Sales : sale'[u].session # None => session[sale'[u].session].status # "none"
    BY <2>1 DEF DrawerInv, Known
  <2> QED BY <2>1, <2>2, <2>3, <2>4, DrawerStays
<1>10. CASE ArriveMisfit \/ UNCHANGED vars \/ Crash
  <2>1. /\ UNCHANGED <<sale, paid, session, drawer, overlapped, returned>>
        /\ closing' = closing \/ closing'.session = None
        /\ settling' = settling \/ settling'.session = None
        /\ \A c \in Clerks : op'[c] = op[c] \/ op'[c].session = None
    BY <1>0, <1>10 DEF ArriveMisfit, Crash, vars, tables, ghosts
  <2>2. \A l \in Sessions : ExpectedCents(l)' = ExpectedCents(l)
    BY <1>0, <1>1, <2>1, CentsFrame
  <2>3. /\ \A d \in Clerks : op'[d].session # None => session[op'[d].session].status # "none"
        /\ \A u \in Sales : sale'[u].session # None => session[sale'[u].session].status # "none"
        /\ settling'.session # None => session[settling'.session].status # "none"
    BY <2>1 DEF DrawerInv, Known
  <2> QED BY <1>1, <2>1, <2>2, <2>3, DrawerStays
<1> HIDE DEF Goal
<1>11. ASSUME Goal PROVE TillTypes' /\ Known' /\ \A k \in Sessions : Kept(k)'
  BY <1>1, <1>11 DEF Goal
<1> QED BY <1>2, <1>3, <1>4, <1>5, <1>6, <1>7, <1>8, <1>9, <1>10, <1>11 DEF Next

\* The total frozen by a closing is the cash that went into the drawer during the session, when
\* no cash moved while it was closed and no ticket of another session was refunded in it, whatever
\* screens record, and whoever pays a debt, between the statements of the closing
\* (openSessionId, movementsOf, computeCashReport, settle).
THEOREM ExpectedIsDrawerCorrect == Spec => []ExpectedIsDrawer
<1>1. DrawerInv => ExpectedIsDrawer
  BY DEF DrawerInv, Kept, ExpectedIsDrawer
<1> QED BY <1>1, InitDrawer, NextDrawer, PTL DEF Spec

\* With one payment panel at a time what a customer owes stays within the limit, though the
\* balance is read before the sale is charged; and the tables agree with one another: stock with
\* its movements, refunds with the sales they refund (checkCredit, chargeSale, settle).
THEOREM TillHoldsCorrect == OnePanel => (Spec => []TillHolds)
<1> SUFFICES ASSUME OnePanel PROVE Spec => []TillHolds
  OBVIOUS
<1>1. LimitInv => TypeOK /\ WithinLimit /\ RefundedOnce
  BY DEF LimitInv, TillTypes, LedgerInv, Ledger, Tickets, AccountInv, NumInv, TypeInv, TypeOK
<1>2. Init => LimitInv
  BY InitLimit
<1>3. LimitInv /\ [Next]_vars => LimitInv'
  BY NextLimit
<1>4. TypeOK /\ WithinLimit /\ RefundedOnce /\ LevelFollowsMoves => TillHolds
  BY DEF TillHolds
<1>5. Spec => []LevelFollowsMoves
  BY LevelFollowsMovesCorrect
<1> QED BY <1>1, <1>2, <1>3, <1>4, <1>5, PTL DEF Spec
=============================================================================
