----------------------------- MODULE Purchasing -----------------------------
(***************************************************************************)
(* One delivery received on a till and the stock and cost of its article   *)
(* (purchasing.repository, stock.repository, ReceiptEditor, StockScreen,   *)
(* MaintenancePanel).  A statement is a step: `transaction' keeps nothing  *)
(* together, no button waits for what it began, and the engine writes the  *)
(* movements of other tills meanwhile.                                     *)
(***************************************************************************)
EXTENDS Integers, FiniteSetsExt, Functions

CONSTANTS
  Hands,      \* the operations under way at once
  Offers,     \* what a line may say: quantity, unit cost
  Deltas,     \* what a movement of another kind adds
  Counts,     \* what an inventory may find
  Costs,      \* the cost of the article at first, and those other tills send
  QtyScale,   \* QTY_SCALE
  MaxLines, MaxEvents  \* bounds

ASSUME PurchasingAssumption ==
  /\ Offers \subseteq [qty : Nat \ {0}, cost : Nat] /\ Deltas \subseteq Int \ {0}
  /\ Costs \subseteq Nat /\ Counts \subseteq Int /\ QtyScale \in Nat \ {0} /\ MaxLines \in Nat
  /\ IsFiniteSet(Hands) /\ IsFiniteSet(Offers) /\ IsFiniteSet(Costs)

VARIABLES
  receipt,  \* its status, total and lines
  stock,    \* the journal of the movements, added up, and the level beside it
  paid,     \* cost_cents of the article
  entered,  \* the movements written for each line
  sent,     \* what the outbox holds of the receipt: itself (0) and its lines
  hand,     \* what each operation has left to do
  events,   \* edits, movements of another kind, counts, pulls, rebuildings, deaths so far
  torn      \* what a death or two operations at once may have left apart

purchaseVars == <<receipt, stock, paid, entered, sent, hand, events, torn>>

Lines == 1..MaxLines
NoLines == [l \in {} |-> 0]
Free == [op |-> "none"]
Hand(op, at) == [op |-> op, at |-> at, lines |-> NoLines, left |-> {}, value |-> 0, clean |-> TRUE]

PurchaseInit ==
  /\ receipt = [status |-> "none", total |-> 0, lines |-> NoLines]
  /\ stock = [journal |-> 0, level |-> 0] /\ paid \in Costs
  /\ entered = [l \in Lines |-> 0] /\ sent = {}
  /\ hand = [h \in Hands |-> Free]
  /\ events = 0 /\ torn = {}

Event == events < MaxEvents /\ events' = events + 1
Begins(h, op, at, value) ==
  hand[h] = Free /\ hand' = [hand EXCEPT ![h] = [Hand(op, at) EXCEPT !.value = value]]
At(h, at) == hand[h].op # "none" /\ hand[h].at = at
Turns(h, at) == hand' = [hand EXCEPT ![h].at = at]
Frees(h) == hand' = [hand EXCEPT ![h] = Free]

\* Math.round of a / b
Rounded(a, b) == (2 * a + b) \div (2 * b)

\* receiptLineTotal, receiptTotal
LineTotal(line) == Rounded(line.qty * line.cost, QtyScale)
ReceiptTotal(lines) == SumFunction([l \in DOMAIN lines |-> LineTotal(lines[l])])

\* weightedAverageCost
AverageCost(now, cost, incoming) ==
  IF now <= 0 \/ cost <= 0 THEN incoming.cost
  ELSE Rounded(now * cost + incoming.qty * incoming.cost, now + incoming.qty)

----------------------------------------------------------------------------
\* The receipt, while it is a draft (createReceipt, addLine, removeLine).
\* A line keeps its number for ever: it is its identifier.

Editing == {h \in Hands : hand[h].op \in {"add", "remove"}}
Receiving == {h \in Hands : hand[h].op = "receive"}
Crossed == torn \cup IF Editing \cup Receiving # {} THEN {"edited"} ELSE {}

CreateReceipt ==
  /\ receipt.status = "none" /\ receipt' = [receipt EXCEPT !.status = "draft"]
  /\ UNCHANGED <<stock, paid, entered, sent, hand, events, torn>>

BeginAdd(h, offer) ==
  /\ Event /\ receipt.status = "draft" /\ hand[h] = Free
  /\ \E l \in Lines :
       /\ l \notin DOMAIN receipt.lines /\ entered[l] = 0
       /\ \A g \in Editing : l \notin DOMAIN hand[g].lines
       /\ hand' = [hand EXCEPT ![h] = [Hand("add", "write") EXCEPT !.lines = [x \in {l} |-> offer]]]
  /\ torn' = Crossed
  /\ UNCHANGED <<receipt, stock, paid, entered, sent>>

BeginRemove(h, l) ==
  /\ Event /\ receipt.status = "draft" /\ l \in DOMAIN receipt.lines /\ hand[h] = Free
  /\ hand' = [hand EXCEPT ![h] = [Hand("remove", "write") EXCEPT !.value = l]]
  /\ torn' = Crossed
  /\ UNCHANGED <<receipt, stock, paid, entered, sent>>

Joined(lines, more) ==
  [l \in DOMAIN lines \cup DOMAIN more |-> IF l \in DOMAIN lines THEN lines[l] ELSE more[l]]

WriteLine(h) ==
  /\ At(h, "write") /\ hand[h].op = "add"
  /\ receipt' = [receipt EXCEPT !.lines = Joined(@, hand[h].lines)]
  /\ Turns(h, "items")
  /\ UNCHANGED <<stock, paid, entered, sent, events, torn>>

DeleteLine(h) ==
  /\ At(h, "write") /\ hand[h].op = "remove"
  /\ receipt' = [receipt EXCEPT !.lines = Restrict(@, DOMAIN @ \ {hand[h].value})]
  /\ Turns(h, "items")
  /\ UNCHANGED <<stock, paid, entered, sent, events, torn>>

\* refreshTotal: the lines are read, then the total is written.
AddUp(h) ==
  /\ At(h, "items") /\ h \in Editing
  /\ hand' = [hand EXCEPT ![h].at = "total", ![h].value = ReceiptTotal(receipt.lines)]
  /\ UNCHANGED <<receipt, stock, paid, entered, sent, events, torn>>

WriteTotal(h) ==
  /\ At(h, "total") /\ receipt' = [receipt EXCEPT !.total = hand[h].value]
  /\ Frees(h)
  /\ UNCHANGED <<stock, paid, entered, sent, events, torn>>

----------------------------------------------------------------------------
\* A movement: its row, then the level with, if it is this till's, its mutation
\* (recordMovement; apply and bumpStockLevel for another till's).

Moving(h) == hand[h].op \in {"receive", "move", "count"}

\* countToDelta
CountToDelta(counted, level) == counted - level

BeginMove(h, delta) ==
  /\ Event /\ Begins(h, "move", "insert", delta)
  /\ UNCHANGED <<receipt, stock, paid, entered, sent, torn>>

\* applyCount: what comes between this read and the movement stays counted.
BeginCount(h, counted) ==
  /\ CountToDelta(counted, stock.level) # 0
  /\ Event /\ Begins(h, "count", "insert", CountToDelta(counted, stock.level))
  /\ UNCHANGED <<receipt, stock, paid, entered, sent, torn>>

\* The line being received: by position.
Line(h) == Min(hand[h].left)
Delta(h) == IF hand[h].op = "receive" THEN hand[h].lines[Line(h)].qty ELSE hand[h].value

\* A rebuilding under way has read a sum that this movement changes, or will add again.
Soiled(h, next) ==
  [g \in Hands |-> IF g = h THEN next
                   ELSE IF hand[g].op = "rebuild" THEN [hand[g] EXCEPT !.clean = FALSE]
                   ELSE hand[g]]

InsertMovement(h) ==
  /\ At(h, "insert") /\ Moving(h)
  /\ stock' = [stock EXCEPT !.journal = @ + Delta(h)]
  /\ entered' = IF hand[h].op = "receive" THEN [entered EXCEPT ![Line(h)] = @ + 1] ELSE entered
  /\ hand' = Soiled(h, [hand[h] EXCEPT !.at = "level"])
  /\ UNCHANGED <<receipt, paid, sent, events, torn>>

AddToLevel(h) ==
  /\ At(h, "level") /\ Moving(h)
  /\ stock' = [stock EXCEPT !.level = @ + Delta(h)]
  /\ hand' = Soiled(h, IF hand[h].op = "receive" THEN [hand[h] EXCEPT !.at = "cost"] ELSE Free)
  /\ UNCHANGED <<receipt, paid, entered, sent, events, torn>>

Adding == {h \in Hands : Moving(h) /\ hand[h].at = "level"}
OnTheWay(h) == IF h \in Adding THEN Delta(h) ELSE 0

\* rebuildLevels: the sum, then the level written whole.
BeginRebuild(h) ==
  /\ Event /\ hand[h] = Free
  /\ hand' = [hand EXCEPT ![h] = [Hand("rebuild", "write") EXCEPT !.value = stock.journal,
                                                              !.clean = Adding = {}]]
  /\ UNCHANGED <<receipt, stock, paid, entered, sent, torn>>

WriteLevel(h) ==
  /\ At(h, "write") /\ hand[h].op = "rebuild"
  /\ stock' = [stock EXCEPT !.level = hand[h].value] /\ Frees(h)
  /\ torn' = IF hand[h].clean THEN torn \ {"level"} ELSE torn \cup {"level"}
  /\ UNCHANGED <<receipt, paid, entered, sent, events>>

----------------------------------------------------------------------------
\* The reception (receive, updateCost).

BeginReceive(h) ==
  /\ receipt.status = "draft" /\ Begins(h, "receive", "items", 0)
  /\ torn' = torn \cup (IF Editing # {} THEN {"edited"} ELSE {})
                  \cup (IF Receiving # {} THEN {"twice"} ELSE {})
  /\ UNCHANGED <<receipt, stock, paid, entered, sent, events>>

\* Seeded fault: the receipt is marked received before its lines are in stock.
ReadItemsReceived(h) ==
  /\ At(h, "items") /\ h \in Receiving /\ receipt.lines # NoLines
  /\ receipt' = [receipt EXCEPT !.status = "received"]
  /\ hand' = [hand EXCEPT ![h].lines = receipt.lines, ![h].at = "insert",
                          ![h].left = DOMAIN receipt.lines]
  /\ UNCHANGED <<stock, paid, entered, sent, events, torn>>

ReadItems(h) ==
  /\ At(h, "items") /\ h \in Receiving
  /\ IF receipt.lines = NoLines THEN Frees(h)
     ELSE hand' = [hand EXCEPT ![h].lines = receipt.lines, ![h].at = "insert",
                                 ![h].left = DOMAIN receipt.lines]
  /\ UNCHANGED <<receipt, stock, paid, entered, sent, events, torn>>

\* What follows a line: the next one, or the status, then the mutations.
LineDone(h, last) ==
  LET left == hand[h].left \ {Line(h)}
  IN  [hand EXCEPT ![h].left = IF left # {} THEN left ELSE DOMAIN hand[h].lines,
                   ![h].at = IF left # {} THEN "insert" ELSE last]

ReadCost(h) ==
  /\ At(h, "cost") /\ hand' = [hand EXCEPT ![h].value = paid, ![h].at = "average"]
  /\ UNCHANGED <<receipt, stock, paid, entered, sent, events, torn>>

\* The level is read: an unchanged cost is not written.
Average(h) ==
  /\ At(h, "average")
  /\ LET line == hand[h].lines[Line(h)]
         cost == AverageCost(stock.level - line.qty, hand[h].value, line)
     IN  IF cost = hand[h].value THEN hand' = LineDone(h, "status")
         ELSE hand' = [hand EXCEPT ![h].value = cost, ![h].at = "writeCost"]
  /\ UNCHANGED <<receipt, stock, paid, entered, sent, events, torn>>

\* With the mutation that tells of it
WriteCost(h) ==
  /\ At(h, "writeCost") /\ paid' = hand[h].value /\ hand' = LineDone(h, "status")
  /\ UNCHANGED <<receipt, stock, entered, sent, events, torn>>

WriteStatus(h) ==
  /\ At(h, "status") /\ receipt' = [receipt EXCEPT !.status = "received"]
  /\ Turns(h, "queue")
  /\ UNCHANGED <<stock, paid, entered, sent, events, torn>>

\* The receipt as it is read again, then its lines as they were read at first
EnqueueReceipt(h) ==
  /\ At(h, "queue")
  /\ sent' = sent \cup {0} /\ Turns(h, "queueLines")
  /\ UNCHANGED <<receipt, stock, paid, entered, events, torn>>

EnqueueLine(h) ==
  /\ At(h, "queueLines") /\ sent' = sent \cup {Line(h)}
  /\ IF hand[h].left = {Line(h)} THEN Frees(h)
     ELSE hand' = [hand EXCEPT ![h].left = @ \ {Line(h)}]
  /\ UNCHANGED <<receipt, stock, paid, entered, events, torn>>

----------------------------------------------------------------------------
\* The rest: another till's cost is pulled, the program dies.

PullCost(cost) ==
  /\ Event /\ paid' = cost
  /\ UNCHANGED <<receipt, stock, entered, sent, hand, torn>>

Die ==
  /\ Event
  /\ hand' = [h \in Hands |-> Free]
  /\ torn' = torn \cup (IF Adding # {} THEN {"level"} ELSE {})
                 \cup (IF Receiving # {} THEN {"twice"} ELSE {})
                 \cup (IF Editing # {} THEN {"edited"} ELSE {})
  /\ UNCHANGED <<receipt, stock, paid, entered, sent>>

PurchaseNext ==
  \/ CreateReceipt
  \/ \E h \in Hands :
       \/ \E offer \in Offers : BeginAdd(h, offer)
       \/ \E l \in Lines : BeginRemove(h, l)
       \/ WriteLine(h) \/ DeleteLine(h) \/ AddUp(h) \/ WriteTotal(h)
       \/ \E d \in Deltas : BeginMove(h, d)
       \/ \E counted \in Counts : BeginCount(h, counted)
       \/ InsertMovement(h) \/ AddToLevel(h)
       \/ BeginRebuild(h) \/ WriteLevel(h)
       \/ BeginReceive(h) \/ ReadItems(h) \/ ReadCost(h) \/ Average(h) \/ WriteCost(h)
       \/ WriteStatus(h) \/ EnqueueReceipt(h) \/ EnqueueLine(h)
  \/ \E cost \in Costs : PullCost(cost)
  \/ Die

----------------------------------------------------------------------------
\* Properties.

PurchaseTypeOK ==
  /\ receipt.status \in {"none", "draft", "received"} /\ receipt.total \in Nat
  /\ DOMAIN receipt.lines \subseteq Lines /\ Range(receipt.lines) \subseteq Offers
  /\ stock \in [journal : Int, level : Int] /\ paid \in Nat
  /\ entered \in [Lines -> Nat] /\ sent \subseteq Lines \cup {0}
  /\ \A h \in Hands : hand[h] = Free \/ hand[h].left \subseteq DOMAIN hand[h].lines
  /\ torn \subseteq {"level", "edited", "twice"}

\* The level is the sum of the journal, but for the movements on their way, whatever sales,
\* counts and pulls cross; a death or a rebuilding that a movement crosses takes it away,
\* and a rebuilding on its own gives it back (rebuildLevels).
LevelIsSum ==
  "level" \notin torn =>
    stock.journal = stock.level + SumFunction([h \in Hands |-> OnTheWay(h)])

\* Before the receipt is received nothing of it is in stock; once it is, every line has
\* entered once, the total is that of its lines and the outbox holds it whole, unless
\* two clicks, an edit under way or the program's death crossed the reception.
ReceivedOnce ==
  torn \cap {"twice", "edited"} = {} /\ Receiving \cup Editing = {} =>
    \/ /\ receipt.status = "received"
       /\ receipt.total = ReceiptTotal(receipt.lines)
       /\ sent = DOMAIN receipt.lines \cup {0}
       /\ \A l \in Lines : entered[l] = IF l \in DOMAIN receipt.lines THEN 1 ELSE 0
    \/ /\ receipt.status # "received" /\ sent = {}
       /\ \A l \in Lines : entered[l] = 0

\* Whatever dies and whoever clicks twice, a receipt that says it is received has every
\* line of it in stock.
ReceivedIsIn ==
  receipt.status = "received" /\ "edited" \notin torn =>
    \A l \in DOMAIN receipt.lines : entered[l] >= 1

\* The average never leaves the range of what was paid, however stale the cost and the
\* level it was computed from, and below zero too.
CostAmongPaid ==
  LET costs == Costs \cup {offer.cost : offer \in Offers}
  IN  paid \in Min(costs)..Max(costs)
\* Receipt, journal, level and cost tell the same story.
ShelvesAgree == PurchaseTypeOK /\ LevelIsSum /\ ReceivedOnce /\ ReceivedIsIn /\ CostAmongPaid
=============================================================================
