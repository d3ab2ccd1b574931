------------------------------ MODULE DayBooks ------------------------------
(***************************************************************************)
(* What one till tells of its day: the summary of a day's tickets, the     *)
(* report and the count of the drawer, the age of what customers owe       *)
(* (cash-session, history and customer.repository, CashSessionPanel,       *)
(* ReportsScreen, CustomersScreen, packages/shared reports, customers and  *)
(* denominations).  Rows also come from the other tills, late and dated by *)
(* their clocks.  Module TillSales takes the statements of a sale and of a *)
(* closing apart: here a sale is whole, or cut where a till may stop.      *)
(***************************************************************************)
EXTENDS Integers, FiniteSetsExt, Functions, Sequences, SequencesExt

CONSTANTS
  Pieces,      \* values of the notes and coins of the currency
  MostPieces,  \* bound: of one value in a count
  Floats,      \* amounts typed for the drawer
  Baskets,     \* what is sold: sequences of lines
  Debtors,     \* customers of the file
  Sums,        \* amounts charged, settled or brought over
  DayLength,   \* hours of a day
  Offset,      \* of local time on UTC, in hours
  LastInstant, MaxBooked  \* bounds: hours; tickets, movements, openings and closings

ASSUME BooksAssumption ==
  /\ Pieces \subseteq Nat \ {0} /\ IsFiniteSet(Pieces)
  /\ Floats \subseteq Nat /\ Sums \subseteq Nat \ {0} /\ MostPieces \in Nat
  /\ DayLength \in Nat \ {0} /\ Offset \in 0..(DayLength - 1) /\ LastInstant \in Nat
ASSUME BasketsAssumption ==
  \A b \in Baskets : /\ b \in Seq([product : STRING, rate : Nat, total : Nat, tax : Nat])
                     /\ \A i \in DOMAIN b : b[i].tax <= b[i].total

VARIABLES
  hours,     \* hours gone by, UTC
  tickets,   \* rows of sale with their items and payments, in the order they came
  drawers,   \* cash_session rows of this register
  ledger,    \* customer_movement rows
  accounts,  \* what has been written of each customer, and the debt typed for it
  shown,     \* the expected amount the drawer's panel last loaded, NoReport if none
  booked,    \* tickets, movements, openings and closings so far
  moved      \* cash has come or gone since the panel loaded

booksVars == <<hours, tickets, drawers, ledger, accounts, shown, booked, moved>>

NoReport == -1
NoCount == [v \in {} |-> 0]

\* Billetage.saisir keeps only the values that were found at least once.
DrawerCounts == UNION {[values -> 1..MostPieces] : values \in SUBSET Pieces}

CountTotal(count) == SumFunction([v \in DOMAIN count \cap Pieces |-> v * count[v]])
CountPieces(count) == SumFunction(count)
DenominationProblem(count) == \E v \in DOMAIN count : v \notin Pieces \/ count[v] < 0

\* verifyCount: an empty count is none; any other governs what was typed beside it.
Governing(typed, count) == IF CountPieces(count) = 0 THEN typed ELSE CountTotal(count)

\* current: the session open on this register, 0 when there is none
CurrentDrawer == Max({0} \cup {s \in DOMAIN drawers : drawers[s].status = "open"})

Worth(is) == SumFunction([i \in is |-> tickets[i].total])
TaxesOf(is) == SumFunction([i \in is |-> tickets[i].tax])
PaidCash(s) == {i \in DOMAIN tickets : tickets[i].session = s /\ tickets[i].method = "cash"}

\* cashCollectedOnAccounts
CollectedOnAccounts(s) ==
  SumFunction([m \in {m \in ledger : m.session = s /\ m.method = "cash" /\ m.amount < 0} |->
                 -m.amount])

\* computeCashReport: what was taken in cash, less what was given back, and the settlements
ExpectedInDrawer(s) == drawers[s].float + Worth(PaidCash(s)) + CollectedOnAccounts(s)

\* report(), for the panel
Report == IF CurrentDrawer = 0 THEN NoReport ELSE ExpectedInDrawer(CurrentDrawer)

-----------------------------------------------------------------------------
\* dayRange: the first and the last hour of a local day
DayRange(d) == [from |-> d * DayLength - Offset, to |-> (d + 1) * DayLength - Offset - 1]
BookDays == 0..((LastInstant + Offset) \div DayLength)
HourOf(t) == (t + Offset) % DayLength

\* salesOfDay
SalesOfDay(d) ==
  {i \in DOMAIN tickets : tickets[i].at \in DayRange(d).from..DayRange(d).to}

IsRefund(i) == tickets[i].of # 0 \/ tickets[i].total < 0
LinesOf(is) == UNION {{<<i, k>> : k \in DOMAIN tickets[i].lines} : i \in is}
LineAt(l) == tickets[l[1]].lines[l[2]]
\* Sums of an amount by the values of a key, two functions of the same rows.
Grouped(key, amount) ==
  [x \in Range(key) |-> SumFunctionOnSet(amount, {r \in DOMAIN key : key[r] = x})]

\* summarizeSales; groupPayments, groupTaxes, groupByHour, rankProducts
SummaryOf(is) ==
  LET refunds == {i \in is : IsRefund(i)}
      paid == {i \in is : tickets[i].method # "none"}
      lines == LinesOf(is)
      worth == [i \in is |-> tickets[i].total]
      rates == [l \in lines |-> LineAt(l).rate] IN
  [gross |-> Worth(is \ refunds),
   net |-> Worth(is \ refunds) + Worth(refunds),
   taxes |-> TaxesOf(is),
   byMethod |-> Grouped([i \in paid |-> tickets[i].method], worth),
   bases |-> Grouped(rates, [l \in lines |-> LineAt(l).total - LineAt(l).tax]),
   byRate |-> Grouped(rates, [l \in lines |-> LineAt(l).tax]),
   byHour |-> Grouped([i \in is |-> HourOf(tickets[i].at)], worth),
   byProduct |-> Grouped([l \in lines |-> LineAt(l).product],
                         [l \in lines |-> LineAt(l).total])]

\* refundedBySale
RefundedBySale(i) == -Worth({r \in DOMAIN tickets : tickets[r].of = i})

-----------------------------------------------------------------------------
MovementsOf(c) == {m \in ledger : m.customer = c}
BalanceOf(c) == SumFunction([m \in MovementsOf(c) |-> m.amount])

Journals(c) == [1..Cardinality(MovementsOf(c)) -> MovementsOf(c)]

\* Seeded: the journal walked in the order the rows are read, the newest first.
AsRead(c) ==
  CHOOSE journal \in Journals(c) : \A i, j \in DOMAIN journal : i < j => journal[i].at > journal[j].at

\* accountAgeDays: the sort
Ordered(c) ==
  CHOOSE journal \in Journals(c) : \A i, j \in DOMAIN journal : i < j => journal[i].at < journal[j].at

DaysSince(t) == Max({0, (hours - t) \div DayLength})

\* accountAgeDays: the movements are undone from the last one back, until nothing was owed.
AgeDays(c) ==
  LET journal == Ordered(c)
      amounts == [k \in DOMAIN journal |-> journal[k].amount]
      before(k) == BalanceOf(c) - SumFunctionOnSet(amounts, k..Len(journal))
  IN DaysSince(journal[Max({k \in DOMAIN journal : before(k) <= 0})].at)

\* withBalances: the debtors with the age of their debt
OpenAccounts ==
  {[customer |-> c, balance |-> BalanceOf(c), age |-> AgeDays(c)] :
     c \in {x \in Debtors : accounts[x].state # "none" /\ BalanceOf(x) > 0}}

-----------------------------------------------------------------------------
BooksInit ==
  /\ hours = 0 /\ tickets = <<>> /\ drawers = <<>> /\ ledger = {} /\ booked = 0
  /\ accounts = [c \in Debtors |-> [state |-> "none", brought |-> 0, at |-> 0]]
  /\ shown = NoReport /\ moved = FALSE

Books == booked < MaxBooked /\ booked' = booked + 1
Touches(s, method) == moved' = (moved \/ (s # 0 /\ s = CurrentDrawer /\ method = "cash"))

\* Time goes by.
Elapse ==
  /\ hours < LastInstant /\ hours' = hours + 1
  /\ UNCHANGED <<tickets, drawers, ledger, accounts, shown, booked, moved>>

\* computeTotals: taxes that the prices do not include are added to the total, not to the
\* lines.  `added' tells such a ticket.
Ticket(basket, added, method, session, at, of, here) ==
  LET tax == SumFunction([k \in DOMAIN basket |-> basket[k].tax])
      lines == SumFunction([k \in DOMAIN basket |-> basket[k].total]) IN
  [total |-> lines + (IF added THEN tax ELSE 0), tax |-> tax, added |-> added, lines |-> basket,
   method |-> method, session |-> session, at |-> at, of |-> of, here |-> here]

\* record, whole, or cut by the end of the program before the lines or the payments
RecordTicket(basket, added, method, cut) ==
  LET sold == Ticket(basket, added, method, CurrentDrawer, hours, 0, TRUE)
      kept == CASE cut = "bare" -> [sold EXCEPT !.lines = <<>>, !.method = "none"]
                [] cut = "unpaid" -> [sold EXCEPT !.method = "none"]
                [] OTHER -> sold
  IN /\ Books /\ tickets' = Append(tickets, kept)
     /\ Touches(CurrentDrawer, kept.method)
     /\ UNCHANGED <<hours, drawers, ledger, accounts, shown>>

\* buildRefund of a whole ticket: it bears the session of the ticket, wherever it is done, it
\* gives back what the lines add up to, and HistoryScreen gives it back by the first means of
\* payment, cash when there is none.  Another till, which refunds once, may not know of ours.
Negative(basket) == [k \in DOMAIN basket |->
  [basket[k] EXCEPT !.total = -basket[k].total, !.tax = -basket[k].tax]]
RefundTicket(i, at, here) ==
  LET ticket == tickets[i]
      method == IF ticket.method = "none" THEN "cash" ELSE ticket.method
  IN /\ Books /\ ticket.of = 0 /\ ticket.lines # <<>>
     /\ IF here
        THEN RefundedBySale(i) < ticket.total /\ at = hours
        ELSE \A r \in DOMAIN tickets : tickets[r].of = i => tickets[r].here
     /\ tickets' = Append(tickets,
          Ticket(Negative(ticket.lines), FALSE, method, ticket.session, at, i, here))
     /\ Touches(ticket.session, method)
     /\ UNCHANGED <<hours, drawers, ledger, accounts, shown>>

\* open, and the panel's reload after it
OpenDrawer(typed, count) ==
  /\ Books /\ CurrentDrawer = 0 /\ ~DenominationProblem(count)
  /\ drawers' = Append(drawers, [status |-> "open", float |-> Governing(typed, count),
       opening |-> count, expected |-> 0, counted |-> 0, difference |-> 0, closing |-> NoCount])
  /\ shown' = Governing(typed, count) /\ moved' = FALSE
  /\ UNCHANGED <<hours, tickets, ledger, accounts>>

\* close, and the panel's reload after it
CloseDrawer(typed, count) ==
  LET s == CurrentDrawer IN
  /\ Books /\ s # 0 /\ ~DenominationProblem(count)
  /\ drawers' = [drawers EXCEPT ![s].status = "closed", ![s].closing = count,
       ![s].expected = ExpectedInDrawer(s), ![s].counted = Governing(typed, count),
       ![s].difference = Governing(typed, count) - ExpectedInDrawer(s)]
  /\ shown' = NoReport /\ moved' = FALSE
  /\ UNCHANGED <<hours, tickets, ledger, accounts>>

\* The panel is mounted anew.
LoadPanel ==
  /\ shown' = Report /\ moved' = FALSE
  /\ UNCHANGED <<hours, tickets, drawers, ledger, accounts, booked>>

\* create: the row of the customer; what it owed before is a movement written after it
CreateDebtor(c, brought) ==
  /\ accounts[c].state = "none"
  /\ accounts' = [accounts EXCEPT ![c] =
       [state |-> IF brought = 0 THEN "here" ELSE "opening", brought |-> brought, at |-> hours]]
  /\ UNCHANGED <<hours, tickets, drawers, ledger, shown, booked, moved>>

Movement(c, amount, at, method, s) ==
  [customer |-> c, amount |-> amount, at |-> at, method |-> method, session |-> s]

WriteOpening(c) ==
  /\ accounts[c].state = "opening"
  /\ accounts' = [accounts EXCEPT ![c].state = "here"]
  /\ ledger' = ledger \cup {Movement(c, accounts[c].brought, accounts[c].at, "none", 0)}
  /\ UNCHANGED <<hours, tickets, drawers, shown, booked, moved>>

\* The program ends between the two: nothing writes the movement any more.
CutOpening(c) ==
  /\ accounts[c].state = "opening"
  /\ accounts' = [accounts EXCEPT ![c].state = "cut"]
  /\ UNCHANGED <<hours, tickets, drawers, ledger, shown, booked, moved>>

\* regler and settle here, in the session that is open; chargeSale and settle elsewhere, which
\* arrive with their own dates and sessions.  No customer is written about twice in one hour.
EnterMovement(c, amount, at, method, here) ==
  LET s == IF here /\ method # "none" THEN CurrentDrawer ELSE 0 IN
  /\ Books /\ accounts[c].state # "none"
  /\ IF here THEN at = hours ELSE method # "card"  \* elsewhere, any means does
  /\ method # "none" <=> amount < 0
  /\ \A m \in MovementsOf(c) : m.at # at
  /\ accounts[c].state = "opening" => accounts[c].at # at
  /\ ledger' = ledger \cup {Movement(c, amount, at, method, s)}
  /\ Touches(s, method)
  /\ UNCHANGED <<hours, tickets, drawers, accounts, shown>>

BooksNext ==
  \/ Elapse \/ LoadPanel
  \/ \E b \in Baskets, added \in BOOLEAN, m \in {"cash", "card"}, cut \in {"no", "unpaid", "bare"} :
       RecordTicket(b, added, m, cut)
  \/ \E i \in DOMAIN tickets, at \in 0..LastInstant, here \in BOOLEAN : RefundTicket(i, at, here)
  \/ \E typed \in Floats, count \in DrawerCounts :
       OpenDrawer(typed, count) \/ CloseDrawer(typed, count)
  \/ \E c \in Debtors :
       \/ \E brought \in Sums \cup {0} : CreateDebtor(c, brought)
       \/ WriteOpening(c) \/ CutOpening(c)
       \/ \E amount \in Sums, sign \in {1, -1}, at \in 0..LastInstant,
             method \in {"cash", "card", "none"}, here \in BOOLEAN :
            EnterMovement(c, sign * amount, at, method, here)

BooksSpec == BooksInit /\ [][BooksNext]_booksVars

-----------------------------------------------------------------------------
\* Every ticket is of one local day.  What a day earned is the same by hour and by means of
\* payment; by product and by rate it is that less the taxes the prices did not include, which
\* rankProducts and groupTaxes leave out of the lines and of the bases; the taxes are those of
\* the rates.  Tickets that lost lines or payments are counted apart.  And the days add up to
\* what the tickets are worth once refunded.
DaysAddUp ==
  /\ \A d \in BookDays :
       LET is == SalesOfDay(d)
           day == SummaryOf(is)
           bare == {i \in is : tickets[i].lines = <<>>}
           unpaid == {i \in is : tickets[i].method = "none"}
           apart == Worth(bare) + TaxesOf({i \in is \ bare : tickets[i].added})
       IN /\ day.net = SumFunction(day.byHour)
          /\ day.net = SumFunction(day.byProduct) + apart
          /\ day.net = SumFunction(day.bases) + SumFunction(day.byRate) + apart
          /\ day.taxes = SumFunction(day.byRate) + TaxesOf(bare)
          /\ day.net = SumFunction(day.byMethod) + Worth(unpaid)
  /\ SumFunction([d \in BookDays |-> SummaryOf(SalesOfDay(d)).net])
       = SumFunction([i \in {i \in DOMAIN tickets : tickets[i].of = 0} |->
                        tickets[i].total - RefundedBySale(i)])

\* As long as no cash has moved, the gap the panel announces is the one the closing will record;
\* a drawer that was counted is worth its count, whatever was typed beside it.
DrawersTellTrue ==
  /\ ~moved => shown = Report
  /\ \A s \in DOMAIN drawers :
       LET drawer == drawers[s] IN
       /\ drawer.opening # NoCount => drawer.float = CountTotal(drawer.opening)
       /\ drawer.closing # NoCount => drawer.counted = CountTotal(drawer.closing)

\* The age of a debt is counted from the first hour since which the customer has always owed,
\* whatever the order the movements came in; the accounts listed as open are those that owe; and
\* what a customer owed before is owed, unless the program ended while it was created.
BalanceAt(c, t) == SumFunction([m \in {m \in MovementsOf(c) : m.at <= t} |-> m.amount])
OwedSince(c) ==
  Min({m.at : m \in {m \in MovementsOf(c) :
                       \A n \in MovementsOf(c) : n.at >= m.at => BalanceAt(c, n.at) > 0}})
DebtsAreDated ==
  /\ \A account \in OpenAccounts : account.age = DaysSince(OwedSince(account.customer))
  /\ \A c \in Debtors :
       accounts[c].state = "here" /\ accounts[c].brought # 0 =>
         \E m \in MovementsOf(c) : m.amount = accounts[c].brought /\ m.at = accounts[c].at

BooksAgree == DaysAddUp /\ DrawersTellTrue /\ DebtsAreDated
=============================================================================
