---------------------------- MODULE SaleCounter ----------------------------
(***************************************************************************)
(* The counter of one till: the cart, the lookups of scanned codes that    *)
(* answer later, carts put aside, the payment panel and the recording of   *)
(* the sale (SaleScreen, PaymentPanel, held-cart and promotion.repository).*)
(* The recording itself is module TillSales: here it succeeds or throws.   *)
(* The promoted cart is memoised: it is computed when the cart changes,    *)
(* not when the day does.                                                  *)
(***************************************************************************)
EXTENDS CartRules

CONSTANTS
  Promotions,   \* those that may be created, in the order of their names
  Managed,      \* bound: the names of those that are changed
  Customers,    \* those of the file
  Wholesale,    \* professionals
  Codes,        \* what is scanned: an article's code, or a label with its weight or price
  WeightStep,   \* 100 milli-units: one press of + on what is weighed
  Weighed,      \* articles whose unit is fractional
  TypedQty,     \* quantities typed
  Typed,        \* amounts typed in the panel
  Discounts,    \* amounts typed as a discount on the ticket
  Methods,      \* of payment
  MaxEdits,     \* bound: changes of the cart, and those made around the counter
  MaxLines, MaxQty, MaxLookups, MaxAside, MaxHeld, MaxParts, MaxRecordings, MaxOutside \* bounds

ASSUME CounterAssumption == /\ Wholesale \subseteq Customers /\ NoOne \notin Customers
                            /\ Weighed \subseteq Products
                            /\ \A code \in Codes : /\ code.product \in Products
                                                   /\ code.kind \in {"code", "weight", "price"}
                                                   /\ code.value \in Nat
ASSUME PromotionsAssumption ==
  /\ DOMAIN Promotions \subseteq Nat \ {0}
  /\ \A i \in DOMAIN Promotions : LET p == Promotions[i] IN
       /\ p.name # NoOne /\ p.kind \in {"pourcentage", "montant", "quantite"}
       /\ p.value \in Int /\ p.buyQty \in Int /\ p.payQty \in Int
ASSUME TypedAssumption == Typed \subseteq Nat /\ Discounts \subseteq Int
ASSUME CounterBounds == MaxLines \in Nat /\ MaxQty \in Nat

VARIABLES
  cart,
  customer,
  stored,      \* promotion rows: is_active, or absent
  promotions,  \* those the screen loaded when it was mounted
  day,
  promoted,    \* panierPromu: the cart with its promotions, as last computed
  lookups,     \* scanned codes whose article is being looked up
  aside,       \* the lines the dialog that names them is about to put aside
  held,        \* held_cart rows not deleted, quotes apart: no screen reads them
  panel,       \* the payment panel: closed, open or busy
  parts,       \* payments already put down in the panel
  recordings,  \* sales being recorded
  edits,       \* changes of the cart made, those that empty it apart
  outside,     \* changes of promotions and of day
  \* What happened, for the properties:
  resumed      \* lines taken back from aside and not priced since

counterVars == <<cart, customer, stored, promotions, day, promoted, lookups, aside, held,
                 panel, parts, recordings, edits, outside, resumed>>

Line == [id : 1..MaxLines, product : Products, price : Nat, qty : Nat, discount : Nat,
         locked : BOOLEAN, promotion : {Promotions[i].name : i \in DOMAIN Promotions} \cup {NoOne}]

Step(p) == IF p \in Weighed THEN WeightStep ELSE QtyScale

\* newId(): the identifier of a line no line of the cart has.
NewId == CHOOSE id \in 1..(MaxLines + 1) :
           /\ \A i \in DOMAIN cart.lines : cart.lines[i].id # id
           /\ \A n \in 1..(id - 1) : \E i \in DOMAIN cart.lines : cart.lines[i].id = n

\* useMemo(() => applyPromotions(cart, promotions), [cart, promotions]): computed again for
\* a new cart, by the day it is then.
Promote == promoted' = ApplyPromotions(cart', promotions, day)

Totals == ComputeTotals(promoted)

Remaining == SummarizePayments(Totals.total, parts).remaining

\* The cashier's hands are free: neither a dialog nor the panel covers the screen.
AtCounter == panel = "closed" /\ aside = NoOne

WithinBounds(c) == /\ Len(c.lines) <= MaxLines
                   /\ \A i \in DOMAIN c.lines : c.lines[i].qty <= MaxQty

\* setCart: whatever changes the cart computes the promotions again.
SetCart(c) ==
  /\ WithinBounds(c)
  /\ cart' = c /\ Promote
  /\ IF c.lines = <<>> THEN edits' = edits ELSE edits + outside < MaxEdits /\ edits' = edits + 1

\* promoRepo.active(): every active row, its period not judged here.
Active == Restrict(Promotions, {i \in DOMAIN Promotions : stored[Promotions[i].name]})

CounterInit ==
  /\ cart = EmptyCart /\ customer = NoOne
  /\ stored = [n \in {Promotions[i].name : i \in DOMAIN Promotions} |-> TRUE]
  /\ promotions = Promotions /\ day = 0 /\ promoted = EmptyCart
  /\ lookups = {} /\ aside = NoOne /\ held = {}
  /\ panel = "closed" /\ parts = <<>> /\ recordings = {} /\ edits = 0 /\ outside = 0
  /\ resumed = {}

----------------------------------------------------------------------------
\* Articles.

\* A press on the article's tile.
Tile(p) ==
  /\ AtCounter
  /\ SetCart(AddProduct(cart, p, NewId, QtyScale))
  /\ resumed' = resumed \ {cart.lines[i].id : i \in Joins(cart, p)}
  /\ UNCHANGED <<customer, stored, promotions, day, lookups, aside, held, panel, parts,
                 recordings, outside>>

\* Enter in the search field: a bar code, or a label of the scale with a weight or a price.
Scan(code) ==
  /\ AtCounter
  /\ Cardinality(lookups) < MaxLookups /\ edits + outside + Cardinality(lookups) < MaxEdits
  /\ lookups' = lookups \cup {code}
  /\ UNCHANGED <<cart, customer, stored, promotions, day, promoted, edits, aside, held, panel,
                 parts, recordings, outside, resumed>>

\* The lookup answers, whatever the screen shows by then.  A price on the label is
\* forced on the line that the label's article has just been given.
Found(l) ==
  LET id == NewId
      added == AddProduct(cart, l.product, id, IF l.kind = "weight" THEN l.value ELSE QtyScale)
  IN  /\ SetCart(IF l.kind = "price" THEN SetLinePrice(added, id, l.value) ELSE added)
      /\ lookups' = lookups \ {l}
      /\ resumed' = resumed \ {cart.lines[i].id : i \in Joins(cart, l.product)}
      /\ UNCHANGED <<customer, stored, promotions, day, aside, held, panel, parts, recordings,
                     outside>>

NotFound(l) ==
  /\ lookups' = lookups \ {l}
  /\ UNCHANGED <<cart, customer, stored, promotions, day, promoted, edits, aside, held, panel,
                 parts, recordings, outside, resumed>>

\* +, -, the cross and the quantity typed; none left removes the line.
ChangeQuantity(i, qty) ==
  /\ AtCounter
  /\ LET line == cart.lines[i] IN
       /\ qty \in {line.qty - Step(line.product), line.qty + Step(line.product), 0} \cup TypedQty
       /\ SetCart(UpdateQuantity(cart, line.id, qty))
       /\ resumed' = resumed \ {line.id}
  /\ UNCHANGED <<customer, stored, promotions, day, lookups, aside, held, panel, parts,
                 recordings, outside>>

Clear ==
  /\ AtCounter /\ cart.lines # <<>>
  /\ SetCart(ClearCart(cart))
  /\ resumed' = {}
  /\ UNCHANGED <<customer, stored, promotions, day, lookups, aside, held, panel, parts,
                 recordings, outside>>

AskDiscount(amount) ==
  /\ AtCounter /\ cart.lines # <<>>
  /\ SetCart(SetCartDiscount(cart, amount))
  /\ UNCHANGED <<customer, stored, promotions, day, lookups, aside, held, panel, parts,
                 recordings, outside, resumed>>

\* choisirClient, at the counter or from the panel when a credit asks for a debtor:
\* the whole cart is priced again.
ChooseCustomer(c) ==
  /\ aside = NoOne /\ c # customer
  /\ customer' = c
  /\ SetCart(RepriceCart(cart, c \in Wholesale))
  /\ resumed' = {}
  /\ UNCHANGED <<stored, promotions, day, lookups, aside, held, panel, parts, recordings,
                 outside>>

----------------------------------------------------------------------------
\* Carts put aside.

\* mettreDeCote: the dialog asks for a name; what will be stored is what is shown now.
PutAside ==
  /\ AtCounter /\ Len(cart.lines) \in 1..MaxAside
  /\ aside' = promoted.lines
  /\ UNCHANGED <<cart, customer, stored, promotions, day, promoted, edits, lookups, held, panel,
                 parts, recordings, outside, resumed>>

\* hold, as a wait or as a quote: the row is written, the counter cleared, the customer
\* taken off.
Hold(kind) ==
  /\ aside # NoOne
  /\ IF kind = "devis" THEN UNCHANGED held
     ELSE Cardinality(held) < MaxHeld /\ held' = held \cup {aside}
  /\ aside' = NoOne
  /\ customer' = NoOne
  /\ SetCart(RepriceCart(ClearCart(cart), FALSE))
  /\ resumed' = {}
  /\ UNCHANGED <<stored, promotions, day, lookups, panel, parts, recordings, outside>>

\* The dialog is dismissed, or the write fails: nothing moved.
DoNotHold ==
  /\ aside # NoOne /\ aside' = NoOne
  /\ UNCHANGED <<cart, customer, stored, promotions, day, promoted, edits, lookups, held, panel,
                 parts, recordings, outside, resumed>>

\* reprendre: neither the discount of
\* the ticket nor its customer comes back.
Resume(h) ==
  /\ AtCounter /\ cart.lines = <<>>
  /\ SetCart([cart EXCEPT !.lines = h, !.discount = 0])
  /\ held' = held \ {h}
  /\ resumed' = {h[i].id : i \in DOMAIN h}
  /\ UNCHANGED <<customer, stored, promotions, day, lookups, aside, panel, parts, recordings,
                 outside>>

----------------------------------------------------------------------------
\* The payment panel.

Pay ==
  /\ AtCounter /\ cart.lines # <<>>
  /\ panel' = "open" /\ parts' = <<>>
  /\ UNCHANGED <<cart, customer, stored, promotions, day, promoted, edits, lookups, aside, held,
                 recordings, outside, resumed>>

\* The button says so before the click: a credit settles nothing without its debtor.
Covers(draft, due) == /\ draft.amount >= due
                      /\ draft.method = "credit" => customer # NoOne

AddPart(method, value, due) ==
  LET draft == BuildPayment(due, method, value) IN
  /\ panel = "open" /\ Len(parts) < MaxParts
  /\ draft # NoOne /\ ~Covers(draft, due)
  /\ parts' = Append(parts, draft)
  /\ UNCHANGED <<cart, customer, stored, promotions, day, promoted, edits, lookups, aside, held,
                 panel, recordings, outside, resumed>>

RemovePart(i) ==
  /\ panel = "open" /\ i \in DOMAIN parts
  /\ parts' = SubSeq(parts, 1, i - 1) \o SubSeq(parts, i + 1, Len(parts))
  /\ UNCHANGED <<cart, customer, stored, promotions, day, promoted, edits, lookups, aside, held,
                 panel, recordings, outside, resumed>>

\* Cancel when the panel is not busy, Escape even when it is: the recording goes on
\* without a panel to answer to.
ClosePanel ==
  /\ panel # "closed"
  /\ panel' = "closed" /\ parts' = <<>>
  /\ recordings' = {[r EXCEPT !.shown = FALSE] : r \in recordings}
  /\ UNCHANGED <<cart, customer, stored, promotions, day, promoted, edits, lookups, aside, held,
                 outside, resumed>>

\* confirmPayment hands the cart and the totals of the last render to record: an empty
\* cart, whose total is nothing, has no draft.
Confirm(method, value, due) ==
  LET draft == BuildPayment(due, method, value) IN
  /\ panel = "open" /\ draft # NoOne /\ Covers(draft, due)
  /\ Cardinality(recordings) < MaxRecordings
  /\ panel' = "busy"
  /\ recordings' = recordings \cup {[total |-> Totals.total, payments |-> Append(parts, draft),
                                     customer |-> customer, shown |-> TRUE]}
  /\ UNCHANGED <<cart, customer, stored, promotions, day, promoted, edits, lookups, aside, held,
                 parts, outside, resumed>>

\* What record refuses before it writes.
Refuses(r) ==
  \/ r.customer = NoOne /\ \E i \in DOMAIN r.payments : r.payments[i].method = "credit"
  \/ ~SummarizePayments(r.total, r.payments).settled

\* The sale is written: panel, customer and cart are put back to nothing.
Recorded(r) ==
  /\ ~Refuses(r)
  /\ recordings' = {[o EXCEPT !.shown = FALSE] : o \in recordings \ {r}}
  /\ panel' = "closed" /\ parts' = <<>>
  /\ customer' = NoOne
  /\ SetCart(ClearCart(RepriceCart(cart, FALSE)))
  /\ resumed' = {}
  /\ UNCHANGED <<stored, promotions, day, lookups, aside, held, outside>>

\* record throws (refusal, stock, database): the panel that waits for it says so.
NotRecorded(r) ==
  /\ recordings' = recordings \ {r}
  /\ panel' = IF r.shown THEN "open" ELSE panel
  /\ UNCHANGED <<cart, customer, stored, promotions, day, promoted, edits, lookups, aside, held,
                 parts, outside, resumed>>

----------------------------------------------------------------------------
\* Around the counter.

\* Another tab, or the program started again: the screen's memory is gone, the rows stay.
Mount ==
  /\ cart' = EmptyCart /\ promoted' = EmptyCart /\ customer' = NoOne
  /\ promotions' = Active
  /\ lookups' = {} /\ aside' = NoOne /\ panel' = "closed" /\ parts' = <<>> /\ recordings' = {}
  /\ resumed' = {}
  /\ UNCHANGED <<stored, day, held, edits, outside>>

MayHappen ==
  outside < MaxOutside /\ edits + outside < MaxEdits /\ outside' = outside + 1

NextDay ==
  /\ MayHappen
  /\ day' = day + 1
  /\ UNCHANGED <<cart, customer, stored, promotions, promoted, edits, lookups, aside, held, panel,
                 parts, recordings, resumed>>

\* create, setActive and remove, on this till's other screens or by a pull.
ChangePromotion(p) ==
  /\ p.name \in Managed
  /\ MayHappen
  /\ \/ ~stored[p.name] /\ PromotionSound(p) /\ stored' = [stored EXCEPT ![p.name] = TRUE]
     \/ stored[p.name] /\ stored' = [stored EXCEPT ![p.name] = FALSE]
  /\ UNCHANGED <<cart, customer, promotions, day, promoted, edits, lookups, aside, held, panel,
                 parts, recordings, resumed>>

Article ==
  \/ \E p \in Products : Tile(p)
  \/ \E code \in Codes : Scan(code)
  \/ \E l \in lookups : Found(l) \/ NotFound(l)
  \/ \E i \in DOMAIN cart.lines : \E qty \in 0..(MaxQty + QtyScale) : ChangeQuantity(i, qty)
  \/ Clear

Aside ==
  \/ PutAside \/ DoNotHold
  \/ \E kind \in {"attente", "devis"} : Hold(kind)
  \/ \E h \in held : Resume(h)

Payment ==
  \/ Pay \/ ClosePanel
  \/ /\ panel = "open"
     /\ \E due \in {Remaining}, m \in Methods, value \in Typed \cup {0} :
          AddPart(m, value, due) \/ Confirm(m, value, due)
  \/ \E i \in DOMAIN parts : RemovePart(i)
  \/ \E r \in recordings : Recorded(r) \/ NotRecorded(r)

CounterNext ==
  \/ Article \/ Aside \/ Payment
  \/ \E amount \in Discounts : AskDiscount(amount)
  \/ \E c \in Customers \cup {NoOne} : ChooseCustomer(c)
  \/ Mount \/ NextDay
  \/ \E i \in DOMAIN Promotions : ChangePromotion(Promotions[i])

CounterSpec == CounterInit /\ [][CounterNext]_counterVars

----------------------------------------------------------------------------
\* Properties.

\* The shape of the state.
CounterTypeOK ==
  /\ \A i \in DOMAIN cart.lines : cart.lines[i] \in Line
  /\ \A i, j \in DOMAIN cart.lines : i # j => cart.lines[i].id # cart.lines[j].id
  /\ cart.discount \in Int /\ cart.wholesale = (customer \in Wholesale)
  /\ [promoted EXCEPT !.lines = <<>>] = [cart EXCEPT !.lines = <<>>]
  /\ customer \in Customers \cup {NoOne}
  /\ DOMAIN promoted.lines = DOMAIN cart.lines /\ day \in 0..outside
  /\ panel \in {"closed", "open", "busy"} /\ (panel = "closed" => parts = <<>>)
  /\ (panel = "busy" <=> \E r \in recordings : r.shown)

\* What the screen shows adds up, whatever was scanned, discounted or promoted: no line
\* costs less than nothing, the discount of the ticket is taken off to the last cent, and
\* the tax of the ticket is that of its rates (distributeProportionally, computeTotals).
TotalsAddUp ==
  \A t \in {Totals} :
    LET rates == DOMAIN t.breakdown
        base == SumFunction([rate \in rates |-> t.breakdown[rate].base])
        tax == SumFunction([rate \in rates |-> t.breakdown[rate].tax])
        gross == SumCents([i \in DOMAIN t.lines |-> t.lines[i].gross])
        net == SumCents([i \in DOMAIN t.lines |-> t.lines[i].net])
    IN  /\ \A i \in DOMAIN t.lines : t.lines[i].net \in 0..t.lines[i].gross
        /\ gross = net + t.discount
        /\ tax = t.tax /\ base + tax = t.total

\* Unless it was fixed by hand, or came back from aside untouched, a line has the price
\* of its quantity and of the customer shown, in whatever order the two were set; and a
\* price fixed by hand, here by a label, outlives every change of quantity, customer or
\* promotion, and no other scan joins its line (RepriceLine, AddProduct).
TariffFollows ==
  \A i \in DOMAIN cart.lines : LET line == cart.lines[i] IN
    line.locked \/ line.id \in resumed
    \/ line.price = ResolveUnitPrice(line.product, line.qty, customer \in Wholesale)
LockedPriceKept ==
  \A i \in DOMAIN cart.lines, j \in DOMAIN cart'.lines :
    (cart.lines[i].locked /\ cart'.lines[j].id = cart.lines[i].id
       /\ cart'.lines[j].product = cart.lines[i].product)
    => /\ cart'.lines[j].price = cart.lines[i].price
       /\ lookups' # lookups => cart'.lines[j].qty = cart.lines[i].qty
PricesRight == [][TariffFollows' /\ LockedPriceKept]_counterVars

\* A ticket written in several payments is settled to the cent, though its total may move
\* while parts are down: neither more nor less is imputed than is due, change is given on
\* cash only, and what is on credit has a debtor.
SettledExactly ==
  \A r \in recordings : ~Refuses(r) =>
    LET s == SummarizePayments(r.total, r.payments)
        given == SumCents([i \in DOMAIN r.payments |->
                   IF r.payments[i].method = "cash" THEN r.payments[i].tendered
                   ELSE r.payments[i].amount])
        credit == \E i \in DOMAIN r.payments : r.payments[i].method = "credit"
    IN  /\ s.paid = r.total /\ given = s.paid + s.change
        /\ \A i \in DOMAIN r.payments : r.payments[i].amount > 0
        /\ credit => r.customer # NoOne

\* And nothing that was paid stays in a closed panel, for the next ticket (ClosePanel).
CounterSettles == CounterTypeOK /\ SettledExactly
=============================================================================
