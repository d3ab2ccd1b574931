----------------------------- MODULE CartRules -----------------------------
(***************************************************************************)
(* The arithmetic of a ticket, in integers only: amounts, tariffs,         *)
(* promotions, operations on the cart, totals and payments (money/, cart/  *)
(* of packages/shared).  No state here: SaleCounter calls these operators. *)
(* No screen calls setLineDiscount nor addCustomLine: every line is an     *)
(* article's, and no line has discountLocked.                              *)
(***************************************************************************)
EXTENDS Integers, Sequences, SequencesExt

CONSTANTS
  Products,
  Tariff,      \* Product: retail, wholesale (0: null), minQty (0: never), rate, category
  QtyScale,    \* QTY_SCALE
  BpScale,     \* TAX_BP_SCALE
  TaxIncluded, \* prices_include_tax
  NoOne         \* null

ASSUME ScalesAssumption == QtyScale \in Nat \ {0} /\ BpScale \in Nat \ {0}
\* priceRuleProblem(rule) === null, checked by the form of an article.
ASSUME TariffAssumption ==
  \A p \in Products : LET t == Tariff[p] IN
    t.retail \in Nat /\ t.wholesale \in 0..t.retail /\ t.minQty \in Nat /\ t.rate \in Nat
ASSUME TaxAssumption == TaxIncluded \in BOOLEAN /\ NoOne \notin Products \cup Nat

Least(a, b) == IF a < b THEN a ELSE b
Most(a, b) == IF a > b THEN a ELSE b
Clamp(value, min, max) == Least(Most(value, min), max)

SumCents(amounts) == SumFunction(amounts)

\* n / d rounded to the nearest, half away from zero; d > 0.
RoundHalfAwayFromZero(n, d) ==
  IF n >= 0 THEN (2 * n + d) \div (2 * d) ELSE -((d - 2 * n) \div (2 * d))

LineAmount(price, qty) == RoundHalfAwayFromZero(price * qty, QtyScale)

PercentAmount(amount, bp) == RoundHalfAwayFromZero(amount * bp, BpScale)

TaxOf(net, rate) ==
  RoundHalfAwayFromZero(net * rate, IF TaxIncluded THEN BpScale + rate ELSE BpScale)

----------------------------------------------------------------------------
\* Tariffs and promotions.

ResolveUnitPrice(p, qty, wholesaleCustomer) ==
  LET t == Tariff[p]
      wholesale == /\ t.wholesale # 0
                   /\ wholesaleCustomer \/ (t.minQty > 0 /\ qty >= t.minQty)
  IN  IF wholesale THEN t.wholesale ELSE t.retail

\* A promotion: active, kind, product, category, value, buyQty, payQty, first, last day.
PromotionRuns(promotion, day) == promotion.active /\ day \in promotion.first .. promotion.last

PromotionTargets(promotion, line) ==
  IF promotion.product # NoOne
  THEN line.product = promotion.product
  ELSE /\ promotion.category # NoOne
       /\ Tariff[line.product].category = promotion.category

PromotionDiscount(promotion, line) ==
  LET gross == LineAmount(line.price, line.qty)
      units == line.qty \div QtyScale
      offered == IF promotion.buyQty <= promotion.payQty \/ promotion.payQty < 1 THEN 0
                 ELSE (units \div promotion.buyQty) * (promotion.buyQty - promotion.payQty)
  IN  CASE promotion.kind = "pourcentage" -> Clamp(PercentAmount(gross, promotion.value), 0, gross)
        [] promotion.kind = "montant" -> Clamp(promotion.value * units, 0, gross)
        [] promotion.kind = "quantite" -> Clamp(offered * line.price, 0, gross)

\* The index of the most generous promotion, the first of the list among equals; 0: none.
BestPromotion(promotions, line, day) ==
  LET granted(i) == PromotionDiscount(promotions[i], line)
      eligible == {i \in DOMAIN promotions : /\ PromotionRuns(promotions[i], day)
                                             /\ PromotionTargets(promotions[i], line)
                                             /\ granted(i) > 0}
  IN  IF eligible = {} THEN 0
      ELSE CHOOSE i \in eligible :
             \A j \in eligible : granted(i) > granted(j) \/ (granted(i) = granted(j) /\ i <= j)

\* A line whose promotion is over is released.
PromoteLine(line, promotions, day) ==
  LET best == BestPromotion(promotions, line, day)
  IN  IF best # 0
      THEN [line EXCEPT !.discount = PromotionDiscount(promotions[best], line),
                        !.promotion = promotions[best].name]
      ELSE IF line.promotion = NoOne THEN line
      ELSE [line EXCEPT !.discount = 0, !.promotion = NoOne]

ApplyPromotions(cart, promotions, day) ==
  [cart EXCEPT !.lines = [i \in DOMAIN cart.lines |->
                            PromoteLine(cart.lines[i], promotions, day)]]

\* promotionProblem(promotion) === null, name apart.
PromotionSound(promotion) ==
  /\ promotion.product # NoOne \/ promotion.category # NoOne
  /\ promotion.first <= promotion.last
  /\ CASE promotion.kind = "pourcentage" -> promotion.value \in 1..BpScale
       [] promotion.kind = "montant" -> promotion.value > 0
       [] promotion.kind = "quantite" -> promotion.payQty >= 1 /\ promotion.buyQty > promotion.payQty

----------------------------------------------------------------------------
\* The cart: its lines, its discount, and whether its customer is a professional.

EmptyCart == [lines |-> <<>>, discount |-> 0, wholesale |-> FALSE]

ClearCart(cart) == [cart EXCEPT !.lines = <<>>, !.discount = 0]

LineFromProduct(id, p, qty, wholesale) ==
  [id |-> id, product |-> p, price |-> ResolveUnitPrice(p, qty, wholesale), qty |-> qty,
   discount |-> 0, locked |-> FALSE, promotion |-> NoOne]

RepriceLine(line, wholesale) ==
  IF line.locked THEN line
  ELSE [line EXCEPT !.price = ResolveUnitPrice(line.product, line.qty, wholesale)]

RepriceCart(cart, wholesale) ==
  [cart EXCEPT !.wholesale = wholesale,
               !.lines = [i \in DOMAIN cart.lines |-> RepriceLine(cart.lines[i], wholesale)]]

\* No two lines have the same identifier.
RemoveLine(cart, id) ==
  IF \E i \in DOMAIN cart.lines : cart.lines[i].id = id
  THEN [cart EXCEPT !.lines = RemoveAt(@, CHOOSE i \in DOMAIN @ : @[i].id = id)]
  ELSE cart

UpdateQuantity(cart, id, qty) ==
  IF qty <= 0 THEN RemoveLine(cart, id)
  ELSE [cart EXCEPT !.lines = [i \in DOMAIN cart.lines |->
          IF cart.lines[i].id # id THEN cart.lines[i]
          ELSE RepriceLine([cart.lines[i] EXCEPT !.qty = qty], cart.wholesale)]]

\* Seeded fault: a fixed price does not stop the merge.
MergeableAny(cart, p) ==
  {i \in DOMAIN cart.lines : cart.lines[i].product = p /\ cart.lines[i].discount = 0}

\* The lines a new scan of the article may join.
Mergeable(cart, p) ==
  {i \in DOMAIN cart.lines : /\ cart.lines[i].product = p
                             /\ cart.lines[i].discount = 0
                             /\ ~cart.lines[i].locked}

\* It joins the first of them.
Joins(cart, p) == {i \in Mergeable(cart, p) : \A j \in Mergeable(cart, p) : i <= j}

AddProduct(cart, p, newId, qty) ==
  IF Mergeable(cart, p) # {}
  THEN LET i == CHOOSE i \in Joins(cart, p) : TRUE
       IN  UpdateQuantity(cart, cart.lines[i].id, cart.lines[i].qty + qty)
  ELSE [cart EXCEPT !.lines = Append(@, LineFromProduct(newId, p, qty, cart.wholesale))]

SetLinePrice(cart, id, price) ==
  [cart EXCEPT !.lines = [i \in DOMAIN cart.lines |->
     IF cart.lines[i].id = id THEN [cart.lines[i] EXCEPT !.price = price, !.locked = TRUE]
     ELSE cart.lines[i]]]

AfterLineDiscount(cart) ==
  [i \in DOMAIN cart.lines |->
     LineAmount(cart.lines[i].price, cart.lines[i].qty) - cart.lines[i].discount]

SetCartDiscount(cart, discount) ==
  [cart EXCEPT !.discount = Clamp(discount, 0, SumCents(AfterLineDiscount(cart)))]

----------------------------------------------------------------------------
\* Totals.

\* Seeded fault: each part is rounded on its own.
DistributeRounded(amount, weights) ==
  LET total == SumCents(weights) IN
  [i \in DOMAIN weights |->
     IF total <= 0 THEN 0 ELSE RoundHalfAwayFromZero(amount * weights[i], total)]

\* amount shared out in proportion to weights: the parts are rounded down and
\* the units left go, one each, to the largest remainders.
DistributeProportionally(amount, weights) ==
  LET total == SumCents(weights)
      floored == [i \in DOMAIN weights |-> (amount * weights[i]) \div total]
      fraction == [i \in DOMAIN weights |-> (amount * weights[i]) % total]
      left == amount - SumCents(floored)
      before(i) == {j \in DOMAIN weights : \/ fraction[j] > fraction[i]
                                           \/ fraction[j] = fraction[i] /\ j < i}
  IN  IF total <= 0 \/ amount = 0 THEN [i \in DOMAIN weights |-> 0]
      ELSE [i \in DOMAIN weights |->
              floored[i] + IF Cardinality(before(i)) < left THEN 1 ELSE 0]

\* base and tax of each rate of the ticket.
BuildTaxBreakdown(lines) ==
  LET Of(rate) == {i \in DOMAIN lines : lines[i].rate = rate}
      base == [i \in DOMAIN lines |->
                 IF TaxIncluded THEN lines[i].net - lines[i].tax ELSE lines[i].net]
      tax == [i \in DOMAIN lines |-> lines[i].tax]
  IN  [rate \in {lines[i].rate : i \in DOMAIN lines} |->
         [base |-> SumFunctionOnSet(base, Of(rate)), tax |-> SumFunctionOnSet(tax, Of(rate))]]

ComputeTotals(cart) ==
  LET after == AfterLineDiscount(cart)
      subtotal == SumCents(after)
      global == Clamp(cart.discount, 0, subtotal)
      shares == DistributeProportionally(global, after)
      lines == [i \in DOMAIN cart.lines |->
                  LET line == cart.lines[i]
                      net == after[i] - shares[i]
                      rate == Tariff[line.product].rate
                  IN  [gross |-> LineAmount(line.price, line.qty),
                       discount |-> line.discount + shares[i],
                       net |-> net, tax |-> TaxOf(net, rate), rate |-> rate]]
      net == SumCents([i \in DOMAIN cart.lines |-> lines[i].net])
      tax == SumCents([i \in DOMAIN cart.lines |-> lines[i].tax])
  IN  [lines |-> lines, subtotal |-> subtotal, tax |-> tax,
       discount |-> SumCents([i \in DOMAIN cart.lines |-> cart.lines[i].discount]) + global,
       total |-> IF TaxIncluded THEN net ELSE net + tax,
       breakdown |-> BuildTaxBreakdown(lines)]

----------------------------------------------------------------------------
\* Payments.

IsTenderable(method) == method = "cash"

\* Seeded fault: what the client hands over is imputed whole.
BuildWhole(remaining, method, value) ==
  IF remaining <= 0 THEN NoOne
  ELSE LET amount == IF value > 0 THEN value ELSE remaining IN
       [method |-> method, amount |-> amount,
        tendered |-> IF IsTenderable(method) THEN amount ELSE NoOne]

\* The payment of value (0: what is typed says nothing), or NoOne; as the panel calls it.
BuildPayment(remaining, method, value) ==
  LET requested == IF value > 0 THEN value ELSE remaining
      amount == Least(requested, remaining)
  IN  IF remaining <= 0 THEN NoOne
      ELSE [method |-> method, amount |-> amount,
            tendered |-> IF IsTenderable(method) THEN Most(value, amount) ELSE NoOne]

ChangeOf(payment) ==
  IF payment.tendered = NoOne THEN 0 ELSE Most(0, payment.tendered - payment.amount)

SummarizePayments(total, payments) ==
  LET paid == SumCents([i \in DOMAIN payments |-> payments[i].amount])
  IN  [paid |-> paid, remaining |-> Most(0, total - paid),
       change |-> SumCents([i \in DOMAIN payments |-> ChangeOf(payments[i])]),
       settled |-> paid >= total]
=============================================================================
