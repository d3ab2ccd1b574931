------------------------------- MODULE MCShop -------------------------------
(***************************************************************************)
(* Instance of the counter of a till, of its books and of its restaurant.  *)
(* They share no state: `part' says which one a behaviour is of, and the   *)
(* others stay as they began.                                              *)
(***************************************************************************)
EXTENDS SaleCounter, DayBooks, RestaurantOrders, TLC

Symmetry == Permutations(Tables) \cup Permutations(Orders) \cup Permutations(Lines)
              \cup Permutations(Sales) \cup Permutations(Screens)

\* A counted article with a wholesale price from two units on, and a weighed one.
TheTariff ==
  [nail |-> [retail |-> 5, wholesale |-> 3, minQty |-> 4, rate |-> 2, category |-> "iron"],
   fish |-> [retail |-> 7, wholesale |-> 0, minQty |-> 0, rate |-> 1, category |-> "fresh"]]

\* A nail's bar code, and the label of a fish: four cents.
TheCodes == {[product |-> "nail", kind |-> "code", value |-> 0],
             [product |-> "fish", kind |-> "price", value |-> 4]}

\* Two for one on nails, for ever; half the price of what is fresh, today only.
ThePromotions ==
  << [name |-> "fresh", active |-> TRUE, kind |-> "pourcentage", product |-> NoOne,
      category |-> "fresh", value |-> 5, buyQty |-> 0, payQty |-> 0, first |-> 0, last |-> 0],
     [name |-> "nails", active |-> TRUE, kind |-> "quantite", product |-> "nail",
      category |-> NoOne, value |-> 0, buyQty |-> 2, payQty |-> 1, first |-> 0, last |-> 9] >>

\* Two articles of two rates.
TheBaskets ==
  {<<[product |-> "nail", rate |-> 1, total |-> 2, tax |-> 0],
     [product |-> "fish", rate |-> 2, total |-> 3, tax |-> 1]>>}

VARIABLE part

ShopInit ==
  part \in {"counter", "books", "debts", "restaurant"} /\ CounterInit /\ BooksInit /\ Init

\* What customers owed before and what is sold meet in no sum: a behaviour is of one of them.
OfItsBooks ==
  IF part = "debts" THEN tickets' = <<>> ELSE \A c \in Debtors : accounts'[c].brought = 0

ShopNext ==
  /\ UNCHANGED part
  /\ \/ part = "counter" /\ CounterNext /\ UNCHANGED <<booksVars, vars>>
     \/ part \in {"books", "debts"} /\ BooksNext /\ OfItsBooks /\ UNCHANGED <<counterVars, vars>>
     \/ part = "restaurant" /\ Next /\ UNCHANGED <<counterVars, booksVars>>
ShopSpec == ShopInit /\ [][ShopNext]_<<part, counterVars, booksVars, vars>>
=============================================================================
