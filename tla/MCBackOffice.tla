---------------------------- MODULE MCBackOffice ----------------------------
(***************************************************************************)
(* Instance of the systems behind the counter.  They share no state: `part' *)
(* says which one a behaviour is of, and the others stay as they began.    *)
(***************************************************************************)
EXTENDS Purchasing, TillLicence, Keyring, CatalogTransfer, TLC

TheOffers == {[qty |-> 1, cost |-> 7], [qty |-> 3, cost |-> 4]}
TheDeltas == {-2}
TheKeysSold ==
  {[signed |-> TRUE, ours |-> TRUE, end |-> e] : e \in {3, 6}}
    \cup {[signed |-> s, ours |-> ~s, end |-> 6] : s \in BOOLEAN}
Article(sku, barcode) ==
  [live |-> TRUE, sku |-> sku, barcode |-> barcode, cat |-> 0, price |-> 5, min |-> 1, version |-> 1]
TheHandCodes == {[sku |-> "A", barcode |-> None], [sku |-> None, barcode |-> "C"]}
TheCells == {"A", "B", "C", "food", None}
TheCatalogs == {<<>>, <<Article("A", "B")>>, <<Article("A", None), Article("C", "B")>>}
FirstLines ==
  [sku : {"A", "B", None}, barcode : {"A", "B", None}, cat : {"food", None}, price : {3},
   qty : {0, 1}, min : {2}, reads : {TRUE}]
LastLines ==
  [sku : {"A", "B", "C", None}, barcode : {"A", "B", None}, cat : {"food"}, price : {4},
   qty : {1}, min : {0}, reads : {TRUE}]
TheSheets ==
  (FirstLines \X LastLines)
    \cup {<<[x EXCEPT !.reads = FALSE], x>> : x \in FirstLines}

Symmetric == Permutations(Hands) \cup Permutations(Clicks)

VARIABLES part, sold  \* a date and the months sold from it on

vars == <<part, sold, purchaseVars, licenceVars, keyringVars, transferVars>>

Init ==
  /\ part \in {"purchasing", "licence", "keyring", "transfer", "sales"}
  /\ IF part = "sales"
     THEN sold \in [date : Dates(2023..2024), months : 1..13]
     ELSE sold = [date |-> [year |-> 2024, month |-> 1, day |-> 31], months |-> 1]
  /\ IF part = "keyring" THEN TRUE ELSE file = Absent
  /\ IF part = "transfer" THEN TRUE ELSE sheet = <<>> /\ products = [p \in Ids |-> NoProduct]
  /\ PurchaseInit /\ LicenceInit /\ KeyringInit
  /\ IF part = "transfer" THEN TransferInit ELSE TransferRest

Next ==
  /\ UNCHANGED <<part, sold>>
  /\ \/ /\ part = "purchasing" /\ PurchaseNext
        /\ UNCHANGED <<licenceVars, keyringVars, transferVars>>
     \/ /\ part = "licence" /\ LicenceNext
        /\ UNCHANGED <<purchaseVars, keyringVars, transferVars>>
     \/ /\ part = "keyring" /\ KeyringNext
        /\ UNCHANGED <<purchaseVars, licenceVars, transferVars>>
     \/ /\ part = "transfer" /\ TransferNext
        /\ UNCHANGED <<purchaseVars, licenceVars, keyringVars>>

Spec == Init /\ [][Next]_vars

\* Whatever the day a key is sold and for how many months, no day is given away.
SalesLand == LandsInMonth(sold.date, sold.months)
=============================================================================
