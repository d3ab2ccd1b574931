--------------------------- MODULE CatalogTransfer --------------------------
(***************************************************************************)
(* The catalogue taken out to a spreadsheet and back, as many times as it  *)
(* takes, while other screens of the till sell, create, edit, rename and   *)
(* delete (catalog/transfer of packages/shared, transfer.repository,       *)
(* catalog.repository, TransferPanel, CatalogScreen).  A statement is a    *)
(* step.  One import runs at a time.                                       *)
(***************************************************************************)
EXTENDS Integers, Sequences, FiniteSets

CONSTANTS
  None,          \* null, or an empty cell
  Cells,         \* what a cell of the sheet or a code of an article may hold
  Sheets,        \* the sheets a trader may choose: sequences of lines
  Catalogs,      \* the catalogues at first: sequences of articles
  HandPrice,     \* the price the form gives, which no sheet gives
  HandCodes,     \* the codes it may give
  HandNames,     \* the names a category may be given on a screen, here or elsewhere
  MaxProducts, MaxPasses, MaxOutside  \* bounds

\* A line of the sheet, and an article.
SheetLines == [sku : Cells, barcode : Cells, cat : Cells, price : Int, qty : Int, min : Int,
          reads : BOOLEAN]
Articles == [live : BOOLEAN, sku : Cells, barcode : Cells, cat : Nat, price : Int, min : Int,
             version : Nat]

\* The catalogues are those the till may hold: live articles, no code on two of them.
ASSUME TransferAssumption ==
  /\ None \in Cells /\ HandPrice \in Int /\ {MaxProducts, MaxPasses, MaxOutside} \subseteq Nat
  /\ HandCodes \subseteq [sku : Cells, barcode : Cells] /\ HandNames \subseteq Cells \ {None}
  /\ Sheets \subseteq Seq(SheetLines)
  /\ \A catalog \in Catalogs :
       /\ catalog \in Seq(Articles) /\ Len(catalog) <= MaxProducts
       /\ \A i \in DOMAIN catalog :
            /\ catalog[i].live /\ catalog[i].cat = 0 /\ catalog[i].version > 0
            /\ \A j \in DOMAIN catalog \ {i} :
                 /\ catalog[i].sku # None => catalog[i].sku # catalog[j].sku
                 /\ catalog[i].barcode # None => catalog[i].barcode # catalog[j].barcode

Ids == 1..MaxProducts
Names == Cells \ {None}
NoProduct == [live |-> FALSE, sku |-> None, barcode |-> None, cat |-> 0,
              price |-> 0, min |-> 0, version |-> 0]

VARIABLES
  products, level, posted,  \* the articles, their stock, their initial movements
  cats,      \* the categories: their names, and whether they are still there
  sheet,     \* the lines of the file
  import,    \* what the import under way has read and has left to do
  outcome,   \* what became of each row, and of which article, in this pass
  before,    \* and in the pass before, or when the sheet was exported
  passes, outside,
  touched,   \* the articles the form changed since the import read them
  disturbed, \* something failed or was edited since the sheet was first read
  apart      \* the names that may be on two categories: a screen or another till gave one
             \* a name another had, or that the import under way did not know; or the
             \* import made one and could not record it

transferVars == <<products, level, posted, cats, sheet, import, outcome, before,
                  passes, outside, touched, disturbed, apart>>

NotYet == [as |-> "none", on |-> 0]
Resting == [at |-> "none", row |-> 1, rows |-> <<>>, seen |-> <<>>,
            cats |-> [name \in Names |-> 0],
            target |-> 0, cat |-> 0, old |-> NoProduct]

TransferRest ==
  /\ level = [p \in Ids |-> 0]
  /\ posted = [p \in Ids |-> IF products[p].live THEN 1 ELSE 0]
  /\ cats = <<>> /\ import = Resting /\ outcome = <<>> /\ before = <<>>
  /\ passes = 0 /\ outside = 0 /\ touched = {} /\ disturbed = FALSE
  /\ apart = {}

TransferInit ==
  /\ \E catalog \in Catalogs :
       products = [p \in Ids |-> IF p <= Len(catalog) THEN catalog[p] ELSE NoProduct]
  /\ sheet \in Sheets /\ TransferRest

----------------------------------------------------------------------------
\* The sheet.

\* parseCatalogCsv: a line that does not read is left out, and said.
Read(lines) == {i \in DOMAIN lines : lines[i].reads}
Rows(lines) ==
  [n \in 1..Cardinality(Read(lines)) |->
     lines[CHOOSE i \in Read(lines) : Cardinality({j \in Read(lines) : j < i}) = n - 1]]

CodesOf(row) == {row.sku, row.barcode} \ {None}

\* duplicateCodes: a code that an earlier line has in either column, or this one in both
Duplicate(rows, i) ==
  \/ rows[i].sku = rows[i].barcode /\ rows[i].sku # None
  \/ \E j \in 1..(i - 1) : CodesOf(rows[i]) \cap CodesOf(rows[j]) # {}

\* The live articles with that code in that column (parSku, parBarcode; ux_product_*)
BySku(of, code) == {p \in Ids : code # None /\ of[p].live /\ of[p].sku = code}
ByBarcode(of, code) == {p \in Ids : code # None /\ of[p].live /\ of[p].barcode = code}

\* Seeded fault: a barcode is not recognised.
MatchSkuOnly(row, of) == BySku(of, row.sku)

\* matchExisting: the reference, failing that the barcode; one article or none
MatchExisting(row, of) ==
  IF BySku(of, row.sku) # {} THEN BySku(of, row.sku) ELSE ByBarcode(of, row.barcode)

\* exportCsv, catalogCsv, write_export; the levels are read last, and serve no import.
Listed == {p \in Ids : products[p].live}
Export ==
  /\ passes = 0 /\ import.at = "none" /\ before = <<>>
  /\ \E order \in [1..Cardinality(Listed) -> Listed] :
       /\ \A i, j \in DOMAIN order : i < j => order[i] < order[j]
       /\ sheet' = [i \in DOMAIN order |->
            [sku |-> products[order[i]].sku, barcode |-> products[order[i]].barcode,
             cat |-> IF products[order[i]].cat = 0 THEN None ELSE cats[products[order[i]].cat].name,
             price |-> products[order[i]].price, qty |-> level[order[i]],
             min |-> products[order[i]].min, reads |-> TRUE]]
       /\ before' = [i \in DOMAIN order |->
            [as |-> IF Duplicate(sheet', i) THEN "skipped" ELSE "updated", on |-> order[i]]]
  /\ disturbed' = FALSE
  /\ UNCHANGED <<products, level, posted, cats, import, outcome, passes, outside, touched, apart>>

----------------------------------------------------------------------------
\* The import (importRows), row by row.

Stands(at) == import.at = at
Row == import.rows[import.row]
Target == IF import.target = 0 THEN {} ELSE {import.target}

\* The catalogue is read; the rows in double are put aside.
Apply ==
  /\ Stands("none") /\ passes < MaxPasses /\ Rows(sheet) # <<>>
  /\ passes' = passes + 1
  /\ before' = IF passes = 0 THEN before ELSE outcome
  /\ outcome' = [i \in DOMAIN Rows(sheet) |->
       [as |-> IF Duplicate(Rows(sheet), i) THEN "skipped" ELSE "none", on |-> 0]]
  /\ import' = [Resting EXCEPT !.at = "categories", !.rows = Rows(sheet),
                                !.seen = products]
  /\ touched' = {}
  /\ UNCHANGED <<products, level, posted, cats, sheet, outside, disturbed, apart>>

\* listCategories, by name: one of each, which the rows go by to the end
Named(name) == {c \in DOMAIN cats : cats[c].live /\ cats[c].name = name}
ReadCategories ==
  /\ Stands("categories")
  /\ \E known \in [Names -> 0..Len(cats)] :
       /\ \A name \in Names : IF Named(name) = {} THEN known[name] = 0
                              ELSE known[name] \in Named(name)
       /\ import' = [import EXCEPT !.at = "category", !.cats = known]
  /\ UNCHANGED <<products, level, posted, cats, sheet, outcome, before, passes, outside,
                 touched, disturbed, apart>>

\* The next row, or the end
Onward == IF import.row < Len(import.rows)
          THEN [import EXCEPT !.at = "category", !.row = @ + 1, !.target = 0, !.cat = 0]
          ELSE Resting
Say(as, on) == outcome' = [outcome EXCEPT ![import.row] = [as |-> as, on |-> on]]

SkipDuplicate ==
  /\ Stands("category") /\ outcome[import.row].as = "skipped" /\ import' = Onward
  /\ UNCHANGED <<products, level, posted, cats, sheet, outcome, before, passes, outside,
                 touched, disturbed, apart>>

\* categoryId, then matchExisting on what was read at first
Filed(known, c) ==
  import' = [import EXCEPT !.at = IF MatchExisting(Row, import.seen) = {} THEN "codes" ELSE "check",
                           !.cats = known, !.cat = c,
                           !.target = IF MatchExisting(Row, import.seen) = {} THEN 0
                                      ELSE CHOOSE p \in MatchExisting(Row, import.seen) : TRUE]

\* categoryId: none is asked for, or that name is known
FindCategory ==
  /\ Stands("category") /\ outcome[import.row].as # "skipped"
  /\ \/ Row.cat = None /\ Filed(import.cats, 0)
     \/ /\ Row.cat # None /\ import.cats[Row.cat] # 0
        /\ Filed(import.cats, import.cats[Row.cat])
  /\ UNCHANGED <<products, level, posted, cats, sheet, outcome, before, passes, outside, touched,
                 disturbed, apart>>

\* createCategory: the row of the table, then its mutation, without which the import does not
\* come to know it; no index holds the name.
CreateCategory ==
  /\ Stands("category") /\ outcome[import.row].as # "skipped"
  /\ Row.cat # None /\ import.cats[Row.cat] = 0
  /\ cats' = Append(cats, [name |-> Row.cat, live |-> TRUE])
  /\ import' = [import EXCEPT !.at = "record", !.cat = Len(cats) + 1]
  /\ UNCHANGED <<products, level, posted, sheet, outcome, before, passes, outside, touched,
                 disturbed, apart>>

RecordCategory ==
  /\ Stands("record") /\ Filed([import.cats EXCEPT ![Row.cat] = import.cat], import.cat)
  /\ UNCHANGED <<products, level, posted, cats, sheet, outcome, before, passes, outside, touched,
                 disturbed, apart>>

\* The row is given up, with the message of what was thrown.
GiveUp == Say("skipped", import.target) /\ import' = Onward

\* updateProduct: the article as it is, if it is still the version that was listed
CheckVersion ==
  /\ Stands("check")
  /\ IF products[import.target].version = import.seen[import.target].version
     THEN /\ import' = [import EXCEPT !.at = "codes", !.old = products[import.target]]
          /\ UNCHANGED outcome
     ELSE GiveUp
  /\ UNCHANGED <<products, level, posted, cats, sheet, before, passes, outside, touched, disturbed,
                 apart>>

\* assertUniqueCodes, and the indexes: no article but these has the codes.
Unused(codes, but) == BySku(products, codes.sku) \cup ByBarcode(products, codes.barcode) \subseteq but

CheckCodes ==
  /\ Stands("codes")
  /\ IF Unused(Row, Target)
     THEN import' = [import EXCEPT !.at = "write"] /\ UNCHANGED outcome
     ELSE GiveUp
  /\ UNCHANGED <<products, level, posted, cats, sheet, before, passes, outside, touched, disturbed,
                 apart>>

\* What a row says of an article; everything else of it is written as it was read.
\* allow_negative_stock is too: the cell that refuses a sale is not listened to.
Written(old, version) ==
  [old EXCEPT !.sku = Row.sku, !.barcode = Row.barcode, !.cat = import.cat,
              !.price = Row.price, !.version = version]
NewId == CHOOSE p \in Ids : products[p].version = 0 /\ \A q \in 1..(p - 1) : products[q].version # 0

\* A code that was taken since is refused by the index, if the article is still there.
Refused ==
  ~Unused(Row, Target) /\ Target \subseteq Listed
RefuseWrite ==
  /\ Stands("write") /\ Refused /\ GiveUp
  /\ UNCHANGED <<products, level, posted, cats, sheet, before, passes, outside, touched, disturbed,
                 apart>>

\* updateProduct, its one statement and its mutation; the level is elsewhere.
WriteUpdate ==
  /\ Stands("write") /\ import.target # 0 /\ ~Refused
  /\ products' = [products EXCEPT ![import.target] =
       [Written(import.old, @.version + 1) EXCEPT !.live = products[import.target].live,
                                                  !.min = products[import.target].min]]
  /\ Say("updated", import.target) /\ import' = [import EXCEPT !.at = "minimum"]
  /\ UNCHANGED <<level, posted, cats, sheet, before, passes, outside, touched, disturbed, apart>>

\* createProduct and its mutation
WriteCreate ==
  /\ Stands("write") /\ import.target = 0 /\ ~Refused /\ \E p \in Ids : products[p].version = 0
  /\ LET new == [Written(NoProduct, 1) EXCEPT !.live = TRUE]
     IN  /\ products' = [products EXCEPT ![NewId] = new]
         /\ Say("created", NewId)
         /\ import' = [import EXCEPT !.seen[NewId] = new, !.old = NoProduct, !.target = NewId,
                                     !.at = IF Row.qty # 0 THEN "stock" ELSE "minimum"]
  /\ UNCHANGED <<level, posted, cats, sheet, before, passes, outside, touched, disturbed, apart>>

PostStock ==
  /\ Stands("stock")
  /\ level' = [level EXCEPT ![import.target] = @ + Row.qty]
  /\ posted' = [posted EXCEPT ![import.target] = @ + 1]
  /\ import' = [import EXCEPT !.at = "minimum"]
  /\ UNCHANGED <<products, cats, sheet, outcome, before, passes, outside, touched, disturbed, apart>>

\* The threshold of an article that was there, or of a new one that a code finds again:
\* without a code it is lost.
MinimumSet ==
  \/ outcome[import.row].as = "updated"
  \/ Row.min > 0 /\ CodesOf(Row) # {}

SetMinimum ==
  /\ Stands("minimum") /\ import' = Onward
  /\ products' = IF MinimumSet THEN [products EXCEPT ![import.target].min = Row.min] ELSE products
  /\ UNCHANGED <<level, posted, cats, sheet, outcome, before, passes, outside, touched, disturbed,
                 apart>>

\* A statement fails: the row is said to be skipped, whatever of it was written.  A mutation of
\* an article that is not recorded is a failure at the step after its write: no later row has
\* its codes.  One of a category leaves that category to no row.
Fail ==
  /\ import.at \notin {"none", "categories"} /\ outside < MaxOutside
  /\ outside' = outside + 1 /\ disturbed' = TRUE /\ GiveUp
  /\ apart' = IF Stands("record") THEN apart \cup {Row.cat} ELSE apart
  /\ UNCHANGED <<products, level, posted, cats, sheet, before, passes, touched>>

\* The program stops.
Abandon ==
  /\ import.at # "none" /\ outside < MaxOutside
  /\ outside' = outside + 1 /\ disturbed' = TRUE /\ import' = Resting
  /\ UNCHANGED <<products, level, posted, cats, sheet, outcome, before, passes, touched, apart>>

----------------------------------------------------------------------------
\* The other screens.

Outside == outside < MaxOutside /\ outside' = outside + 1

\* save: one more edit that the form checks and writes; while the import stands between its
\* check and its write, it is lost.
Given(p) == HandCodes \cup {[sku |-> products[p].sku, barcode |-> products[p].barcode]}
EditProduct(p, codes) ==
  /\ Outside /\ products[p].live /\ Unused(codes, {p})
  /\ products' = [products EXCEPT ![p].price = HandPrice, ![p].sku = codes.sku,
                                   ![p].barcode = codes.barcode, ![p].version = @ + 1]
  /\ touched' = IF import.at \in {"codes", "write"} /\ import.target = p THEN touched
                ELSE touched \cup {p}
  /\ disturbed' = TRUE
  /\ UNCHANGED <<level, posted, cats, sheet, import, outcome, before, passes, apart>>

\* save of a new article, with its stock at first
NewByHand(codes) ==
  [NoProduct EXCEPT !.live = TRUE, !.sku = codes.sku, !.barcode = codes.barcode,
                    !.price = HandPrice, !.version = 1]
CreateProduct(codes) ==
  /\ Outside /\ Unused(codes, {}) /\ \E p \in Ids : products[p].version = 0
  /\ products' = [products EXCEPT ![NewId] = NewByHand(codes)]
  /\ level' = [level EXCEPT ![NewId] = 1] /\ posted' = [posted EXCEPT ![NewId] = 1]
  /\ touched' = touched \cup {NewId} /\ disturbed' = TRUE
  /\ UNCHANGED <<cats, sheet, import, outcome, before, passes, apart>>

\* remove, deleteProduct: its codes are free again.
DeleteProduct(p) ==
  /\ Outside /\ products[p].live
  /\ products' = [products EXCEPT ![p].live = FALSE, ![p].sku = None, ![p].barcode = None,
                                   ![p].version = @ + 1]
  /\ touched' = touched \ {p} /\ disturbed' = TRUE
  /\ UNCHANGED <<level, posted, cats, sheet, import, outcome, before, passes, apart>>

\* deleteCategory: its articles have none, and keep their version.
DeleteCategory(c) ==
  /\ Outside /\ cats[c].live
  /\ cats' = [cats EXCEPT ![c].live = FALSE]
  /\ products' = [p \in Ids |-> IF products[p].cat = c THEN [products[p] EXCEPT !.cat = 0]
                                ELSE products[p]]
  /\ disturbed' = TRUE
  /\ UNCHANGED <<level, posted, sheet, import, outcome, before, passes, touched, apart>>

\* CategoryManager, or what another till made, pulled: nothing keeps two from one name.
Clashes(name, c) ==
  \/ Named(name) \ {c} # {}
  \/ import.at \notin {"none", "categories"} /\ import.cats[name] = 0
Noted(name, c) == apart' = IF Clashes(name, c) THEN apart \cup {name} ELSE apart

AddCategory(name) ==
  /\ Outside /\ cats' = Append(cats, [name |-> name, live |-> TRUE]) /\ Noted(name, 0)
  /\ UNCHANGED <<products, level, posted, sheet, import, outcome, before, passes, touched,
                 disturbed>>

RenameCategory(c, name) ==
  /\ Outside /\ cats[c].live
  /\ cats' = [cats EXCEPT ![c].name = name] /\ Noted(name, c)
  /\ UNCHANGED <<products, level, posted, sheet, import, outcome, before, passes, touched,
                 disturbed>>

Sell(p) ==
  /\ Outside /\ products[p].live /\ level' = [level EXCEPT ![p] = @ - 1]
  /\ UNCHANGED <<products, posted, cats, sheet, import, outcome, before, passes, touched, disturbed,
                 apart>>

TransferNext ==
  \/ Export \/ Apply \/ ReadCategories \/ SkipDuplicate \/ FindCategory \/ CreateCategory
  \/ RecordCategory \/ CheckVersion \/ CheckCodes \/ RefuseWrite \/ WriteUpdate \/ WriteCreate
  \/ PostStock \/ SetMinimum \/ Fail \/ Abandon
  \/ \E p \in Ids : DeleteProduct(p) \/ Sell(p) \/ \E codes \in Given(p) : EditProduct(p, codes)
  \/ \E codes \in HandCodes : CreateProduct(codes)
  \/ \E c \in DOMAIN cats : DeleteCategory(c) \/ \E name \in HandNames : RenameCategory(c, name)
  \/ \E name \in HandNames : AddCategory(name)

----------------------------------------------------------------------------
\* Properties.

TransferTypeOK ==
  /\ \A p \in Ids : products[p].cat \in 0..Len(cats) /\ products[p].version \in Nat
  /\ \A p \in Ids : Cardinality(BySku(products, products[p].sku)) <= 1
                   /\ Cardinality(ByBarcode(products, products[p].barcode)) <= 1
  /\ level \in [Ids -> Int] /\ posted \in [Ids -> Nat]
  /\ Stands("none") \/ (import.row \in DOMAIN import.rows /\ DOMAIN outcome = DOMAIN import.rows)
  /\ touched \subseteq Ids /\ disturbed \in BOOLEAN /\ apart \subseteq Names

\* However many passes a sheet takes, the stock of an article is set once, when it is created
\* ("le stock n'est pose qu'a la creation", importRows).
StockSetOnce == \A p \in Ids : posted[p] <= 1

\* A row that went through once, or that the export gave, goes through again on the same
\* article: a second pass creates nothing that has a code and stumbles on nothing, in any order
\* of the rows and whatever codes they exchange.
SameAgain ==
  ~disturbed => \A i \in DOMAIN outcome \cap DOMAIN before :
    before[i].as \in {"created", "updated"} /\ CodesOf(Rows(sheet)[i]) # {} =>
      outcome[i] \in {NotYet, [as |-> "updated", on |-> before[i].on]}

\* What the till says it created or updated is so, to the threshold and the stock at first,
\* until another screen changes it; a threshold below nothing is one an article does without.
OutcomeTrue ==
  ~disturbed => \A i \in DOMAIN outcome : LET row == Rows(sheet)[i] p == outcome[i].on IN
    (outcome[i].as \in {"created", "updated"} /\ (Stands("none") \/ i < import.row)) =>
      /\ products[p].live /\ products[p].price = row.price
      /\ products[p].sku = row.sku /\ products[p].barcode = row.barcode
      /\ products[p].cat = 0 <=> row.cat = None
      /\ outcome[i].as = "updated" \/ (CodesOf(row) # {} /\ row.min >= 0) =>
           products[p].min = row.min
      /\ outcome[i].as = "created" /\ row.qty # 0 => posted[p] = 1

\* A price set by hand after the import listed the article is not written over with the
\* sheet's, unless it came between the check of the version and the write.
HandPriceKept == \A p \in touched : products[p].price = HandPrice

\* Rows that name the same category, already there or not, are filed under one, in one pass or
\* several, whatever fails, stops or is deleted: no name is on two categories, unless a screen
\* or another till put it there, or the one the import made could not be recorded.
OneCategoryPerName ==
  \A c, d \in DOMAIN cats :
    cats[c].live /\ cats[d].live /\ cats[c].name = cats[d].name /\ c # d => cats[c].name \in apart

\* Taking a sheet in, once or more, does what it says and no more.
ImportIsFaithful ==
  /\ TransferTypeOK /\ StockSetOnce /\ SameAgain
  /\ OutcomeTrue /\ HandPriceKept /\ OneCategoryPerName
=============================================================================
