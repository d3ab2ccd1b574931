---------------------------- MODULE EntityTables ----------------------------
(***************************************************************************)
(* Which fields each kind of row has, and which of them every stage of     *)
(* the synchronisation keeps: what the tills' repositories send, what the  *)
(* handlers of the server store, let an update write and send back, and    *)
(* what the table of columns of the tills (core/sync/apply.ts) takes in.   *)
(* Nothing but these tables decides whether a field typed on one till is   *)
(* seen on another.  The identifier and the company of a row are left out. *)
(***************************************************************************)
EXTENDS TLC

\* Domain types of packages/shared.
SyncMeta == {"createdAt", "updatedAt", "deletedAt", "version"}
Company  == {"name", "currency", "country", "pricesIncludeTax"}
Category == {"parentId", "name", "color", "position"}
Product  ==
  {"categoryId", "sku", "barcode", "name", "description", "unit", "priceCents", "costCents",
   "allowNegativeStock", "taxRateBp", "trackStock", "isActive", "imagePath", "parentId",
   "variantLabel", "supplierId", "wholesalePriceCents", "wholesaleMinQtyMilli"}
StockMovement ==
  {"storeId", "productId", "type", "qtyMilliDelta", "reason", "refType", "refId", "userId",
   "createdAt"}
Sale ==
  {"storeId", "registerId", "cashSessionId", "userId", "receiptNumber", "seqInRegister", "status",
   "subtotalCents", "discountCents", "taxCents", "totalCents", "currency", "refundOfSaleId",
   "customerId", "note", "soldAt", "prevHash", "signature"}
SaleItem ==
  {"saleId", "productId", "nameSnapshot", "skuSnapshot", "unitPriceCents", "qtyMilli",
   "discountCents", "taxRateBp", "taxCents", "lineTotalCents", "position", "promotionId",
   "promotionName"}
Payment ==
  {"saleId", "method", "amountCents", "tenderedCents", "changeCents", "reference", "createdAt"}
Closing ==
  {"closedBy", "closedAt", "countedCents", "expectedCents", "differenceCents", "closingCount",
   "status"}
CashSession ==
  {"storeId", "registerId", "openedBy", "openedAt", "openingFloatCents", "openingCount"} \cup Closing
Customer ==
  {"name", "phone", "email", "address", "note", "creditLimitCents", "wholesale"}
CustomerAccountMovement ==
  {"customerId", "storeId", "type", "amountCents", "method", "cashSessionId", "refType", "refId",
   "userId", "note", "createdAt"}
Supplier == {"name", "contact", "phone", "email", "address", "note"}
PurchaseReceipt ==
  {"storeId", "supplierId", "reference", "status", "totalCents", "currency", "note", "receivedAt",
   "receivedBy"}
PurchaseReceiptItem ==
  {"receiptId", "productId", "qtyMilli", "unitCostCents", "lineTotalCents", "position"}
LocalUser == {"email", "fullName", "role", "isActive", "pinHash"}
Promotion ==
  {"name", "kind", "productId", "categoryId", "percentBp", "amountCents", "buyQty", "payQty",
   "startsAt", "endsAt", "isActive"}
HeldCart ==
  {"storeId", "registerId", "kind", "label", "customerId", "lines", "currency", "totalCents",
   "note", "validUntil", "createdBy"}

FieldsOf ==
  [company |-> Company, category |-> Category, product |-> Product,
   stock_movement |-> StockMovement, sale |-> Sale, sale_item |-> SaleItem, payment |-> Payment,
   cash_session |-> CashSession, customer |-> Customer,
   customer_movement |-> CustomerAccountMovement, supplier |-> Supplier,
   purchase_receipt |-> PurchaseReceipt, purchase_receipt_item |-> PurchaseReceiptItem,
   app_user |-> LocalUser, promotion |-> Promotion, held_cart |-> HeldCart]

-----------------------------------------------------------------------------
(* The repositories of a till: the fields a creation gives a value (it      *)
(* sends the whole row), the sets of fields an update may send, whether an  *)
(* update says which version it was made from, and whether a row may be     *)
(* deleted.                                                                 *)
Sends(created, updates, based, deletes) ==
  [created |-> created, updates |-> updates, based |-> based, deletes |-> deletes]
CreatedOnly(fields) == Sends(fields, {}, FALSE, FALSE)

\* The form of a product sends all it shows, what has not changed included; the
\* repository keeps these of them.
ProductForm ==
  {"name", "categoryId", "sku", "barcode", "unit", "priceCents", "costCents", "taxRateBp",
   "trackStock", "isActive", "variantLabel", "wholesalePriceCents", "wholesaleMinQtyMilli"}
ImportedLine ==
  {"name", "sku", "barcode", "categoryId", "unit", "priceCents", "costCents", "taxRateBp",
   "trackStock", "isActive"}

CategoryEdits == Sends(Category, {{"name"}, {"color"}, {"position"}}, TRUE, TRUE)
ProductEdits  == Sends(Product \ {"imagePath"}, {ProductForm, ImportedLine, {"costCents"}}, TRUE, TRUE)
SessionEdits  == Sends((CashSession \ Closing) \cup {"status"}, {Closing}, TRUE, FALSE)
CustomerEdits == Sends(Customer, {{"phone"}, {"creditLimitCents"}, Customer}, TRUE, TRUE)
SupplierEdits == Sends(Supplier, {}, TRUE, TRUE)
UserEdits     == Sends(LocalUser \ {"email"}, {{"pinHash"}, {"role"}, {"isActive"}}, FALSE, FALSE)
CompanyEdits  == Sends({}, {{"name"}}, TRUE, FALSE)
PromotionEdits == Sends(Promotion, {{"isActive"}}, TRUE, TRUE)
HeldCartEdits == Sends(HeldCart, {}, FALSE, TRUE)

EditsOf ==
  [company |-> CompanyEdits, category |-> CategoryEdits, product |-> ProductEdits,
   stock_movement |-> CreatedOnly(StockMovement), sale |-> CreatedOnly(Sale),
   sale_item |-> CreatedOnly(SaleItem), payment |-> CreatedOnly(Payment),
   cash_session |-> SessionEdits, customer |-> CustomerEdits,
   customer_movement |-> CreatedOnly(CustomerAccountMovement), supplier |-> SupplierEdits,
   purchase_receipt |-> CreatedOnly(PurchaseReceipt),
   purchase_receipt_item |-> CreatedOnly(PurchaseReceiptItem), app_user |-> UserEdits,
   promotion |-> PromotionEdits, held_cart |-> HeldCartEdits]

-----------------------------------------------------------------------------
(* The handlers of the server: the fields a creation stores and those an    *)
(* update may write.                                                        *)
Mutable(stored, writable) == [kind |-> "mutable", stored |-> stored, writable |-> writable]
Immutable(stored) == [kind |-> "immutable", stored |-> stored, writable |-> {}]

COMPANY      == Mutable({}, {"name"})
CATEGORY     == Mutable(Category, Category)
PRODUCT      == Mutable(Product \ {"allowNegativeStock", "imagePath"},
                        Product \ {"allowNegativeStock", "imagePath"})
STOCK_MOVEMENT == Immutable(StockMovement)
SALE         == Immutable(Sale)
SALE_ITEM    == Immutable(SaleItem)
PAYMENT      == Immutable(Payment)
CASH_SESSION == Mutable((CashSession \ Closing) \cup {"status"}, Closing)
CUSTOMER     == Mutable(Customer, Customer)
CUSTOMER_MOVEMENT == Immutable(CustomerAccountMovement)
SUPPLIER     == Mutable(Supplier, Supplier)
PURCHASE_RECEIPT      == Immutable(PurchaseReceipt)
PURCHASE_RECEIPT_ITEM == Immutable(PurchaseReceiptItem)
APP_USER     == Mutable(LocalUser \ {"email"}, {"fullName", "role", "pinHash", "isActive"})
PROMOTION    == Mutable(Promotion, Promotion)
HELD_CART    == Mutable(HeldCart, {})

\* The handlers a push looks up: promotions and held carts have one, not listed.
ENTITY_HANDLERS ==
  [company |-> COMPANY, app_user |-> APP_USER, category |-> CATEGORY, product |-> PRODUCT,
   stock_movement |-> STOCK_MOVEMENT, sale |-> SALE, sale_item |-> SALE_ITEM,
   payment |-> PAYMENT, cash_session |-> CASH_SESSION, customer |-> CUSTOMER,
   customer_movement |-> CUSTOMER_MOVEMENT, supplier |-> SUPPLIER,
   purchase_receipt |-> PURCHASE_RECEIPT, purchase_receipt_item |-> PURCHASE_RECEIPT_ITEM]

\* Fields whose collision waits for a person.
MANUAL_CONFLICT_FIELDS ==
  [product |-> {"priceCents", "deletedAt"}, category |-> {"deletedAt"},
   app_user |-> {"role", "deletedAt"}, customer |-> {"creditLimitCents", "deletedAt"},
   supplier |-> {"deletedAt"}, promotion |-> {"percentBp", "amountCents", "deletedAt"}]

-----------------------------------------------------------------------------
(* What the server sends of a row, in an answer or a change (mappers-*.ts). *)
toCompanyState == {"name", "currency", "updatedAt", "version"}
toCategory == Category \cup SyncMeta
toProduct  == Product \cup SyncMeta
toStockMovement == StockMovement
toPromotion == Promotion
toHeldCart == HeldCart \cup SyncMeta
toCustomer == Customer \cup SyncMeta
toCustomerMovement == CustomerAccountMovement
toSupplier == Supplier \cup SyncMeta
toPurchaseReceipt == PurchaseReceipt \cup SyncMeta
toPurchaseReceiptItem == PurchaseReceiptItem
toSale     == Sale \cup SyncMeta
toSaleItem == SaleItem
toPayment  == Payment
toCashSession == CashSession \cup SyncMeta
toLocalUser == LocalUser \cup SyncMeta

PayloadOf ==
  [company |-> toCompanyState, app_user |-> toLocalUser, category |-> toCategory,
   product |-> toProduct, stock_movement |-> toStockMovement, sale |-> toSale,
   sale_item |-> toSaleItem, payment |-> toPayment, cash_session |-> toCashSession,
   customer |-> toCustomer, customer_movement |-> toCustomerMovement,
   supplier |-> toSupplier, purchase_receipt |-> toPurchaseReceipt,
   purchase_receipt_item |-> toPurchaseReceiptItem, promotion |-> toPromotion,
   held_cart |-> toHeldCart]

-----------------------------------------------------------------------------
(* The columns a till writes of what it receives (TABLES), and those its    *)
(* schema wants and gives no default.                                       *)
\* Seeded fault: the column of a variant's label is forgotten.
CatalogForgetting ==
  [company |-> Company \cup SyncMeta, app_user |-> LocalUser \cup SyncMeta,
   category |-> Category \cup SyncMeta,
   product |-> (Product \ {"allowNegativeStock", "variantLabel"}) \cup SyncMeta]
CatalogTables ==
  [company |-> Company \cup SyncMeta, app_user |-> LocalUser \cup SyncMeta,
   category |-> Category \cup SyncMeta,
   product |-> (Product \ {"allowNegativeStock"}) \cup SyncMeta]
SalesTables ==
  [cash_session |-> (CashSession \ {"openingCount", "closingCount"}) \cup SyncMeta,
   sale |-> Sale \cup SyncMeta, sale_item |-> SaleItem, payment |-> Payment,
   purchase_receipt |-> PurchaseReceipt \cup (SyncMeta \ {"deletedAt"}),
   purchase_receipt_item |-> PurchaseReceiptItem]
PartyTables ==
  [held_cart |-> HeldCart \cup SyncMeta, promotion |-> Promotion \cup SyncMeta,
   supplier |-> Supplier \cup SyncMeta, customer |-> Customer \cup SyncMeta,
   customer_movement |-> CustomerAccountMovement, stock_movement |-> StockMovement]

ColumnsOf == CatalogTables @@ SalesTables @@ PartyTables

Dated == {"createdAt", "updatedAt"}
FirstSchema ==
  [company |-> Dated \cup {"name"}, app_user |-> Dated \cup {"fullName", "role"},
   category |-> Dated \cup {"name"}, product |-> Dated \cup {"name", "priceCents"},
   stock_movement |-> {"storeId", "productId", "type", "qtyMilliDelta", "createdAt"},
   cash_session |-> Dated \cup {"storeId", "registerId", "openedBy", "openedAt"},
   sale |-> Dated \cup {"storeId", "registerId", "userId", "receiptNumber", "seqInRegister",
                        "subtotalCents", "totalCents", "currency", "soldAt"},
   sale_item |-> {"saleId", "nameSnapshot", "unitPriceCents", "qtyMilli", "lineTotalCents"},
   payment |-> {"saleId", "method", "amountCents", "createdAt"}]
SuppliesSchema ==
  [supplier |-> Dated \cup {"name"}, purchase_receipt |-> Dated \cup {"storeId", "currency"},
   purchase_receipt_item |-> {"receiptId", "productId", "qtyMilli", "unitCostCents",
                              "lineTotalCents"}]
AccountSchema ==
  [customer |-> Dated \cup {"name"},
   customer_movement |-> {"customerId", "storeId", "type", "amountCents", "createdAt"}]
OffersSchema == [promotion |-> Dated \cup {"name", "kind"}]
CartsSchema ==
  [held_cart |-> Dated \cup {"storeId", "registerId", "kind", "label", "lines", "currency"}]

WantedOf == FirstSchema @@ SuppliesSchema @@ AccountSchema @@ OffersSchema @@ CartsSchema
=============================================================================
