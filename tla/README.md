# A specification of Caisse

Caisse is a point of sale that works without a network. Each till keeps
everything in a SQLite database of its own and synchronises it with a server
(NestJS, PostgreSQL) when it can. This directory models the parts of the
program where several actors meet (tills, server, cashiers, waiters' phones,
crashes, lost replies, late answers) and the computations money depends on, checks
them with TLC and proves the most important facts with TLAPS. Paths below are
relative to `src/`.

## 1. Inventory

| Part | State | Operations | Talks to |
| --- | --- | --- | --- |
| Repositories of the till (`apps/desktop/src/core/db/repositories`) | SQLite tables: catalogue, stock, sales, sessions, customers, orders, purchasing | create / update / delete, each followed by `outbox.enqueue` | the database, the outbox |
| Outbox (`outbox.repository.ts`) | `outbox` rows: payload, base version, status, attempts | enqueue, pending, markSent, markFailed, markConflict | repositories, engine |
| Synchronisation engine (`core/sync`) | `sync_cursor`, deferred changes, `sync_conflict` | pushPending, pullChanges, RemoteChangeApplier.apply, deferred replay, resolve | outbox, server, tables |
| Engine loop and session (`engine.ts`, `app/SessionProvider.tsx`) | timer, `running`, current engine | start, stop, tick, syncOnce; sign in, sign out | the engine, the screens |
| Merge rules (`packages/shared/src/sync/merge.ts`) | none | clientWins, resolveUpdate | server |
| Server synchronisation (`apps/api/src/modules/sync`) | the tenant's rows, `change_log`, `processed_mutation` | push (applyOne per mutation, one transaction each), pull | PostgreSQL, tills |
| Synchronised tables (`entity-handlers.ts`, the mappers, `apply.ts`) | which columns each stage keeps | create, update, toWire, upsert | engine, server |
| Counter (`SaleScreen.tsx`, `PaymentPanel.tsx`, `packages/shared/src/cart`) | the cart, the customer, lookups under way, the parts of a payment | scan, edit, discount, hold, resume, pay | sales, promotions, held carts |
| Sales, refunds, cash sessions, customers (`sale`, `cash-session`, `customer.repository.ts`) | sales, lines, payments, balances, sessions | record, recordRefund, open, close, chargeSale, settle | stock, outbox |
| Reports (`history.repository.ts`, `reports/summary.ts`, `customers/account.ts`) | none | the day, the drawer, the age of a debt | the tables above |
| Restaurant (`order.repository.ts`, `src-tauri/src/server`) | orders, lines | open, add, send, deliver, bill, release; the same over HTTP from the waiters' phones | one SQLite file, two programs |
| Waiters' sessions (`server/sessions.rs`) | sessions, attempts, in memory | login, require_session | the phones |
| Purchasing and stock (`purchasing`, `stock.repository.ts`) | receipts and their lines, movements, levels, average cost | addItem, receive, move, count, rebuild | outbox |
| Transfer of the catalogue (`catalog/transfer.ts`, `transfer.repository.ts`) | none | export, import | catalogue, stock |
| Authentication (`core/auth`, `apps/api/src/modules/auth`, `users`) | accounts, PIN guards, tokens, counters of failures | installation, PIN, refresh, account changes, throttle | server |
| Back office of the API (`apps/api/src/modules/catalog`, `stock`, `devices`) | products, categories, levels, registers, devices, `change_log` | create / update / remove, adjust, count, enroll, revoke | PostgreSQL, tills by the log |
| Licences and the publisher's keyring (`core/licence`, `packages/shared/src/licence`, `apps/licences`) | the key, the ratchet of dates; one encrypted file | activate, status; emit, register | — |
| Other screens, the back office's pages, reports of the API, printing, updater, deployment | — | presentation, single statements, input/output | the above |

What is hard here: a till writes a row and its mutation by two statements, and its
`transaction` holds nothing together; a reply may be lost after the server has
committed; the cashier edits between any two awaits; an answer to a scan comes after
the cart has changed; a journal row must be counted once and only once; two tills
edit one row from the same version; till and phones write the same orders; two
requests run at once on the server at READ COMMITTED; an engine that was stopped
finishes its cycle; a child row overtakes its parent; a button does not wait for what
it began; a clock is set back; cents do not divide. `PROJECT.json` lists each such
hazard at its line, with the properties that watch it, and the components, the ones
left out too.

What makes each part correct is stated by the properties of section 4.

## 2. Plan

The order is that of what hurts most if it is wrong.

1. **Synchronisation**: `MergeRules`, `SyncProtocol`, its abstract
   specification `CausalRows`, then `ServerTransactions` (the server's step of
   `SyncProtocol` taken apart), `SyncEngineLoop` (what starts and stops the
   cycles of `SyncProtocol`), `MergeOrder` (many updates of one row),
   `EntityTables`, `EntityFields` (the same journey with the columns by name) and
   `ServerDesk` (the back office, which writes the same log).
2. **Money**: `CartRules` and `SaleCounter` up to the ticket, `TillSales` for its
   recording, statement by statement, `DayBooks` for what is added up afterwards.
3. **The restaurant**: `RestaurantOrders`, and `WaiterAccess` for its phones.
4. **Behind the counter**: `Purchasing`, `CatalogTransfer`.
5. **Who gets in**: `TillAccess`, `ServerSessions`, `LoginThrottle`, `TillLicence`
   over `LicenceRules`, `Keyring`.
6. **Proofs**, one module `…Proofs` a component: types, then the safety
   properties, over `SumTheorems` where they add amounts up.

All of it is there. What would come next: `SyncProtocol` as a refinement target of
`ServerTransactions`; rooms and tables.

Who uses whom: `SyncProtocol`, `ServerTransactions`, `MergeOrder` and `EntityFields`
extend `MergeRules`; `SyncProtocol` instantiates `CausalRows`; `SaleCounter` extends
`CartRules`, `TillLicence` extends `LicenceRules`, `EntityFields` extends
`EntityTables`. Components that share no state are checked side by side by one
instance, whose variable `part` says which of them a behaviour is of: `MCShop` (`SaleCounter`,
`DayBooks`, `RestaurantOrders`), `MCAccess` (`TillAccess`, `WaiterAccess`,
`ServerSessions`, `LoginThrottle`), `MCBackOffice` (`Purchasing`, `TillLicence`,
`Keyring`, `CatalogTransfer`) and `MCSyncEngineLoop` (`SyncEngineLoop`, `MergeOrder`,
`EntityFields`, `ServerDesk`).

## 3. The modules and the code

**MergeRules** is `merge.ts`: `ClientWins` (date, then device) and
`ResolveUpdate` (apply, merge, manual, ignore), called with the same record of
inputs as the code.

**SyncProtocol** is the protocol. Its variables are the tables of the server
(`srv`, `total`, `log`, `processed`), the requests in flight (`wire`, `ghost`,
`reply`), the tables of each till (`row`, `level`, `mut`/`st`/`att` for the
outbox, `open` for conflicts, `cursor`, `deferred`) and the memory of its engine
(`edit`, `pc`, `sent`, `todo`, `acked`, `page`, `upto`, `more`, `replaying`). A
step of a till is one SQL write with the reads before it, or a read that a later
write relies on. Actions by code:

| Code | Actions |
| --- | --- |
| `createProduct`, `updateProduct`, `deleteProduct`, `recordMovement`, `enqueue` | `LocalCreate`, `LocalUpdate`, `LocalDelete`, `LocalLevel`, `Enqueue` |
| `conflicts.resolve` | `ResolveServer`, `ResolveLocal`, `Enqueue`, `CloseConflict` |
| `pushPending` | `PushNothing`, `PushBatch`, `AnswerAccepted`, `AnswerConflict`, `MarkConflict`, `AnswerRejected`, `MarkSent`, `PushDone` |
| `pullChanges`, `apply`, `retryDeferred` | `Pull`, `ApplySkip`, `ApplyStart`, `ApplyUpsert`, `ApplyLevel`, `ApplyDefer`, `PageDone`, `CycleDone` |
| `applyOne` and its handlers | `ServeReplay`, `ServeThrow`, `ServeCreate`, `ServeUnknown`, `ServeDeleted`, `ServeDelete`, `ServeUpdate`, `ServeKeep` |
| time-outs and the process dying | `RequestLost`, `Crash` |

The value of a field is the number of the mutation that wrote it, so that who
overwrote whom can be read from a row. Joined into one step: the removal of a
deferred change with the write that applies it (gone through twice, it is passed
over), the reads of `ApplySkip`, and a mutation on the server, whose
statements are in `ServerTransactions`; the fields are a sensitive and an ordinary
one, the columns are in `EntityFields`. Left out: the bound of 50 pages in one
cycle, the filter on the store, the device's activation, the protocol version
and the clock's offset. A till has at most one abandoned request in flight.

**CausalRows** is what the tables promise: rows only spread, from their author
to the server and on to the tills, each after the rows it references.
`SyncProtocol` implements it (`RowsSpread`).

**ServerTransactions** is `applyOne` statement by statement: `Dedupe` (look up
`processed_mutation`), `Find`, `Weigh` (read the log, resolve), `WriteRow` (takes
the row's lock), `LogChange` (takes the next `seq`), `StoreAnswer` (waits for the
key), `CommitTx`, `Throw`. Reads see what is committed when they run; `seq` is
never given back. A till has one mutation and may send it while an earlier
sending is still handled. `Pull` reads the committed log.

**SyncEngineLoop** is `start`, `stop`, `tick`, `syncOnce` and the session that
makes an engine and stops it. One callback runs at a time; a cycle only begins,
works and ends, each end of an awaited call being a step. The pause between two
ticks (jitter, back-off) is not modelled.

**ServerDesk** is the back office: the requests of `products`, `categories`, `stock`
and `devices.service.ts`, each one transaction at READ COMMITTED. What a request asks
(`Asks`: a version its caller may have on screen, a parent, a quantity) is chosen when
it begins; each statement that reads is a step (`FindProduct`, `FindCategory`,
`CheckCategory`, `Climb` for `assertNoCycle`, `CountChildren`, `CountToDelta`,
`ChooseRegister`), and the writes and the commit are one, for the first write locks the
row (`CreateProduct`, `UpdateProduct`, `RemoveProduct`, the same of a category,
`MoveStock`, `SetMinimum`, `Enroll`, `Revoke`). `told` is what they write in
`change_log`. A code already taken is one of the causes of `Fail`; the tokens a
revocation ends belong to `ServerSessions`, where a token names no device.
`assertNoCycle` climbs 20 levels and no more: what `TreeHolds` claims, and what is
proved, is that no category leads back to itself in as many levels as are climbed; a
chain deeper than that can still be closed into a ring.

**MergeOrder** is one row, many tills' updates of it from the same version, every
order of arrival, no sensitive field.

**RestaurantOrders** is the restaurant's part of the till's database and the two
programs that write it. Its variables are the rows (`order`, `line`), the
operation each clerk has under way (`op`: next statement and what was read), what
each sale charged (`sold`), the events for the kitchen printer (`bells`) and what
was printed; `cut` remembers what a failure left half done. An operation is a
read, then one step per write, so that others' statements run in between; the
reads of one operation are one step, and `touch`, which only dates the order, is
none.

| Code | Actions |
| --- | --- |
| `open`, `open_order` | `OpenRead`, `OpenInsert`, `OpenRefused` |
| `addItem`, `add_item`; `removeItem`, `remove_item` | `AddRead`, `AddInsert`; `RemoveRead`, `RemoveDelete`, `RemoveVoid` |
| `sendToKitchen` and `envoyer`; `send_to_kitchen`; `useKitchenTickets` | `SendRead`, `SendMark`, `PrintTicket`; `PhoneSend`; `KitchenTicket` |
| `markDelivered`; `deliver` | `DeliverRead`, `DeliverMark`; `PhoneDeliver`, `PhoneUndo` |
| `releaseTable`; `release_table`; `move_order` | `ReleaseRead`, `ReleaseVoid`, `Close`; `PhoneRelease`, `Close`, `CloseNothing`; `MoveRead`, `MoveWrite` |
| `encaisser`: `toCart`, `record`, `markBilled` | `PayLook`, `PayCart`, `PayRecord`, `MarkBilled`, `Settle`, `Close` |
| a statement that fails, the process dying | `StatementFails`, `Crash` |

The payment panel lets one payment through, but Escape closes it over a payment under way
and another may be opened (`PayLook`): `twice` names the lines of two payments at once. An
`UPDATE` with its condition is one step, as in SQLite. Times are the numbers of
the operations, so no two sends bear the same millisecond. Left out: the
number of guests, rooms and tables, what no screen calls (`cancel`, `moveToTable`,
`undoDelivered`), and the sale itself, one step here. `TillSales` has its statements.

**TillSales** is what a till knows of money: the tables (`sale`, `item`, `paid`,
`moved` and `level` for the stock, `charged` and `settled` for the account, `session`
for the drawer), the ticket each screen is writing (`op`: the next statement, what
was read, what is left to write), a closing and a settlement under way, and what the
properties remember (`drawer`: the cash that really changed hands; `cut`, `refused`,
`overlapped`, `returned`, `misfits`). `record` and `recordRefund` are called in a
transaction, but `TauriExecutor.transaction` only holds back what is executed through
the executor it passes, which the repositories ignore: each statement is a step.

| Code | Actions |
| --- | --- |
| `record`: `assertStockSuffisant`; `nextSequence`, `openSessionId`; the inserts | `RecordCheck`; `ReadSequence`; `InsertSale`, `InsertRefused`, `InsertItem`, `InsertPayment` |
| `recordRefund`, `buildRefund` | `RefundCheck`, then the steps of `record` up to the stock |
| `decrementStock`, `restoreStock` | `InsertMovement`, `MoveLevel` |
| `chargeSale`, `checkCredit` | `ReadBalance`, `CreditRefused`, `ChargeSale` |
| `open`, `close`, `computeCashReport` | `OpenSession`, `CloseRead`, `CloseWrite` |
| `regler`, `settle` | `SettleRead`, `SettleWrite` |
| a sale pulled from another register | `Arrive`, `ArriveMisfit` |
| a statement that fails, the process dying | `StatementFails`, `Crash` |

An article costs one unit, a cart has one of each, and every ticket bears the same
customer, so that discounts, taxes and quantities are left out (a ticket is worth its lines: the
taxes
that prices may leave out are in `SaleCounter` and `DayBooks`); the drawer's float is zero. The
mutation enqueued after a statement is part of it here (`SyncProtocol` takes
them apart), and the reads of one operation are one step. A sale that arrives from
the other register brings its lines and payment at once.

**EntityTables** and **EntityFields** follow one row of any synchronised kind with its
columns by name: what the repository sends (`EditsOf`, `PayloadOf`), what the handler of
the server stores and sends back, what `apply.ts` takes in (`ColumnsOf`) and what SQLite
insists on (`WantedOf`). A till writes (`CreateRow`, `EditRow`, `DeleteRow`), its engine
goes round (`Round`: `ServerHandles`, `TakeReplies`, `TakeRefusal`, `PullChange`,
`ReplayChange`). A round never fails here; what fails is in `SyncProtocol`.

**CartRules** is the arithmetic of the cart, over integers, roundings included:
`LineAmount`, `PercentAmount`, `ResolveUnitPrice`, `BestPromotion`, `ApplyPromotions`,
`DistributeProportionally`, `ComputeTotals`, `BuildPayment`, `SummarizePayments`.

**SaleCounter** is the sale screen with its payment panel: `cart`, `customer`, what the
screen loaded and what is stored (`promotions`, `stored`), scans under way (`lookups`),
carts put `aside` and `held`, the `panel` with its `parts`, the `recordings` under way and
the `day`. `resumed` names the lines taken back from a held cart and not priced since
(a line an article is added to is priced again).

| Code | Actions |
| --- | --- |
| `add`, `onSearchSubmit`, `addPese` | `Tile`, `Scan`, `Found`, `NotFound` |
| `augmenter`, `diminuer`, `askQuantity`, `askDiscount`, "Vider" | `ChangeQuantity`, `AskDiscount`, `Clear` |
| `choisirClient`, `chercherClient` | `ChooseCustomer` |
| `mettreDeCote`, `hold`, `reprendre` | `PutAside`, `DoNotHold`, `Hold`, `Resume` |
| `PaymentPanel`: `addPart`, `confirm`, `onKeyDown` | `Pay`, `AddPart`, `RemovePart`, `Confirm`, `ClosePanel`, `Recorded`, `NotRecorded` |
| promotions created, switched, removed; the screen mounted; midnight | `ChangePromotion`, `Mount`, `NextDay` |

**DayBooks** is what a till computes from its tables: the day of a ticket (`DayRange`),
the summary (`SummaryOf`), the drawer's panel and its count of notes (`Report`,
`Governing`), the age of a debt (`AgeDays`). A ticket's taxes are in the prices of its lines or
`added` to
their total, as `computeTotals` does when prices exclude them; a refund gives the lines back
(`buildRefund`). Tickets, refunds and movements of accounts
come in late and in any order, as they do when they are pulled (`RecordTicket`,
`RefundTicket`, `EnterMovement`); the drawer is opened, counted and closed (`OpenDrawer`,
`CloseDrawer`, `LoadPanel`), customers are created with what they owed before
(`CreateDebtor`, `WriteOpening`, `CutOpening`).

**Purchasing** is one delivery and its article: `receipt`, the journal and the level
(`stock`), the average cost (`paid`), what has `entered`, the outbox (`sent`) and what
each operation under way still has to do (`hand`). Operations are begun by
`CreateReceipt` and `Begin…` and go on by the statements of `addLine`, `removeLine`,
`refreshTotal`, `receive`, `updateCost`, `recordMovement`, `rebuildLevels`; `PullCost` is
another till's cost, `Die` the end of the program. `torn` remembers what a death or two
operations at once left apart.

**CatalogTransfer** is a catalogue exported to a sheet and imported, pass after pass
(`Export`, `Apply`, `ReadCategories`, then line by line `SkipDuplicate`, `FindCategory` or
`CreateCategory` and `RecordCategory`, `CheckVersion`, `CheckCodes`, `WriteUpdate`,
`WriteCreate` or `RefuseWrite`, `PostStock`, `SetMinimum`), while the other screens create,
edit and delete articles, name and rename categories, which other tills do too, and sell, a
line fails (`Fail`) or the program stops (`Abandon`). A category is inserted by one statement
and its mutation by another, and the import knows the category after the second: `apart`
names those that a failure between the two, or a name given elsewhere, may put on two.
`level` is written and read as the code does, and no property is about it: the stock is
watched by its first movement (`posted`).

**TillAccess** is the installation of a till, alone, with a server or by recovery
(`Begin`, then `Install` one statement at a time, `Installed`, `Unreachable`), the PIN and
its lock (`SubmitPin`, `VerifyPin`, `WrongPin`, `RightPin`), and the accounts managed on it
(`CheckChange` reads what `WriteChange` relies on) or changed elsewhere, sent and pulled by
the engine (`PushBoss`, `PullAccount`). `Stop` ends the program between two statements.

**WaiterAccess** is `sessions.rs` and the two handlers that call it: each call on the
store takes its own lock, so a login is `StartLogin`, `VerifyLogin`, `RecordFailure` or
`RecordSuccess`, `LookUp`, `CloseAll`, `Open`, with other phones' calls between.
`tried` counts the wrong PINs an account has seen at each instant, so that its bound can be
said of every stretch of time (`WrongPinsBounded`).

**ServerSessions** is the refresh tokens of a till and of the back office: `SignIn` and
`OpenSession` for `login`, `FindToken`, `RevokeToken`, `FindUser`, `IssueToken` for `refresh`,
`Logout`, on the server; `AskRefresh`, `StoreTokens`, `Lose`, `StopStoring` on the till;
`AccessExpires` is a quarter of an hour, `Expire` the thirty days of a token. Accounts are
changed by the back office (`CheckUpdate` counts the owners, `CommitUpdate` writes) and by
the mutations of the tills (`PushAccount`), for which the server counts nothing.
**LoginThrottle** is the counter of wrong passwords, read
(`ReadCounter`) and written (`WriteCounter`) by separate statements.

**LicenceRules** is `licence.ts` and `emission.ts` (`Verify`, `Trial`, `JudgeClock`,
`AddMonths`); **TillLicence** the till that uses them: a true day and a clock that may be
set, the ratchet, the key, the day of `installed`, which `Recover` writes anew, the screen.
**Keyring** is the publisher's file, rewritten whole
from a copy by the window (`Click`, `Sign`, `Write`, `Show`) and by the command line
(`RunCommand`), while `PowerCut` leaves the last file, one that it replaced, for no tool waits
until the
directory is on the disk (`behind`, until `Flush`), or, of a file whose bytes were not, a torn
one.

## 4. The runs

| Run | Instance | Shows |
| --- | --- | --- |
| `SyncJournal` | 2 tills, a product and 2 movements of its stock, 3 mutations, 1 failure, pages of 1 | a journal row is published and counted once (`AppliedOnce`), never skipped by a cursor, the same everywhere and never rewritten (`JournalWhole`); `CausalRows` is implemented (`RowsSpread`) |
| `SyncCatalog` | 2 tills, one product, a sensitive and an ordinary field, 2 edits and the arbitration they lead to, 1 failure | the outbox believes only what is committed, the log mirrors the rows and updates accepted in their order converge (`RowsConverge`), a deletion stands, no update made from a published version replaces a price unseen (`SensitiveArbitrated`) |
| `SyncLiveness` | 2 tills, a product and a movement, 1 failure | the outbox drains, accepted journal rows reach every till |
| `ServerRequests` | 2 tills, each mutation sent twice, pulls meanwhile, 1 aborted transaction | published once and answered the same (`AnsweredOnce`), never a deadlock; `VersionsHold`: the log of a row is its versions, no write is lost, a deletion wins, a pull skips only what it overtook |
| `LoopCycles` | 3 sessions, 2 failing local statements; 3 tills, 3 fields, 2 dates; 2 tills, every kind of row, 3 mutations; 2 requests at once of the back office, 4 in all, a product, 2 categories, a till | one loop and one cycle per engine, a healthy session keeps trying; disjoint fields survive, of two writers the last wins; what is typed in a field reaches every till and is kept; the log tells every version, few changes start from one, the tree holds, levels add up, registers are told (`DeskHolds`) |
| `TillSales` | 1 payment panel and the history, 3 tickets, 2 articles, one in stock, 2 methods, 1 session, a limit of 2, 2 sales from elsewhere, 4 operations, 2 at once, 1 failure | numbers without a gap; cut tickets are reported, whole ones are not; the level, the drawer's total and the account are what the tickets say; the limit holds, a ticket is refunded once (`TillHolds`) |
| `Shop` | a counted article with a wholesale price and a weighed one, a label, a promotion for ever and one that ends, a professional, taxes out of the prices, 2 lines, 3 edits of the cart or changes around it (`MaxEdits`), 1 lookup, 1 held cart, 1 part, 1 recording; a two-hour day over 2 hours, one note, taxes in the prices or added, 3 entries, tickets and debts from before in turn (`OfItsBooks`); 2 operations at a time on the till, payments over one another included, 1 on a phone, 2 tables, 2 orders, 2 lines, 2 sales, 5 operations, 1 failure | the ticket adds up to the cent, what is settled is what is due, every price is the right one; apart from it, the day's figures add up every way, the drawer's panel and count tell the truth, a debt is as old as it is (`BooksAgree`); in the restaurant, one open order a table, what the kitchen has is printed, a line paid for bears its sale |
| `Access` | 2 accounts, 2 wrong PINs, 4 events, accounts pulled; 2 phones, 1 waiter, a restart; 2 accounts, 3 tokens, 2 callers, 1 answer lost or token grown old, 2 changes of accounts, here or pushed; 2 requests at once, 4 instants | a till is whole wherever its installation stopped (`TillSound`), an owner remains on the till and at the company (`OwnersRemain`), one device per waiter and wrong PINs are bounded (`WaitersSound`), a removed account is out and a till in order stays connected (`SessionsFollow`), wrong passwords are bounded (`GuessesBounded`) |
| `BackOffice` | 2 operations at once, 2 lines, 3 events; 9 days, a grace of 2, a trial of 3, recoveries, a leap of 3, 2 settings of the clock; 2 clicks and the command line, 2 keys, 2 cuts; 2 passes over sheets of 2 lines, 1 failure or change on another screen, with 2 codes and a name to give; every date of 2023-2024 | stock, receipt and cost agree; the licence is judged fairly; a key shown is registered, the private key survives a cut; an import does what it says, twice too; a key ends in the month it was sold for, on its day or the month's last |

Each property names in its definition the parts it is made of, with a comment on each.

These bounds are the least in which the cases meet: two authors of a row; a
mutation between the read and the write of another; a page that ends between a
parent and its child; a failure before, in or after each statement; a third
update after an arbitration (`MaxEdits` bounds what cashiers write, `MaxMut` adds
the arbitrations); a line that falls under its wholesale quantity after a customer
left; two parts of a payment, the second of which closes it; a refund in a later
session; a clock set forward past the leap and back; a sheet whose second line matches
what the first has just created. Every bound is a constant. Scales (cents, thousandths,
basis points) are small numbers with the same roundings. `CHECK_DEADLOCK` is off
only where a behaviour ends, when every request is answered, every update has
arrived, every session is closed, or the operations allowed are used up.

Each property is also run against a seeded fault of the code it watches
(the definitions after the words "Seeded fault").

### Where the code and its documents differ

| Run | Found |
| --- | --- |
| `CompanyRename` | the server's answer to a renamed company lacks `createdAt`, which the till's table wants: the push throws on it at every cycle, so that the till sends nothing any more (`engine.ts:206`, `entity-handlers.ts:116`; `outbox.repository.ts:70` says it must never happen) |
| `TillRefused` | a sale on credit beyond the limit is refused when its rows, payments and stock are written: `transaction` holds nothing back (`sale.repository.ts:341`) |
| `TillRegresses` | a change refused once and sent again brings an older value back: the server answers it with what it had stored the first time, and the till writes that answer over the later change of its own (`engine.ts:206`, `apply.ts:483`; `sync-engine.test.ts:219` says a value never goes back) |

The rest was met while modelling and has no run of its own. Every property that holds is
stated with the conditions these impose.

Synchronisation: a change passed over for a local mutation is not
"applied at the next cycle" (`apply.ts:369`), for the cursor has moved, and is lost
when that mutation ends rejected; a row and its mutation are not one transaction
(`core/db/client.ts:69`), so that a crash keeps the row and loses the mutation; a conflict
settled for the server writes back the
state stored with it, although a newer one was pulled since (`conflicts.ts:114`);
an edit between the test for pending mutations and the upsert is overwritten
(`apply.ts:395`); a level that failed to move after its movement was inserted
never moves (`apply.ts:391`); a till's own edits number its row, so that
`baseVersion` may equal a server version its author never saw
(`catalog.repository.ts:579`); two concurrent updates of a sensitive field that
read the same row are both applied (`sync.service.ts:207`); a sign-out in the
middle of a cycle leaves a loop behind (`engine.ts:163`); with three tills the
single `updatedAt` of a row goes back on a disjoint merge, and a later arrival
that should lose wins (`sync.service.ts:295`); a read that fails before the `try`
leaves `running` set for the session (`engine.ts:113`); and when an update fails at the
server while a later one of the same batch passes, and their answers are lost, the two are
sent again and the later one's stored answer, of an older version, is written last
(`engine.ts:206`): it takes two failures, and TLC found it once it was given them.

A deletion is undone on the very till that made it when its push also carries an
earlier edit: the answer to the edit writes the live row back, the answer to the deletion
carries none (`engine.ts:206`, `merge.ts:16`). `seq` is given before the commit, so that a
pull between two commits skips a change (`sync.service.ts:70`, against "jamais sauter un
changement", `engine.ts:301`, and `docs/sync-protocol.md:67`); `overtaken` in
`ServerTransactions` names exactly those.

Fields: the other tills put a renamed company aside ten times, then drop it; handlers
exist for promotions and held carts but are not in `ENTITY_HANDLERS`
(`entity-handlers.ts:801`), so that these are refused as unsupported; `openingCount`,
`closingCount` and `allowNegativeStock` do not travel; a deleted product's codes
are freed on the till and not on the server, whose unique index refuses their reuse
(`schema.prisma:240`); an update of an account says no version, so that one of other fields
with an earlier date is dropped; the product form sends every field it shows, so that two
edits of one product always collide.

In the back office: two changes of a product made from one version both land when they
overlap, for the version is read by one statement and written over by another
(`products.service.ts:131`); two categories moved under each other at once close a loop,
and one removed while another request puts something in it leaves that under a removed
category (`categories.service.ts:142`, `:108`); a product removed between the check and
the write is changed all the same; the products of a removed category lose it without a
version and without an entry, so that no till hears of it (`categories.service.ts:113`,
against `change-log.service.ts:28`); a request to attach a till sent again after its
answer was lost makes another register.

In the restaurant: a line read as not sent is deleted although another clerk sent it
meanwhile, and the dish is cooked without a trace (`order.repository.ts:400`); a table released
after a read of its lines voids one that was
billed meanwhile (`order.repository.ts:511`); till and phone may send the same
line, which is cooked twice; `markBilled` also marks lines voided since the screen
was loaded, which the cart left out; a line is added to an order closed since
the check, and never billed (`server/mod.rs:516`); a ticket rung while nobody is
signed in at the till is lost, for `useKitchenTickets` lives in the workspace and
the waiters' server does not, and nothing prints it again; Escape closes the payment panel over
a payment being recorded, although its cancel button
is disabled, and a payment made again charges the same lines twice (`PaymentPanel.tsx:128`,
against `restaurant-local.test.ts:272`, "ne facture jamais deux fois le même article"): TLC
found it, with no failure.

At the till: a refund of another register's ticket keeps that register and takes a
number of this one, so that it is refused by `ux_sale_seq`, or takes the place of a
sale of that register, which is refused when it arrives (`refund.ts:80`; ADR 0018 wants
such refunds); refunding a sale on credit writes nothing in the account, and the customer
still owes it; `checkIntegrity` is called by no screen, and sees neither a refund cut
short nor stock or credit left unwritten; two panels, after an Escape, may together
exceed a credit limit; a sale whose cash comes in between the read and the write of a
closing is in the session and not in its total. A cash refund of a ticket of an
earlier session leaves today's drawer and is taken off the earlier session's total,
already frozen (`refund.ts:81`, `docs/adr/0006-historique-et-rapports.md:41`).

At the counter: a ticket discount is clamped to the worth of the lines as they are kept,
which is negative when one that was resumed with its promotion's discount has lost quantity
since (`SaleScreen.tsx:424`, `cart.ts:283`), and it outlives the removal of every line; a
promotion is kept after midnight, for nothing but a change of the
cart computes it again (`SaleScreen.tsx:155`, against `docs/adr/0024-promotions.md:67`); the
price of a label is lost when its line joins another (`SaleScreen.tsx:286`, against
`docs/adr/0023-balance.md`); a scan that lands while a cart is held or a sale recorded is
wiped with the cart; a cart of zero can never be confirmed; a resumed cart has lost its
discount and its customer; a held cart's line with a promotion does not merge; Escape closes
the panel over a recording.

In the books: when prices exclude taxes, a refund gives back the lines alone, so that the
ticket's taxes leave room for a second whole refund, of more than was paid
(`sale.repository.ts:500`, `refund.ts:71`, against `history-local.test.ts:202`; prices include
them by default and no screen changes it); the base of a rate is the lines less their taxes,
though these are not in them (`summary.ts:136`), and the products' figures are before tax
beside a total after it; the server's cash report of an open session leaves out the settlements of
accounts (`reports.module.ts:100`, against its own comment); the server counts days in its
time zone and the till in its own; several screens open on the UTC day, which is yesterday
after local midnight; a crash between a customer and their opening movement loses what they
owed; the total owed of the customers' screen sums the page it shows.

In purchasing: a double click on "Recevoir", or a death in the middle of it, counts lines
twice (`purchasing.repository.ts:320`, against `docs/adr/0015` §B); a movement made during a
rebuilding is overwritten (`stock.repository.ts:329`); two lines added at once may leave a
stale total. In the transfer: an update never takes `allowNegativeStock`; a failure between the
creation of an article and its movement loses its first stock; a category whose
mutation could not be recorded is made again by the next line that names it
(`catalog.repository.ts:171`), and nothing keeps two screens or tills from one name; an edit
between the check
of the version and the write is lost; the threshold of a new article without a code is lost;
a line whose reference is its bar code is passed over as a double.

Who gets in: two changes of owners that cross leave none, on the till as on the server
(`UsersPanel.tsx:115`, `users.service.ts:82`); recovery writes the server's accounts over
unsent changes; a stop before the last write of an installation makes a lone till pass for a
connected one (`auth.service.ts:231`); an account pulled may take the till's last owner
(`apply.ts:79`), and one pushed the
company's, for the handler of accounts counts none (`entity-handlers.ts:632`, against
`users.service.ts:82`); two phones of one waiter may both enter
(`server/mod.rs:211`), and a waiter switched off keeps their session; a lost answer to a
refresh cuts the till off (`auth.service.ts:151` of the API); failures counted at once lift a
lock or are lost, so that wrong passwords are bounded by what may be under way, not by
`MAX_ATTEMPTS` (`login-throttle.service.ts:141`).

Licences: a till closed longer than the leap is judged by an old date for ever; a first
start with a clock far ahead sets the ratchet there for good; the activation screen accepts an
expired key over one in force; a PIN recovered counts the trial anew
(`provision.repository.ts:37`, against `licence.ts:110`). The keyring: a power cut after the
rename, before the directory is on the disk, brings back a register without a key that was
shown (`lib.rs:43`, `licence.mjs:119`, against `EmissionScreen.tsx:59`); two emissions, or the
window and the command
line, rewrite the register from copies that have crossed, and an entry is lost
(`EmissionScreen.tsx:57`); the command line renames its file before it is on the disk
(`licence.mjs:122`); closing the keyring during an emission opens it again with an
empty phrase.

The conditions that follow: `UpdatesConverge` speaks of mutations the till saw
accepted at their first answer and that the server handled in their order (`InOrder`),
`SensitiveArbitrated` of versions published before the
update is handled, `LastWriterWins` of two
updates, `JournalAgrees` of a level that never exceeds its movements, `SentIsPrinted` of lines
not cut off, `SoldIsBilled` of lines not in two payments at once (`twice`), which bear one of
the two, `ExpectedIsDrawer` leaves out sessions
during whose closing cash moved or which paid back another session's ticket, `LevelFollowsMoves`
tickets cut off; `WithinLimit` is checked with one payment panel; `TariffFollows` leaves out
lines resumed and not priced since; `OneDevicePerAccount`, `OwnerRemains`,
`CompanyKeepsOwner`, `ReceivedOnce`, `KeysAreKept` leave out what crossed (`met`, `crossed`,
`raced`, `torn`), the first two of owners also what a synchronised account took (`crossed`,
`taken`), `KeysAreKept` what a cut brought `back` before the directory was on the disk,
`OneCategoryPerName` the names in `apart`, `StaysConnected` a till that was cut off (`cut`:
an answer lost, a closed account, a token of more than thirty days); `DaysAddUp` sets apart
the taxes that were added; `FieldsTravel` leaves out the
fields of `KeptApart` and the company. Each of these
exceptions is a variable that only the step in question sets, so that all else stays claimed.

### Fairness

`SyncProtocol!Fairness`: the engine of a till takes its next step, a local write
that is begun is ended, the server handles what it has received. The code
justifies it by the timer that every tick arms again (`engine.ts:163`), by local
statements that return, and by a request timeout (`core/api/client.ts:72`).
Nobody has to edit, settle a conflict, or fail. `SyncEngineLoop!FairSpec`, repeated in
`CyclesSpec` for the instance: timers go off and awaited calls return.
`EntityFields!FieldsFairSpec`: a till's cycle goes round as long as the session lasts.
`ServerTransactions` needs none: that no
transactions wait for each other is the invariant `SomeRequestAdvances`. The other
modules claim nothing of what must happen.

## 5. What is proved

| Module | Theorem | Inductive invariant |
| --- | --- | --- |
| `SyncProtocolProofs` | `TypeCorrect`: `Spec => []TypeOK` | `TypeOK` and that log entries, requests and batches name issued mutations (`Published`) |
| | `AppliedOnceCorrect`: `Spec => []AppliedOnce` | `OnceInv`: an entry of the log, or a count in the level, has a stored answer; the row of a create has version 0 before it |
| | `OutboxTrustworthy`: `Spec => []OutboxAgreesWithServer` | `TrustInv`: every answer on its way is the stored one, and `acked` holds accepted mutations only |
| | `DeletionStandsCorrect` | `DeletedInv`: a row deleted has been created, so that a create that comes late is not taken for its first |
| | `LogMirrorsCorrect` | `RowsInv`: what is handled, answered or logged was issued, and stands as issued (`IssuedInv`); the entries of a row bear its versions in order, none missing, the last is the row, and the fields an entry names are those it changed (`LogInv`) |
| | `SensitiveArbitratedCorrect` | with `RowsInv`: of the ways the log may grow (`LogWrites`), a merged update writes no sensitive field changed since its base, for no entry between is missing |
| | `RowsSpreadCorrect`: each step is a step of `CausalRows` or a stutter | `SpreadInv`: with `RowsInv` and `TrustInv`, the till of a mutation holds its row and only creates are made in the journal, an answer bears the state of a row that exists (`HeldInv`) |
| | `JournalWholeCorrect` | with `SpreadInv`, `JournalInv`: a journal row has one author and is what it wrote wherever it is (`OneAuthor`, `SameEverywhere`); a till about to count it holds it and has not (`CountedOnce`); up to its cursor, and up to the end of the page it goes through, it holds every row of the journal, or has put the change aside, or has it still in the page (`NothingPassed`) |
| | `RowsConvergeCorrect`: the log mirrors the rows, and a till that has caught up shows what the server holds | `CaughtUpInv`: with `SpreadInv`, `JournalInv` and `OnceInv`, `ConvergeInv`: request, answers and outbox say the same of each mutation (`QueueInv`); what the server accepted is in the log, under the state it answered, the create of a row first (`TakenInv`); while nothing is deleted and none of a till's mutations was refused (`Plain`), they go out in their order, and a cycle pulls only once each was answered or is still unsent (`FlowAt`); and a row it waits for nothing about is one the server has published, no older than its own entries and those the cursor has passed (`ShownAt`) |
| | `NoOrphanCorrect`: a place that holds a row holds what it needs | `Rows!NoOrphan` of the abstract specification, carried over by the refinement |
| `ServerTransactionsProofs` | `AnsweredOnceCorrect` | `LockInv` (who may hold a lock, at which statement), `OnceInv` (one stored key per mutation, entry and answer committed together) |
| | `VersionsHoldCorrect` | `VersionInv`: whoever holds the row's lock writes its next version, an uncommitted number comes after the committed ones of its row, and a cursor past it knows it was overtaken (`PendingInv`), with what is claimed of the committed history (`HistoryInv`) |
| `SyncEngineProofs` | `LoopTypeCorrect`, `OneLoopCorrect` | `LoopInv`: `OneLoop`, engines made and being made within the bound, the current one made |
| | `DisjointSurviveCorrect` | `DisjointInv`: a field's writer has arrived and changed it; the first writer of a field nobody else edits stays |
| | `LastWriterWinsCorrect` | `WriterInv`: as long as one update has arrived the row bears its date and device, and its author in every field it changed (`FirstInv`) |
| | `DeskHoldsCorrect`, of `ServerDesk` | `DeskInv`: what tables, log and requests hold (`DeskTypes`); each row's versions are told once, in order, the last being what the row holds, but for a product whose category was removed (`LogInv`); a level is the sum of its movements (`LevelInv`); a register told is there, and one a request is to use was (`RegisterInv`); the edits made from a version and those that have found the row at it and may still be made are together as many as can be open, for none is begun once the row has moved on (`FewInv`); while requests do not overlap, there is no ring and no orphan, and the one that is open still stands by what each of its statements found: a living parent, no child, and the levels climbed so far, all of which would be in the ring (`TreeInv`, `Climbed`) |
| `ShopProofs`, of `RestaurantOrders` | `TypeCorrect`: `Spec => []TypeOK` | `TypeOK` |
| | `OneOpenPerTableCorrect` | with `TypeOK` |
| | `SentIsPrintedCorrect` | `PrintInv`: what an operation still has to mark it has read |
| | `SoldIsBilledCorrect` | `PayInv`: payments under way at once are of different lines, but for those in `twice` (`Apart`); a cart is of lines nobody was charged for, until each is marked |
| of `CartRules` | `SharedToTheCent`: the shares of an amount add up to it, none above its weight | none: the remainders add up to the cents that are left, so that no line without a remainder gets one (`RanksGiven`, `FirstRanks`) |
| of `SaleCounter` | `TotalsAddUpCorrect` | `CounterInv`: cart and promoted cart have the same lines, each worth something or nothing once promoted (`PromotedSound`), whatever promotions are offered and carts put aside (`ShelfSound`) |
| | `CounterSettlesCorrect` | the same: one recording has a panel that waits for it (`PanelSound`), and what is being recorded is paid to the cent (`PaymentsSound`) |
| | `PricesRightCorrect`, an action property | the same: the price of every line follows the tariff before the step (`TariffFollows`) |
| of `DayBooks` | `BooksAgreeCorrect` | `BooksInv`: a ticket that kept its lines is worth them and, when they are added, their taxes, a refund is of a sale, and no ticket or movement bears a session to come (`TicketsSound`, `LedgerSound`); one drawer is open and what was counted governs (`DrawersSound`); until cash moves the panel shows the report (`PanelTells`); an hour has one movement of a customer, so that they have one order (`JournalIs`), and undoing the last of them leaves the sum of the first (`UndoneFromLast`) |
| of `MCShop` | `ShopIsItsParts`: the instance implements the three | none |
| `TillSalesProofs` | `TicketTypesCorrect`: the tables of tickets and the recordings | `NumInv`, and `Busy`: a recording always has something left to write |
| | `NumbersGaplessCorrect` | `NumInv`: numbers are `1..n`, and a number that was read follows one in use, so that the index admits it only if it is still the next |
| | `CreditIsOwedCorrect` | `AccountInv`: a recording's ticket is its own and bears what it has paid so far; nothing is charged before the last write |
| | `IntegrityReportsCorrect`, `RefundedOnceCorrect` | `LedgerInv`: with `AccountInv`, what a recording is about to write (`Plan`: payments add up to the cart, a refund is of a ticket that has none) and what it has written at each of its statements (`Done`); a sum less than another for one payment that is due shows that a ticket was cut off |
| | `LevelFollowsMovesCorrect` | `LevelInv`: the level is what the movements say but for those whose second statement is to come (`Moving`) |
| | `ExpectedIsDrawerCorrect` | `DrawerInv`: the session being closed is open, what screens and tickets name has been opened, one session is open (`Known`); until it is closed the tickets and accounts of a session add up to its cash, then its total is frozen (`Kept`) |
| | `TillHoldsCorrect`, under `OnePanel` | `LimitInv`: what a panel was granted is still within the limit when it is charged, and with the above |
| `SumTheorems` | the sum of a function over a finite set: its type, the order it is taken in, a change at one place, comparison, sums by groups and by parts; the ranks of an ordered set | induction on the number of elements, stated about a set of subsets (`SetClimb`) from the well-foundedness of the numbers, for an operator cannot be passed to the library's |
| `BackOfficeProofs` | `LicenceFairCorrect` | `LicenceInv`: the ratchet is the day last judged by, not ahead of the true one under an untouched clock (`RatchetInv`); ratchet and clock are at most a leap ahead for each setting, or the clock is not believed (`LeapInv`); the screen says expired only when the ratchet is past the end (`ScreenInv`) |
| | `KeysAreKeptCorrect` | `KeyringInv`: unless copies crossed or a cut tore the file, it holds what was shown, if no cut brought an older one back, and what is about to be (`RegisterInv`); whatever may still come back has what the register on the disk has had (`SettledInv`); and a tool only works on a copy that could be read |
| | `ShelvesAgreeCorrect` | `PurchaseInv`: which statement each operation may be at (`PurchaseTypes`); a rebuilding nothing crossed holds the journal's sum (`LevelInv`); the cost, and a cost about to be written, are between those paid (`CostInv`); while no edit crossed, an edit is alone, on a draft, and a reception holds the receipt's lines (`EditInv`); while nothing crossed, there is one reception, and outbox, receipt and what has entered show at which line it is (`OnceInv`) |
| | `ImportIsFaithfulCorrect` | `TransferInv`: no code is on two articles, of the shelf or of what the import listed (`OwnCodes`), and what was listed is no newer than what is there (`SeenInv`); a category is known to the import by its name, or is the one its row has just made, or the name is apart (`IsKnown`); the row under way is matched with an article that is in no row taken before (`RowInv`, `Alone`); while nothing was disturbed, a row that was taken is what its article is, alone to have it (`WroteInv`), what has not been written since is as it was listed (`ReadInv`), and a row still to come that went through once names an article that was listed and bears its codes (`AgainInv`) |
| | `MonthsLand`, `SalesLandCorrect` | none: a date is a day of its month, and the sum of months decides both |
| `AccessProofs` | `TillSoundCorrect` | `CoreInv`: a till's screens exclude one another (`ScreenInv`), a key is written after the row it names and the account with its PIN, the register's key last (`WholeInv`), and an installation has done exactly the statements before its next (`InstallInv`, `Progress`); `PinInv`: from the end of the last lock on, wrong PINs are counted by the guard or by the check under way, but for one a stop (`Counted`) |
| | `OwnersRemainCorrect` | `ManagedInv`: one gesture at a time, checked against the accounts the panel shows, which are the till's until it writes, and accounts pulled leave an owner or are known to have crossed; `OwnerInv` at the server |
| | `WaitersSoundCorrect` | `WaiterInv`: one phone is about to open an account, once no session of it is live; `TriesInv`, of every stretch as long as the lock (`Within`): until the account is locked for the rest of it, each wrong PIN is a failure counted or about to be, and MAX_ATTEMPTS are never counted; once it is locked, those under way are the last; once it is over there are no more. Each restart, which forgets the failures, allows as many again |
| | `GuessesAloneCorrect`: `GuessesBounded` until two requests overlap | `ThrottleInv`: a request finds the counter it read, and none goes on behind a lock (`AloneInv`); the passwords of a stretch are those of a window begun before it, then less than a window and those of the one begun since, then the lock or the end (`Bounded`) |
| | `SessionsFollowCorrect` | `TokenInv`: tokens are numbered as they are issued and there is room for those asked for (`NumberInv`), what the till holds, sends or is answered is its own, and an answer's token is new and unused (`UseInv`); the held one will be accepted, neither revoked nor expired, unless the till is cut off or a refresh that goes on will answer another (`LiveInv`); a removed account has none and is issued none (`OutInv`) |

All hold for every value of the constants under the modules' assumptions (device
identifiers are ordered numbers, journal rows are not there at the start, prices and
amounts typed are not negative, a tax is part of its line, bounds are numbers, what stands
for the absence of a record is none), which TLC evaluates on each run. None is about an
algorithm defined by recursion. Only model-checked: the liveness properties and
`SomeRequestAdvances`, which
speak of fairness and ENABLED; `EntityFields`, which is about given tables; and the half of
`GuessesBounded` that is about
requests that overlap, whose bound was found by TLC, not by an argument.
`TillHoldsCorrect` supposes `OnePanel`, as its run does: two panels, after an Escape, may
together exceed the limit, as section 4 says.

## 6. Not modelled

Listed in `PROJECT.json` with reasons: the other screens, printing, the updater, exports,
labels and text formats, signature checks and hashes (libraries'), and the API's
reads (lists, reports, health). Of the
components that are modelled in part, the notes there say what is left out; mainly what no
screen calls (quotes, `cancelReceipt`, `restoreSession`, `resetEnrollment`, `customers.update`,
`cancel`, `moveToTable`), rooms and tables, suppliers' own records and thresholds, line
discounts and free lines, the bound of pages per cycle, the activation of a device, the
protocol version, and the invitation of accounts.
