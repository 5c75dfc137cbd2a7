# Verification of the Calitor backend

The Calitor backend is a Go service (Gin, GORM) over PostgreSQL, Redis and an
object store. It keeps the books of an apparel wholesaler and its stores: orders
and purchases, receipts and shipments, transfers between stores, stock
adjustments, retail sales, and what customers owe. This directory holds TLA+
models of its stateful parts, the TLC configurations that check them on small
instances, and proofs checked by TLAPS.

## 1. Inventory of the system

Every HTTP request runs in a goroutine of its own, and several processes may
share the database, so everything below is concurrent. Requests share no memory:
they meet in PostgreSQL (master for writes, replica for `GetRead`), in Redis and in
the object store. Transactions run at PostgreSQL's default level, READ COMMITTED,
and no handler locks a row it has read (`FOR UPDATE` occurs nowhere); only batch
creation takes an advisory lock.

| Component | State | Operations | Hard behaviour | What makes it correct |
|---|---|---|---|---|
| Stock booking, `services/inventory` | `product_size_stocks` | `AdjustStock(Batch)`, `CheckStockSufficientBatch`, `ApplyStockDeltas` | read, compute, write; check then apply; unique index; lock order | stock equals the sum of what committed documents asked for; checked rows do not go negative; every request ends |
| Stock documents (`stock`, `shipment`, `modify`, `transfer`, `retail_sell` controllers) | header, lines, sizes of each document | create (alone or in batches), update, delete | header read before the transaction, from the replica; updates take back an old booking | stock equals what the documents that are not deleted book |
| Stock rebuild, `MigrateAll` | the same tables | delete all rows, book everything again | rules of its own for signs and filters | agrees with the handlers |
| Orders, `order_controller` | orders, lines, `delivery_status`, stops | create, update, delete, stop, stop lines, recompute | recomputed in the transactions of shipments; stops race updates | status is a function of the committed quantities; editing keeps deliveries |
| Purchases, `purchase_controller`, `services/delivery`, `services/purchase` | purchases, lines, `delivery_status`, `is_stopped` | the same, over receipts; search of what is outstanding | the same; an edit replaces the lines receipts refer to | status and stop mark follow the lines; what is outstanding is offered |
| Batch creation (`CreateBatch`, `CreateShipmentBatch`) | documents, advisory lock | several documents per transaction | numbering under locks met in any order | all or nothing; batches do not clash with each other |
| Numbering | document numbers | read max, add one | max read outside the transaction, from the replica | no gap, no reuse; a clash is an error, not a lost document |
| Receivables (`gather`, `receivable`, credit and overdue checks) | `charge_amount` of shipments, gathers and details | create, update, delete a gather; checks of a shipment | counters adjusted by requests that overlap; shipments overwrite `charge_amount` | a shipment's charge is the sum of the gather details on it |
| List cache, `controllers/cache.go`, and the master data it lists | rows of sixteen kinds; Redis keys with a TTL | read through, write, remove lists | fill from a lagging replica after a removal; KEYS then DEL; queries whose failure nobody looks at | a stored list is right, or wrong for its TTL at most |
| Firewall, `services/firewall`, `models/firewall_ip.go` | rows, Redis snapshot | load, add, change, delete, sync at a start | query, then store; a failed load cached; several starts | the snapshot is right, or wrong for its TTL at most; rows added by hand survive a start |
| Login limit, `middlewares/rate_limit.go` | Redis counters | check, count, reset, expire | INCR and EXPIRE are two commands; requests past the check; a GET that fails lets its request pass | counters expire; they exceed the limit by no more than the requests at a time, and those whose GET failed |
| Image clean-up (`cron`) | object store, trash, product rows | upload, remove, plan, verify, move; vacuum | rows change between verify and move; partial query results | no image in use is moved; what is moved can be had back for 90 days |
| Order of lines, `sort_model_code.go` | none | stable sort by model code | ties | a stable order exists and is the one found |
| Prices, barcodes (`pricing`, `barcode`) | none | price without tax, first-in allocation | rounding, ties | read-only |
| Reports, accounts, routes, utilities | rows, nothing of their own | queries, single-row CRUD | none between requests | — |

How they interact: a document handler opens one transaction, takes or is given a
number, writes the document, books its stock (`AdjustStockBatch`, or
`ApplyStockDeltas` for transfers) and, for shipments and receipts, recomputes the
status of the orders or purchases they serve. Gathers write back into shipments.
`MigrateAll` reads every document and rewrites the stock. Handlers of master data
remove cached lists; handlers of firewall addresses and starts of the server remove
the snapshot. The clean-up jobs read the products' image names.

The full list of hazards, each at its line and with the properties about it, is
in `PROJECT.json`.

## 2. Plan

The modules in the order they were written, and what each composes.

| Order | Module | Composes | State |
|---|---|---|---|
| 1 | `Ledger` — what stock booking promises | — | done |
| 2 | `Inventory`, `InventoryProofs` — SQL statements of stock booking | implements `Ledger` | done |
| 3 | `StockDocuments`, `StockDocumentsProofs` — documents, their lines and the stock; batches; `MigrateAll` | abstracts `Inventory` | done |
| 4 | `OrderDelivery`, `OrderDeliveryProofs` — orders and their shipments: ship, stop, edit, recompute | beside `StockDocuments` | done |
| 5 | `PurchaseDelivery`, `PurchaseDeliveryProofs` — purchases and their receipts, alone and in batches | beside `StockDocuments` | done |
| 6 | `Receivable`, `ReceivableProofs` — shipments and gathers: charge, credit limit, overdue check | beside `StockDocuments` | done, without prepaid credit |
| 7 | `Numbering`, `NumberingProofs` — max + 1, unique index, replica lag, advisory locks | with `LoginLimit` in `MCNumbering` | done |
| 8 | `LoginLimit`, `ListCache`, `Firewall` — Redis protocols | in `MCNumbering`, `MCDerived`; proofs in `NumberingProofs`, `DerivedProofs` | done |
| 9 | `Images` — plan, verify, move, vacuum against changes of products | in `MCDerived`; proofs in `DerivedProofs` | done |
| 10 | `SumTheorems` — sums over finite sets | cited by six of the proof modules | done |

What could follow: the statements of `MigrateAll` interleaved with those of the
handlers (the hazard at `models/BaseModels.go:284`), and prepaid credit in
`Receivable`.

## 3. Modules

### `Ledger`

The promise of stock booking in six lines: a document posts all of its changes at
one instant, or none, and at most once.

### `Inventory`

`product_size_stocks` and the transactions that change it, one action per SQL
statement on one row. `rows` is the committed table and `buf[t]` the row versions
transaction `t` has not committed. An entry of `buf` that is not `Clean` is also
`t`'s lock on that row, or on its unique-index entry if the row is new, so locks
need no variable. `seen` is what `t` last read, `left` and `todo` are the lines
and keys still to book, `at` the row the current statement is at, and `pc` says
which statement is next.

| Code | Actions |
|---|---|
| `AdjustStock`, for each line of `AdjustStockBatch` | `BeginAdjust`, `AdjustSkip`, `AdjustSelect`, then `AdjustInsert`, `AdjustInsertConflict` or `AdjustUpdate` |
| `CheckStockSufficientBatch` | `CheckPasses`, `CheckFails` |
| `ApplyStockDeltas` | `BeginTransfer`, `UpsertNext`, `UpsertRow` (a Go map gives the keys in any order) |
| the closure given to `Transaction` returns | `Commit`, `Rollback` |
| PostgreSQL | `Blocked`, `InDeadlock`, `DeadlockVictim`, `ConnectionLost` |

History variables: `ledger` (what committed documents asked for), `mine` (what
`t` has asked for), `stale` (rows replaced between `t`'s SELECT and its lock) and
`clobbered` (rows to which such an absolute UPDATE was committed).

### `StockDocuments`

The documents and the requests on them. A request that updates or deletes runs in
three steps: read the header (`BeginUpdate`, `BeginDelete`; from the replica,
except for adjustments), load the lines (`LoadItems`), do the rest of the
transaction (`UpdateStock` … `DeleteRetailSell`, all of them `Rewrite` or
`Remove`). The rest is one action because nothing it writes is visible before its
commit; how the stock statements of two transactions interleave is `Inventory`'s
subject, so booking here is exact. A document is created in one action, alone
(`CreateStock` … `CreateTransfer`) or in a batch of receipts, shipments or
transfers (`CreateBatch`), which checks the stock of all transfers together.
`StockEffect` … `RetailEffect` are the signs and filters of the five handlers,
`RebuiltItem` those of `MigrateAll`'s SQL. A row of stock is a store and a product
in one size. `overtaken` is history: a request has committed although the document
it read had changed.

Headers keep the store, the mode and whether the document is settled or linked to
an order or purchase; lines keep product, destination, sell mode and quantity.
Products are numbered in the order of their model codes, and
`ReorderItemsByModelCode` is the stable sort by that number. Dates, persons, prices
and remarks are left out.

### `Receivable`

Shipments with their deal and `charge_amount`, gathers with their details, and the
users who edit them. A shipment is created in two steps, the credit and overdue
checks (`Admit`, `Refuse`) and the transaction (`CreateShipment`); it is edited in
three, the form (`OpenShipment`), the checks of `UpdateShipment` (`SaveShipment`,
which reads the shipment's customer and charge) and its transaction
(`UpdateShipment`), which stores the charge the form was opened with. A gather is
updated or deleted in three: `BeginUpdateGather` or `BeginDeleteGather`,
`LoadDetails`, then `UpdateGather` or `DeleteGather`, which take the loaded details
back from the charges and add the new ones (`Settle`). `overtaken` is history, as
in `StockDocuments`.

Amounts are integers (the code rounds each shipment before it adds up), months
are counted, and `deduct` is discount and other deductions together. Shipments
here have no order link, so a customer change is refused only for the charge.
The user picks the lines of a gather from the shipments of its customer
(`Offered`): the handler does not check it. Credit and overdue are one step,
though the code reads them in two queries.

### `OrderDelivery`

Orders with their lines, shipments with what they deliver of each line, and the
`delivery_status` that whoever changes either computes and stores. `form` is what
a request was sent, `seen` what it has read, `todo`, `computed` and `written` its
progress through the statuses, `lock` the row locks on orders, `edition` tells
shipment lines from the ones that replaced them.

| Code | Actions |
|---|---|
| `CreateOrder`, `DeleteOrder` | the same |
| `UpdateOrder` | `BeginUpdateOrder` (stopped lines), `LoadOrder` (active lines, links), `RewriteOrder` |
| `StopOrder`, `StopOrderItems` | `BeginStop`, `Stop` |
| `CreateShipment` | `BeginCreateShipment`, `WriteLines`, then the status |
| `UpdateShipment`, `DeleteShipment` | `BeginChangeShipment` (old lines), `LookUpOrders` (their orders), `WriteLines`, then the status |
| `UpdateOrderDeliveryStatus` in a shipment's transaction | `Compute`, `WriteStatus` for each order, `Commit` |
| an error, a lost connection, a deadlock's victim | `Fail` |

`RewriteOrder` and `Stop` are whole transactions: they lock the order before they
compute its status, so no other status of it can come between. A shipment computes
first and locks with the UPDATE, so these are steps. `Obstructs` holds `RewriteOrder`
back where its DELETE or its UPDATE of the links would wait for a shipment's rows
or foreign keys. `LeftOver` is the second of two `UpdateShipment`s on one shipment,
whose DELETE waited and does not see the lines the first one has inserted. The
history variables `outrun` and `stale` name the orders on which another request
committed after a request had read them, and those whose status comes from such a
read. The SELECTs of one computation are one step; a commit between any of them
and the UPDATE counts as outrunning it.

A line has one size, and its quantities are small numbers. Customers, prices and stock
are left out. A line of a form may come cleared (`cancel_flag`). A return adds to what
is delivered, as `ShippedQtyMap` reads the lines of shipments whatever their mode.

### `PurchaseDelivery`

The same for purchases and receipts, where the code differs: an edited purchase gets new
lines (`UpdatePurchase` deletes the old ones and `Create`s the form's), and the foreign
key of `stock_items` lets it do so only while no receipt refers to them, a deleted one
included (`Deletable`). A purchase also keeps `is_stopped`. Stopping lines runs in three
steps: the UPDATE of the lines starts (`BeginStop`), it has stopped those still active
and the lines left are counted (`StopLines`), and `is_stopped`, status and commit
(`FinishStop`). Receipts are created alone or in a batch, updated and deleted:
`BeginCreate`, `BeginUpdateStock`, `BeginDeleteStock`, then `WriteReceipts`, then
`Compute` and `WriteStatus` for each purchase, and `Commit`. `FindNoLines` is an
`UpdateStock` whose DELETE comes before its receipt has any line: it waits for nobody,
and the lines another request commits before the UPDATE of the header stay (`Left`).
`SearchItems` and `VendorOutstanding` are the queries a receipt's form is filled from.
`outrun`, `stale` and `staleStop` are history, as in `OrderDelivery`, and `mixed` names
the receipts with lines of two such editors. A receipt's own `purchase_id` is left out
(it is shown, and only a receipt without linked lines can differ by it); so is the limit
of 50 of the search.

### `Numbering`

A prefix stands for kind, store and month. `CreateOne` reads the largest number from
the replica before its transaction; a batch (`CreateBatch`) locks each prefix it
meets (`ReadNumber`) and counts on. `Insert` waits for other transactions' numbers
and `Clash` is the unique index. `Victim` is PostgreSQL's deadlock detector, `Fail`
an error at any point. `Full` is the last number of the format's width, after which
the largest string stays the largest. `outrun` is history.

### `LoginLimit`

The two counters `LoginRateLimit` looks at (`CheckUser`, `CheckNonexistent`), what
`Login` decides, and the Redis commands that follow: `Incr`, `SetDeadline` after the
first failure, `ResetUser`. `GetFails` is a GET that fails: its request passes the check.
`Crash` ends a request between any two commands. `missed` and `unseen` are history: the
counters a request could not read, and what such requests have added. One client
address is modelled; the keys of two have nothing in common.

### `ListCache`

Two kinds of master data at a time, with rows of the second referring to rows of the
first, and the lists of both. `Handlers` is a table of what tells the sixteen kinds
apart: whether a code is looked for, the unique index, whether a refused UPDATE is
noticed, what keeps a row from being deleted, what a list names, which lists a
write removes. A reader goes through `Miss`, `Count`, `Store`; a writer through
`CreateRow`, `UpdateRow` or `DeleteRow` (checks on the replica), `Write` or `Refuse`,
then `Keys` and `Del` for each path. Lists for select boxes (`Options`) are read
without a COUNT and stored with total 0. Any query may fail (`Fails`): a COUNT then says
0, a Find leaves a part of the rows (`StoreRemains`), a check passes, and an UPDATE
or DELETE nobody looks at changes nothing. `Crash` ends a writer anywhere. `late`
and `stale` are history.

### `Firewall`

Rows by id, the replica and the snapshot. `Hit`, `Query`, `QueryFails` and `Store`
are `Load`; `CreateFirewallIP`, `UpdateFirewallIP` and `DeleteFirewallIP` check on the
replica, `Write` or are `Refuse`d, and `Invalidate`; `Start`, `SyncAddress` and
`SyncStale` are `SyncEnvFirewallIPs` statement by statement, several servers at once.

### `Images`

Objects, copies in the trash and the products' image names. `UploadProductImage`,
`SaveProduct` and `DeleteProductImage` are the handlers; a move is `Copy` and
`RemoveObject`, or `MoveFails` in between; `ListObjects`, `Plan`, `Verify` and `EndJob`
are the nightly job, whose query for images in use may return any part of them;
`TrashVacuum`, `DayPasses` and `RetentionPasses` are the other job and time.

### MC modules

Each gives a module its small sets. `MCNumbering` and `MCDerived` check several
modules in one run: `part` says which of them a behaviour is about, and the others
stay as they begin. They share no state in the code either. In `MCDerived` they are
the things kept outside the tables and made from them: lists, snapshot, images.

## 4. Runs

All runs check deadlock; `Finished`, where a module has it, is the only state in
which nothing is left to do.

| Run | Question | Bounds |
|---|---|---|
| `inventory_mixed` | do both booking paths, mixed, keep the stock equal to the ledger? | 3 transactions, 2 rows |
| `inventory_transfers` | does `ApplyStockDeltas` alone implement the ledger? does every transaction that begins end? | 3 transactions, 2 rows |
| `inventory_clobber` (violation) | is `AdjustStock` additive, as its comment says? | 2 transactions |
| `documents` | does the stock stay what the documents book? do linked documents keep their store? | 4 requests, 2 documents, 5 kinds, batches of 2 |
| `documents_rebuild` | does `MigrateAll` agree with the handlers, at any moment and with a lagging replica? | 4 requests, 2 documents, 1 rebuild, no batches |
| `documents_lines` (violation) | are the lines of a new transfer stored as sent? | 3 requests, 2 documents, 2 products |
| `orders` | is the status of an order what was delivered? does editing an order keep deliveries and stopped lines? | 2 requests at a time, 5 in all, 2 orders, 2 shipments, 3 order lines ever |
| `purchases` | the same for purchases; is a purchase marked stopped when nothing is left? is what is outstanding offered? does a receipt keep to its vendor? | 2 requests at a time, 4 in all, 2 purchases, 2 receipts, 2 vendors, 3 purchase lines ever |
| `receivable` | is the charge of a shipment what gathers wrote off? do both editors agree on what is left? do settled shipments keep their customer? | 5 users, 2 shipments, 2 gathers, 2 customers |
| `receivable_return` (violation) | does a settled return keep its customer? | 3 users, 1 return, 1 gather |
| `numbers` | are numbers without gaps? who is refused one? is every request answered? do login counters stay near the limit, and does every block end? | 2 prefixes, 2 requests at a time, 3 in all, batches of 2, `Full` = 2; 3 accounts, `Limit` = 2, 1 failed GET |
| `derived` | are lists and snapshot right unless late, and in the end? do rows added by hand survive a start? do images in use stay, and removed ones have a copy? | 11 pairs of kinds with 1 or 2 writes and up to 2 failed queries, 3 rows; 2 addresses, 2 writers, 2 rows, 2 edits, 1 failed query; 2 images, 2 products, 3 changes |

What they show. Stock booking is right but for one race: `AdjustStock` overwrites
what was committed between its SELECT and its UPDATE, and the run `inventory_mixed`
(with theorem `LedgerExact`) shows that nothing else — duplicate lines, concurrent
inserts, deadlock victims, lost connections, the UPSERT path — makes a row differ
from the ledger. `CheckStockSufficientBatch` secures what it read, not what is
there when the deltas are applied. One level up, the stock is what the documents
book unless a request commits on an outdated read, and only a few payloads break
that without any overlap: a two-line transfer, a negative retail line, and, for
`MigrateAll`, retail sales and a missing mode. Charges are right with the same
proviso, and one more: a form that carries the charge back is such a read, and it
stays open as long as its user likes. The status of an order has the same shape:
right, unless the request that wrote it computed it from deliveries that others
have changed since, and nothing repairs it before the next change. Editing an
order keeps its deliveries and its stopped lines, unless a line is stopped or a
shipment is edited between the reads of `UpdateOrder` and its transaction. For
purchases the foreign key does what no handler does: an edit that would cut a
receipt off fails. A receipt keeps to its vendor, unless two requests edit it at once
while it has no lines.

Numbers never have a gap and are never used twice; only a document created alone can
be refused one, because somebody else was quicker or the replica late. Batches may meet
crosswise, and then PostgreSQL ends one. Redis copies are wrong only after a late
store, a query that failed or a removal that never came, and then until they expire;
the exception is a login counter whose request dies between INCR and EXPIRE, which
blocks for good. A login counter passes its limit by requests that were past the check,
or whose GET failed. The
clean-up job moves nothing a product refers to unless the product began to refer
to an old image after the last question, or the replica did not know it.

Why the bounds are enough. Two rows allow crossing lock orders, and lines that repeat a
row; two transactions show every race of a pair, and the third lets one commit between
another's SELECT and its lock while a third holds it. For documents, the longest cause
is four requests long (create, two overlapping requests, one that builds on the result);
two documents let a transfer depend on a receipt, and a batch hold two. The payload sets
hold each sign and mode, a line of zero and a change of store. The passing runs leave
out the payloads that break the property by themselves (`documents_lines` and section
7). For receivables, five requests are two shipments, a gather over both and two that
overlap; a second gather lets one be settled by two, and the dates and the limit make
both checks refuse. For orders, two requests overlap at a time and a slot is reused, so
`MaxRequests` = 5 leaves three requests to create the order and its shipments and two to
race; `MaxItems` = 3 lets an order of one line be edited twice, or one of two lines be
replaced by one; the forms have a line that takes two shipments and one that is dropped,
a new order has a line that is not cleared, and its editor may clear the only line, or
the last of two of a product. Purchases need one request less, since a batch creates
both receipts, and two vendors so that one can be changed. Two prefixes and batches of
two let batches meet crosswise; the third request finds what the first two left, or the
number after `Full`. Two requests take a counter past a limit of two, and a failed GET
takes it further. A list goes wrong through one writer and one reader; the second write,
for size groups and their options, comes between the two writes that delete a group, or
prepares it. One failed query is every error path of a handler; the second, for
`currencies` and `banks`, is a list neither counted nor read, which is stored empty. The
two pairs with most states (those with vendors) have none: a query fails there as it
does for customers. Customers and vendors have a list for select boxes. Two addresses
and two writers let a start meet another start with a different variable, or a handler.
Three changes of images are two products taking an image and one letting go.

Fairness. `FairSpec` of `Inventory` asks for weak fairness of `Statement(t)`: the next
SQL statement of a transaction that has begun, which a running server executes, and
PostgreSQL's deadlock detector, which runs after `deadlock_timeout`. The others ask for
the same: weak fairness of a handler's next step (`Numbering`, `LoginLimit`,
`ListCache`, `Firewall`), of the deadlock's victim, of the replica catching up, and of
Redis removing a key whose TTL has run out. Nothing obliges a client to send a request,
a connection to break, a query to fail or a server to crash; a crash, on the other hand,
is allowed at any step. `FreshInTheEnd` and `SnapshotRightInTheEnd` rest on failures
coming to an end, which the bounds on them say.

## 5. Proofs

Eight modules hold theorems. Each safety property below holds for every value of
the constants under the named assumptions, which TLC evaluates in the runs.

`InventoryProofs` proves, for every set of rows, transactions and requests:

- `Invariance`: `Spec => []IInv`, and from it `TypeCorrect`, a conjunct, `LedgerExact`
  (`ExactUnlessClobbered`), `CheckSound` (`CheckHoldsUnlessRaced`) and `AllBooked`
  (`AllLinesBooked`);
- `DeltasExact` and `DeltasImplementLedger`, if no request is booked with
  `AdjustStock` (`DeltasOnly`): the stock always equals the ledger, and
  `Inventory` implements `Ledger`.

The safety properties are not inductive: they speak of committed rows, and what is
committed was computed steps earlier. `IInv` adds what holds in between: a row has one
uncommitted version at most (`OneHolder`); whoever is not running holds none
(`IdleHoldsNothing`); a version is the committed row plus what its transaction asked
for, unless `AdjustStock` computed it from an older row (`VersionsExact`); the statement
about to run has read its own version of the row, and what the transaction asked for
plus the net change of the lines that are left (`Net`, a sum over their positions) is
what the request asks (`AdjustState`); an UPSERT has written exactly the keys it is done
with, and its check had seen enough (`UpsertState`). There is one lemma per action, one
for what ending a transaction does and one for what writing a row does. The refinement
maps `Commit` to `Post` and everything else to a stutter.

Assumptions: requests are lines of known rows with integer quantities
(`RequestsAssumption`), initial rows are integers or missing, and the sentinels are no
integers. That the net change of a row is an integer is a lemma (`NetType`). TLC
evaluates all of them in every `inventory` run.

`SumTheorems` holds lemmas only, about sums and not about the program: what the others
need of `MapThenSumSet` and `SumFunctionOnSet`, the community modules' sums over finite
sets, whose definitions are folds: that any element may be taken out first
(`SumRemove`), not only the one the fold chooses, and what follows for a change of one
summand (`SumExcept`), for summands counted by other names (`SumRenumbered`), for a
disjoint union (`SumUnion`) and for a table, which has the same sum by rows and by
columns (`SumExchange`). The argument is by minimal counterexample over the subset
relation, because a library theorem that takes an operator as its parameter cannot be
used here.

`StockDocumentsProofs`, for any stores, products, documents, payloads and number of
requests, with or without a replica:

- `DocumentTypes` (`TypeOK`) and `StoreKept` (`LinkedKeepsStore`);
- `StockMatches` (`MatchesUnlessOvertaken`), if all payloads are `Faithful`: a retail
  sale has no negative line, a new transfer's lines are sent in the order they are
  stored in, and, if `MigrateAll` runs, the document is one it books like its handler:
  no retail sale, a mode that is set, and no negative lines but an adjustment's. Each
  condition names a case of section 7 or of `documents_lines`, where the property fails
  without any overlap.

The inductive invariant adds to `MatchesUnlessOvertaken` that the replica is the
documents as they once were (`Older`), that what a request has read is what the
document says unless somebody has been there since (`Working`), and that every
stored document is one `MigrateAll` books like its handler (`Kept`). That a stable order
of the lines exists, so that the one `ReorderItemsByModelCode` chooses is a permutation
that sorts, is a lemma (`ReorderSorts`). The step that takes the old booking
back and books the new one is `SumExcept`.

`ReceivableProofs`, for any deals, payments, users, shipments and gathers:

- `TypeCorrect`, `ChargesMatch` (`ChargesMatchUnlessOvertaken`), `UnclearedAgree`
  (`UnclearedAgrees`) and `CustomerKept` (`SettledKeepsCustomer`).

Its invariant says that rows are typed (`Tables`), that a request's reads are the rows
unless it was overtaken (`Working`), that gathers name shipments that exist
(`GathersSettleable`) and that a deleted gather counts nothing (`DeletedHasNone`). The
proof found a hole no small run had shown: a shipment whose charge goes to zero and
back, or whose customer does, while `UpdateShipment` is between its check and its
transaction, looks unchanged to a comparison of charges alone. `SettledKeepsCustomer`
therefore speaks of the charge and the customer that were read.

`OrderDeliveryProofs`, for any orders, shipments, products, forms and requests:

- `TypeCorrect` (`TypeOK`) and `DeliveriesKept` (`EditKeepsDeliveries`);
- if every new order has a line that is not cleared (`NewFormsActive`): `StatusFollows`
  (`StatusUnlessOutrun`).

The inductive invariant says of the tables that a line belongs to an order that was
created (`KnownLines`), that other orders have the defaults, and what `StatusFollows`
says; of each request (`RequestInv`) that what it holds is typed and known (`Private`,
`RowsKnown`); that an order whose deliveries it changes is one whose status it has still
to compute, has computed or has written, unless it was outrun there (`Covers`); that a
status it has computed will be right once its lines are committed, with the same
exception (`Right`); that the orders it has still to do exist (`Created`); and that what
an edit has read is still there (`Fresh`). `Apart`: two transactions never hold the same
shipment. An action of one request leaves every other's part alone, or puts the order
into its `outrun`. `DeliveriesKept` adds up what the shipments delivered of a product by
lines instead of by shipments (`SumExchange`), because `RewriteOrder` moves each
shipment's lines to other order lines and keeps their sum. `Kept`, which says which row
a line of the form keeps, is a recursive function; that it has a value is shown by the
least number of lines for which it had none (`RunExists`).

`PurchaseDeliveryProofs`, for any purchases, receipts, vendors, forms and requests:

- `TypeCorrect` (`TypeOK`) and `VendorsAgree` (`SameVendor`, which leaves out the receipts
  in `mixed`);
- if every new purchase has a line that is not cleared (`NewFormsActive`):
  `StatusFollows` (`StatusUnlessOutrun`), `StoppedFollows` (`StoppedUnlessOutrun`) and
  `NothingHidden` (`OutstandingIsOffered`).

The invariant has the same shape; `Stops` adds that a stop which is not outrun knows
which lines are left. The vendor is kept because an `UpdateStock` that changes it has
read no old line: either nobody has committed one since, or its DELETE has come too
early, and then the receipt is `mixed`. `NewFormsActive` names a case of section 7:
`CreatePurchase` stores status 0 and a false `is_stopped` whatever its lines are, which
is wrong if all of them are cleared. `NothingHidden` follows from `StatusFollows`: lines
that the filter on the status leaves out are short of nothing.

`NumberingProofs`, for any prefixes, requests and bounds: `Typing`, `NumbersHaveNoGaps`
(`NoGaps`) and `RefusedOnlyIfOutrun` (`TakenOnlyIfOutrun`), assuming `Full` > 0 and a
`None` that is no request. The invariant: nothing is left of an answered request
(`IdleHoldsNothing`); only batches meet prefixes they have not read (`SingleKnows`);
committed numbers are 1 to some n, on the replica to some smaller one (`Serial`); a
request has inserted what is missing below its next number (`MineFillsUp`), and nothing
is committed from there on unless it was outrun (`NextIsFree`).

The module also proves `DeadlinesAreSet` (`DeadlineSet`) of `LoginLimit`, for any
accounts, requests and limit; `FailuresAreBounded` (`CountBounded`), if requests are
finitely many and the limit is positive: what is invariant is that a counter and the
requests past the check that have still to count (`Uncounted`), without what requests
have added or will add whose GET of it failed (`unseen`, `missed`), add up to less than
the limit plus the number of requests; and `TypesHold` (`TypesOK`), as the two parts do
not disturb each other.

`DerivedProofs`, about the three parts of `MCDerived`:

- `SnapshotIsRight` (`SnapshotUnlessLate`), from an invariant that a reader's result is
  right unless marked late, and, if there is an address, `ManualRowsKept`
  (`ManualKept`), from one that a row the replica knows as the environment's is not, on
  the master, one added by hand.
- `UsedImagesStay` (`ImageKept`) and `RemovedHasCopy` (`NothingLost`), from an
  invariant about what is being moved: the job moves only old images it has
  listed, that no product refers to unless marked, and whoever is about to remove has
  a copy. `ImagesSane`: `None` is no image and the job is no request.
- `ListsAreFresh` (`FreshUnlessLate`), for any two kinds of master data, rows, codes,
  readers and writers. What a reader that is not late has counted and read is what the
  master says (`ReaderKnows`); one whose COUNT failed is late, and one whose Find failed
  has read a part, which `StoreRemains` marks, or nothing, which is not stored if
  anything was counted; what a writer has still to remove is in its paths from its write
  on (`WriterPaths`). The step that matters is a write: it leaves every list that its
  writer does not remove as it is (`ListUnaffected`), which is read off the table
  `Handlers` kind by kind. `ListsSane`: readers are not writers, rows and codes are
  finitely many, and codes are ordered.
- `TypesHold` (`TypesOK`), with the hypotheses of the others. It includes that no
  address is in two rows and that no list is stored which was counted and not read.

Only model-checked: liveness under fairness (`Terminates`, `Answered`, `BlockEnds`,
`FreshInTheEnd`, `SnapshotRightInTheEnd`), which with ENABLED is out of the prover's
reach, and the runs that expect a violation, whose counterexamples need no proof. Every
other property the runs check is a theorem, some under the hypotheses named above
(`StockMatches`; `StatusFollows` of orders; the last three of `PurchaseDelivery`). Of
the recursive functions (`Kept`, the order `ReorderItemsByModelCode` makes) only what
the theorems need is proved: that they have values of their type, and that the order
sorts.

## 6. Not modelled

- Reports, exports, Swagger, routes, JSON binding: they change no state.
- Prices, taxes and amounts of documents, and the parsing of barcodes: read-only
  computations on decimals and strings that fill in a form. What a batch does
  with the result is modelled.
- Fields of master data other than codes and references; the vendors and
  categories of a product; accounts, roles and permissions (single rows).
  A store whose code changes while documents name it is listed as a hazard.
- The statements inside `MigrateAll` interleaved with those of the handlers; a
  shipment's orders, which are updated in the order of a Go map; the credit of a
  customer read before the transaction; prepaid credit. These are hazards without
  a property, with the reason in `PROJECT.json`.
- The width of integers: quantities are Go `int` (64 bits) and PostgreSQL
  `bigint`; no run comes near.

## 7. Disagreements without a run

Seen while translating the code. Those that break a property by themselves are left
out of the runs' inputs or named in the property; the others are outside it.

Stock:

- `CheckStockSufficientBatch` reads without a lock
  (`services/inventory/inventory.go:186`): two transfers that both pass it can leave a
  negative quantity. `inventory_mixed` states what does hold, `CheckHoldsUnlessRaced`.
- `CreateRetailSell` stores |qty| for a line of negative quantity but books only
  positive ones (`controllers/retail_sell_controller.go:334`); deleting the sale
  then adds stock that was never taken.
- `UpdateShipment` stores a mode of 0 when none is sent and books it as a shipment;
  `MigrateAll` books every mode but 3 as a return (`models/BaseModels.go:305`).
- `MigrateAll` books four kinds of documents and leaves out retail sales
  (`models/BaseModels.go:288`): after a rebuild, every retail sale is back in stock.
- The totals of the stock records add returns without their sign
  (`controllers/stock_records_controller.go`).

Receivables:

- A shipment's form carries `charge_amount`, and `UpdateShipment` stores it
  (`controllers/shipment_controller.go:618`): a gather made while the form was open
  is overwritten. `receivable` states what holds, `ChargesMatchUnlessOvertaken`.
- The credit check compares the balance before the new shipment
  (`controllers/shipment_controller.go:268`), so one shipment may exceed the limit,
  and its balance leaves out the discounts and deductions that
  `GetUnclearedShipments` counts as cleared (`controllers/gather_controller.go:253`).

Orders and purchases:

- `CreateOrder` leaves the status at 0 whatever the lines are, which it stores with the
  `cancel_flag` they come with (`controllers/order_controller.go:314`). If all are
  cleared, or there are none, `UpdateOrderDeliveryStatus` would say 2
  (`controllers/order_controller.go:757`), and does so at the next change. The new
  orders of the run have a line that is not cleared.
- `CreatePurchase` stores status 0 and `is_stopped` false without a look at the lines
  (`controllers/purchase_controller.go:313`); the forms of the run have a line that is
  not cleared.
- `UpdateOrder` protects lines that are stopped
  (`controllers/order_controller.go:402`), but only those stopped before it reads
  them: one stopped before its transaction keeps its row and loses its size.
- Editing a purchase replaces its lines, which fails on the foreign key once any
  receipt, a deleted one included, refers to one; the comment at
  `controllers/purchase_controller.go:132` reads as if receipts only kept the vendor
  from being changed. Modelled as it is (`Deletable`).
- `DeliveredQtyMap` adds returns to what was received, and `ShippedQtyMap` to what was
  shipped. Modelled as it is.
- Two overlapping `UpdateStock`s of a receipt without lines: the DELETE of the second
  (`controllers/stock_controller.go:523`) finds no row to wait for, so the lines of both
  stay, and the second may set another vendor than that of the purchase the first has
  linked, although the comment at `controllers/stock_controller.go:460` says that the
  vendor changes only while no purchase is linked
  (變更進貨庫點／廠商時，本單必須尚未對帳付款且沒有採購單關聯). `SameVendor` leaves such receipts out.
- Two `StopItems` on the last two lines of a purchase each count the other's line as
  left, and `is_stopped` stays false; `StoppedUnlessOutrun` excludes it.

Numbers:

- A 1000th transfer of a day, or a 10000th other document of a prefix, always clashes:
  the larger number is the smaller string. `TakenOnlyIfOutrun` excludes it.
- Codes, addresses and numbers of deleted rows stay in their unique indexes, while
  the handlers look only at rows that are not deleted: such a code is refused with an
  error of the database instead of a message.

Logins:

- A GET that fails counts as not blocked (`middlewares/rate_limit.go:109`): as long as
  GETs fail and INCRs do not, no limit holds. `CountBounded` leaves out what such
  requests add.

Master data and caches:

- A COUNT that fails is logged and leaves the total at 0 (`controllers/pagination.go:33`),
  so `isPartialFailure` (`controllers/cache.go:28`) lets a list whose Find failed too be
  stored empty for ten minutes. It lets a Find that broke off store a part of its list
  at any time. The lists for select boxes (`controllers/customer_controller.go:73`,
  `controllers/vendor_controller.go:62`) have total 0 always. `FreshUnlessLate` leaves out
  lists stored so.
- A check of a code or of rows in use whose query fails counts as passed; the unique
  index stands behind the first, nothing behind the second.
- Most handlers do not look at the error of an UPDATE
  (`controllers/master_data_controller.go`) and report success when the index refused it.
- The checks that a row is not in use read the replica.
- Lists of products name brands and vendors, lists of customers name locations, but a
  change of those does not remove the lists: they are wrong for up to ten minutes.
  `FreshUnlessLate` leaves these names out, `FreshInTheEnd` does not.
- `DeleteSizeGroup` deletes the options and the group in two writes without a transaction.
- GORM stores a column's default in place of a false it is given: a row created with
  `is_active` false is active.
- `main.go:159` says the next `Load` after a start reads the newest rows; it may
  read the replica's, and a server that is still running may store older ones. The
  start does not remove the cached list of addresses either.
