--------------------------- MODULE StockDocuments ---------------------------
(***************************************************************************)
(* The five documents that move stock (receipts, shipments, adjustments,   *)
(* transfers and retail sales) and the handlers that create, update and    *)
(* delete them.                                                            *)
(*                                                                         *)
(* An update or a deletion takes back what the document booked before it   *)
(* books anything new.  What it takes back it learns in two reads: the     *)
(* header from the read database before the transaction, which may be      *)
(* behind the write database, and the lines inside the transaction.        *)
(* Neither read locks the document, so other requests may commit between   *)
(* the reads and the writes.  The rest of a transaction is one action:     *)
(* nothing it has written is visible before its commit, and how the stock  *)
(* statements of two transactions interleave is the subject of Inventory.  *)
(***************************************************************************)
EXTENDS Integers, Sequences, FiniteSets, Functions

CONSTANTS
  Stores,      \* retail_customers that keep stock
  Products,    \* a product in one size; integers, in the order of model codes
  Docs,        \* documents, one per number
  Requests,    \* HTTP requests, each to one handler
  Payloads,    \* what a request may carry: [kind, header, items]
  ReadReplica, \* GetRead is a replica that may lag
  MaxRebuilds, \* bound: how often MigrateAll runs
  MaxBatch,    \* bound: documents in a batch
  NoDoc        \* no such document

Kinds == {"stock", "shipment", "modify", "transfer", "retail"}

(* store: CustomerID, ShipStore, ModifyStore, SourceStore or SellStore.    *)
(* mode: StockMode or ShipmentMode.  linked: ChargeAmount > 0, or a link   *)
(* to a purchase or an order.                                              *)
Header == [store : Stores, mode : Int, linked : BOOLEAN]

(* dest: DestStore of a transfer line.  sell: SellMode of a retail line.   *)
Item == [product : Products, dest : Stores, sell : Int, qty : Int]

Payload == [kind : Kinds, header : Header, items : Seq(Item)]

Document == [kind : Kinds, header : Header, items : Seq(Item), live : BOOLEAN]

ASSUME PayloadsAssumption == Payloads \subseteq Payload

ASSUME ProductsAssumption == Products \subseteq Int

ASSUME DocsAssumption == IsFiniteSet(Docs)

ASSUME BoundsAssumption == MaxRebuilds \in Nat /\ MaxBatch \in Nat

ASSUME NoDocAssumption == NoDoc \notin Document

VARIABLES
  documents,   \* the document tables
  replica,     \* the replica's copy of them
  stock,       \* product_size_stocks: the quantity of <<store, product>>
  pc,          \* how far a request has come
  target,      \* the document a request updates or deletes
  payload,     \* what an update carries; NoDoc for a deletion
  existing,    \* the header a request has read
  oldItems,    \* the lines a request has read
  overtaken,   \* history: a request has committed on reads that were outdated
  rebuilds     \* how often MigrateAll has run

vars == <<documents, replica, stock, pc, target, payload, existing, oldItems,
          overtaken, rebuilds>>

Keys == Stores \X Products

-----------------------------------------------------------------------------
(* What a document books *)

At(store, qty, k) == IF k[1] = store THEN qty ELSE 0

(* Only adjustments book negative quantities: elsewhere `if s.Qty > 0`.    *)
Positive(q) == IF q > 0 THEN q ELSE 0

(* What a line books on row k.  A receipt adds, a return (2) takes.        *)
StockEffect(header, item, k) ==
  At(header.store, (IF header.mode = 2 THEN -1 ELSE 1) * Positive(item.qty), k)

(* A shipment takes, a return (4) adds.                                    *)
ShipmentEffect(header, item, k) ==
  At(header.store, (IF header.mode = 4 THEN 1 ELSE -1) * Positive(item.qty), k)

(* An adjustment adds its signed quantity.                                 *)
ModifyEffect(header, item, k) == At(header.store, item.qty, k)

(* A transfer takes from the source and adds to the line's destination.    *)
TransferEffect(header, item, k) ==
  At(header.store, -Positive(item.qty), k) + At(item.dest, Positive(item.qty), k)

(* A sale or a gift (7) takes, a return (2) adds, line by line.            *)
RetailEffect(header, item, k) ==
  At(header.store, (IF item.sell = 2 THEN 1 ELSE -1) * Positive(item.qty), k)

ItemEffect(kind, header, item, k) ==
  IF item.product # k[2] THEN 0
  ELSE CASE kind = "stock"    -> StockEffect(header, item, k)
         [] kind = "shipment" -> ShipmentEffect(header, item, k)
         [] kind = "modify"   -> ModifyEffect(header, item, k)
         [] kind = "transfer" -> TransferEffect(header, item, k)
         [] kind = "retail"   -> RetailEffect(header, item, k)

Effect(kind, header, items, k) ==
  SumFunctionOnSet([i \in DOMAIN items |-> ItemEffect(kind, header, items[i], k)],
                   DOMAIN items)

(* The order the lines are stored in: by model code, equal codes as sent.  *)
ReorderItemsByModelCode(items) ==
  CHOOSE p \in [DOMAIN items -> DOMAIN items] :
    \A i, j \in DOMAIN items : i < j =>
      \/ items[p[i]].product < items[p[j]].product
      \/ items[p[i]].product = items[p[j]].product /\ p[i] < p[j]

Sorted(items) ==
  LET p == ReorderItemsByModelCode(items) IN [i \in DOMAIN items |-> items[p[i]]]

(* Retail lines keep the order and the absolute quantity of the request.   *)
StoredItems(kind, items) ==
  IF kind = "retail"
  THEN [i \in DOMAIN items |-> [items[i] EXCEPT !.qty = IF @ < 0 THEN -@ ELSE @]]
  ELSE Sorted(items)

(* CreateTransfer attaches the sizes of req.Items[i] to newItems[i], which *)
(* was made from req.Items[permut[i]].                                     *)
CreatedItems(kind, items) ==
  IF kind = "transfer"
  THEN [i \in DOMAIN items |-> [Sorted(items)[i] EXCEPT !.qty = items[i].qty]]
  ELSE StoredItems(kind, items)

(* A creation without a mode is a receipt or a shipment.  An update writes *)
(* the mode it is sent, a missing one as 0.                                *)
CreatedHeader(new) ==
  [new.header EXCEPT !.mode =
     IF @ = 0 /\ new.kind = "stock" THEN 1
     ELSE IF @ = 0 /\ new.kind = "shipment" THEN 3
     ELSE @]

(* CreateTransfer checks the rows that lose stock (CheckStockSufficientBatch). *)
Sufficient(new) ==
  \A k \in Keys : LET n == Effect(new.kind, new.header, new.items, k) IN
    n < 0 => stock[k] + n >= 0

Book(change) == stock' = [k \in Keys |-> stock[k] + change[k]]

-----------------------------------------------------------------------------
(* The handlers *)

Init ==
  /\ documents = [d \in Docs |-> NoDoc]
  /\ replica = documents
  /\ stock = [k \in Keys |-> 0]
  /\ pc = [r \in Requests |-> "idle"]
  /\ target \in [Requests -> Docs]
  /\ payload = [r \in Requests |-> NoDoc]
  /\ existing = [r \in Requests |-> NoDoc]
  /\ oldItems = [r \in Requests |-> <<>>]
  /\ overtaken = FALSE
  /\ rebuilds = 0

Read(d) == IF ReadReplica THEN replica[d] ELSE documents[d]

(* A creation: one transaction nobody else can see or refer to.            *)
Create(r, new) ==
  /\ pc[r] = "idle"
  /\ documents[target[r]] = NoDoc
  /\ documents' = [documents EXCEPT ![target[r]] =
       [kind |-> new.kind, header |-> CreatedHeader(new),
        items |-> CreatedItems(new.kind, new.items), live |-> TRUE]]
  /\ Book([k \in Keys |-> Effect(new.kind, new.header, new.items, k)])
  /\ pc' = [pc EXCEPT ![r] = "done"]
  /\ UNCHANGED <<replica, target, payload, existing, oldItems, overtaken, rebuilds>>

CreateStock(r, new) == new.kind = "stock" /\ Create(r, new)

CreateShipment(r, new) == new.kind = "shipment" /\ Create(r, new)

CreateModify(r, new) == new.kind = "modify" /\ Create(r, new)

CreateRetailSell(r, new) == new.kind = "retail" /\ Create(r, new)

CreateTransfer(r, new) == new.kind = "transfer" /\ Sufficient(new) /\ Create(r, new)

RefuseTransfer(r, new) ==
  /\ pc[r] = "idle"
  /\ documents[target[r]] = NoDoc
  /\ new.kind = "transfer" /\ ~Sufficient(new)
  /\ pc' = [pc EXCEPT ![r] = "done"]
  /\ UNCHANGED <<documents, replica, stock, target, payload, existing, oldItems,
                 overtaken, rebuilds>>

Unused == {d \in Docs : documents[d] = NoDoc}

(* The documents of a batch share kind and mode, transfers the source too. *)
IsBatch(new) ==
  \E kind \in {"stock", "shipment", "transfer"} : \A d, e \in DOMAIN new :
    /\ new[d].kind = kind
    /\ new[d].header.mode = new[e].header.mode
    /\ kind = "transfer" => new[d].header.store = new[e].header.store

BatchEffect(new, k) ==
  SumFunctionOnSet([d \in DOMAIN new |-> Effect(new[d].kind, new[d].header, new[d].items, k)],
                   DOMAIN new)

(* Transfers are checked together, after the last one has been inserted.   *)
BatchSufficient(new) ==
  \A d \in DOMAIN new : new[d].kind = "transfer" =>
    \A k \in Keys : BatchEffect(new, k) < 0 => stock[k] + BatchEffect(new, k) >= 0

(* Several documents in one transaction, numbered without a gap in their   *)
(* series (module Numbering).  Batches sort before they make lines, so     *)
(* transfers keep their sizes.                                             *)
CreateBatch(r, new) ==
  /\ pc[r] = "idle"
  /\ target[r] \in DOMAIN new
  /\ IsBatch(new)
  /\ pc' = [pc EXCEPT ![r] = "done"]
  /\ IF BatchSufficient(new)
     THEN /\ documents' = [d \in Docs |->
               IF d \in DOMAIN new
               THEN [kind |-> new[d].kind, header |-> CreatedHeader(new[d]),
                     items |-> StoredItems(new[d].kind, new[d].items), live |-> TRUE]
               ELSE documents[d]]
          /\ Book([k \in Keys |-> BatchEffect(new, k)])
     ELSE UNCHANGED <<documents, stock>>
  /\ UNCHANGED <<replica, target, payload, existing, oldItems, overtaken, rebuilds>>

(* An update or a deletion starts by reading the header; services/modify  *)
(* reads it from the write database, in the transaction.                   *)
HeaderRead(r) ==
  IF documents[target[r]] # NoDoc /\ documents[target[r]].kind = "modify"
  THEN documents[target[r]]
  ELSE Read(target[r])

(* Mutation of Found: Unscoped, deleted documents are found too.           *)
FoundUnscoped(r) == HeaderRead(r) # NoDoc

Found(r) == HeaderRead(r) # NoDoc /\ HeaderRead(r).live

(* Mutation of StoreMayChange: the new document is asked for its links.    *)
NewLinksChecked(old, new) ==
  \/ old.kind \notin {"stock", "shipment"}
  \/ new.header.store = old.header.store
  \/ ~new.header.linked

(* A receipt or shipment that is settled or linked keeps its store.        *)
StoreMayChange(old, new) ==
  \/ old.kind \notin {"stock", "shipment"}
  \/ new.header.store = old.header.store
  \/ ~old.header.linked

BeginUpdate(r, new) ==
  /\ pc[r] = "idle"
  /\ Found(r)
  /\ new.kind = HeaderRead(r).kind
  /\ StoreMayChange(HeaderRead(r), new)
  /\ existing' = [existing EXCEPT ![r] = HeaderRead(r)]
  /\ payload' = [payload EXCEPT ![r] = new]
  /\ pc' = [pc EXCEPT ![r] = "update"]
  /\ UNCHANGED <<documents, replica, stock, target, oldItems, overtaken, rebuilds>>

BeginDelete(r) ==
  /\ pc[r] = "idle"
  /\ Found(r)
  /\ existing' = [existing EXCEPT ![r] = HeaderRead(r)]
  /\ pc' = [pc EXCEPT ![r] = "delete"]
  /\ UNCHANGED <<documents, replica, stock, target, payload, oldItems, overtaken,
                 rebuilds>>

(* 404: the document is missing, or deleted, as far as the read shows.     *)
NotFound(r) ==
  /\ pc[r] = "idle"
  /\ documents[target[r]] # NoDoc
  /\ ~Found(r)
  /\ pc' = [pc EXCEPT ![r] = "done"]
  /\ UNCHANGED <<documents, replica, stock, target, payload, existing, oldItems,
                 overtaken, rebuilds>>

(* tx.Preload("Sizes").Where("stock_id = ?", id).Find(&oldItems)           *)
LoadItems(r) ==
  /\ pc[r] \in {"update", "delete"}
  /\ oldItems' = [oldItems EXCEPT ![r] = documents[target[r]].items]
  /\ pc' = [pc EXCEPT ![r] = IF @ = "update" THEN "rewrite" ELSE "remove"]
  /\ UNCHANGED <<documents, replica, stock, target, payload, existing, overtaken,
                 rebuilds>>

(* Mutation of Reverted: the store and mode of the new document.           *)
RevertedByNewHeader(r, k) ==
  -Effect(existing[r].kind,
          IF pc[r] = "rewrite" THEN payload[r].header ELSE existing[r].header,
          oldItems[r], k)

(* What the request takes back: the header and the lines it has read.      *)
Reverted(r, k) ==
  -Effect(existing[r].kind, existing[r].header, oldItems[r], k)

Outdated(r) ==
  LET now == documents[target[r]] IN
    now.header # existing[r].header \/ now.items # oldItems[r] \/ ~now.live

End(r) ==
  /\ pc' = [pc EXCEPT ![r] = "done"]
  /\ overtaken' = (overtaken \/ Outdated(r))
  /\ UNCHANGED <<replica, target, payload, existing, oldItems, rebuilds>>

(* The rest of an update: take back the old booking, delete the lines the  *)
(* document has by now, overwrite the header (no row matches if it has     *)
(* been deleted, which is not an error), store and book the new lines.     *)
Rewrite(r) ==
  LET d == target[r]
      new == payload[r]
  IN /\ pc[r] = "rewrite"
     /\ Book([k \in Keys |->
          Reverted(r, k) + Effect(new.kind, new.header, new.items, k)])
     /\ documents' = [documents EXCEPT
          ![d].items = StoredItems(new.kind, new.items),
          ![d].header = IF documents[d].live THEN new.header ELSE @]
     /\ End(r)

(* The rest of a deletion: take back the booking, set deleted_at.          *)
Remove(r) ==
  /\ pc[r] = "remove"
  /\ Book([k \in Keys |-> Reverted(r, k)])
  /\ documents' = [documents EXCEPT ![target[r]].live = FALSE]
  /\ End(r)

Has(r, kind) == existing[r] # NoDoc /\ existing[r].kind = kind

UpdateStock(r) == Has(r, "stock") /\ Rewrite(r)
UpdateShipment(r) == Has(r, "shipment") /\ Rewrite(r)
UpdateModify(r) == Has(r, "modify") /\ Rewrite(r)
UpdateTransfer(r) == Has(r, "transfer") /\ Rewrite(r)
UpdateRetailSell(r) == Has(r, "retail") /\ Rewrite(r)

DeleteStock(r) == Has(r, "stock") /\ Remove(r)
DeleteShipment(r) == Has(r, "shipment") /\ Remove(r)
DeleteModify(r) == Has(r, "modify") /\ Remove(r)
DeleteTransfer(r) == Has(r, "transfer") /\ Remove(r)
DeleteRetailSell(r) == Has(r, "retail") /\ Remove(r)

(* An error, a deadlock or a lost connection rolls the transaction back.   *)
Fail(r) ==
  /\ pc[r] \in {"update", "delete", "rewrite", "remove"}
  /\ pc' = [pc EXCEPT ![r] = "done"]
  /\ UNCHANGED <<documents, replica, stock, target, payload, existing, oldItems,
                 overtaken, rebuilds>>

-----------------------------------------------------------------------------
(* Around the handlers *)

(* Mutation of RebuiltItem: transfers are taken from the source only.      *)
RebuiltWithoutArrivals(kind, header, item, k) ==
  IF item.product # k[2] THEN 0
  ELSE CASE kind = "stock" ->
              At(header.store, IF header.mode = 1 THEN item.qty ELSE -item.qty, k)
         [] kind = "shipment" ->
              At(header.store, IF header.mode = 3 THEN -item.qty ELSE item.qty, k)
         [] kind = "modify" -> At(header.store, item.qty, k)
         [] kind = "transfer" -> At(header.store, -item.qty, k)
         [] kind = "retail" -> 0

(* MigrateAll clears product_size_stocks and books every document that is  *)
(* not deleted, with rules of its own.                                     *)
RebuiltItem(kind, header, item, k) ==
  IF item.product # k[2] THEN 0
  ELSE CASE kind = "stock" ->
              At(header.store, IF header.mode = 1 THEN item.qty ELSE -item.qty, k)
         [] kind = "shipment" ->
              At(header.store, IF header.mode = 3 THEN -item.qty ELSE item.qty, k)
         [] kind = "modify" -> At(header.store, item.qty, k)
         [] kind = "transfer" ->
              At(header.store, -item.qty, k) + At(item.dest, item.qty, k)
         [] kind = "retail" -> 0

Rebuilt(kind, header, items, k) ==
  SumFunctionOnSet([i \in DOMAIN items |-> RebuiltItem(kind, header, items[i], k)],
                   DOMAIN items)

LiveDocs == {d \in Docs : documents[d] # NoDoc /\ documents[d].live}

MigrateAll ==
  /\ rebuilds < MaxRebuilds
  /\ rebuilds' = rebuilds + 1
  /\ stock' = [k \in Keys |->
       SumFunctionOnSet(
         [d \in LiveDocs |->
            Rebuilt(documents[d].kind, documents[d].header, documents[d].items, k)],
         LiveDocs)]
  /\ overtaken' = FALSE
  /\ UNCHANGED <<documents, replica, pc, target, payload, existing, oldItems>>

(* The replica replays the log of the write database, in commit order.     *)
Replicate ==
  /\ ReadReplica /\ replica # documents
  /\ replica' = documents
  /\ UNCHANGED <<documents, stock, pc, target, payload, existing, oldItems,
                 overtaken, rebuilds>>

Handler(r) ==
  \/ \E new \in Payloads :
       \/ CreateStock(r, new)
       \/ CreateShipment(r, new)
       \/ CreateModify(r, new)
       \/ CreateTransfer(r, new)
       \/ CreateRetailSell(r, new)
       \/ RefuseTransfer(r, new)
       \/ BeginUpdate(r, new)
  \/ \E D \in SUBSET Unused :
       Cardinality(D) <= MaxBatch /\ \E new \in [D -> Payloads] : CreateBatch(r, new)
  \/ BeginDelete(r)
  \/ NotFound(r)
  \/ LoadItems(r)
  \/ UpdateStock(r)
  \/ UpdateShipment(r)
  \/ UpdateModify(r)
  \/ UpdateTransfer(r)
  \/ UpdateRetailSell(r)
  \/ DeleteStock(r)
  \/ DeleteShipment(r)
  \/ DeleteModify(r)
  \/ DeleteTransfer(r)
  \/ DeleteRetailSell(r)
  \/ Fail(r)

(* Every request has been answered. *)
Finished ==
  /\ \A r \in Requests : pc[r] = "done"
  /\ UNCHANGED vars

Next ==
  \/ \E r \in Requests : Handler(r)
  \/ MigrateAll
  \/ Replicate
  \/ Finished

Spec == Init /\ [][Next]_vars

-----------------------------------------------------------------------------
(* Properties *)

(* Type correctness of the tables and of the requests, which only ever     *)
(* take back a document that was not deleted when they read it.            *)
TypeOK ==
  /\ documents \in [Docs -> Document \union {NoDoc}]
  /\ replica \in [Docs -> Document \union {NoDoc}]
  /\ stock \in [Keys -> Int]
  /\ pc \in [Requests -> {"idle", "update", "delete", "rewrite", "remove", "done"}]
  /\ target \in [Requests -> Docs]
  /\ payload \in [Requests -> Payloads \union {NoDoc}]
  /\ existing \in [Requests -> [kind : Kinds, header : Header, items : Seq(Item),
                                live : {TRUE}] \union {NoDoc}]
  /\ oldItems \in [Requests -> Seq(Item)]
  /\ overtaken \in BOOLEAN
  /\ rebuilds \in 0..MaxRebuilds

(* The stock of every row is what the documents that are not deleted book. *)
StockMatchesDocuments ==
  \A k \in Keys :
    stock[k] = SumFunctionOnSet(
                 [d \in LiveDocs |-> Effect(documents[d].kind, documents[d].header,
                                            documents[d].items, k)],
                 LiveDocs)

(* It goes wrong only if a request commits although the document it read   *)
(* has changed under it, and MigrateAll repairs it: no order of creations, *)
(* updates, deletions, failures and rebuilds does.                         *)
MatchesUnlessOvertaken == ~overtaken => StockMatchesDocuments

(* A settled or linked receipt or shipment changes its store only if it    *)
(* became so, or had its store changed, after the update had checked.      *)
LinkedKeepsStore ==
  [][\A d \in Docs :
       /\ documents[d] # NoDoc
       /\ documents[d].kind \in {"stock", "shipment"}
       /\ documents[d].header.linked
       /\ documents'[d].header.store # documents[d].header.store
       => overtaken']_vars
=============================================================================
