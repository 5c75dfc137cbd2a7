------------------------- MODULE PurchaseDelivery -------------------------
(***************************************************************************)
(* Purchases, the receipts that deliver them, and what a purchase keeps    *)
(* about itself: its delivery status (0 nothing, 1 a part, 2 everything)   *)
(* and whether it is stopped.                                              *)
(*                                                                         *)
(* Like orders and shipments (OrderDelivery), but an edited purchase gets  *)
(* new lines and nothing is linked to them: the foreign key of             *)
(* stock_items makes the edit fail once a line has a receipt, a deleted    *)
(* one included.  Receipts may be created in batches.                      *)
(*                                                                         *)
(* A transaction that locks the purchase before it computes is one action  *)
(* from there on.  Receipts compute first: one action per computation and  *)
(* per UPDATE.  A line has one size; stock and amounts are elsewhere.      *)
(***************************************************************************)
EXTENDS Integers, FiniteSetsExt, SequencesExt

CONSTANTS
  Purchases, Receipts,  \* ids
  Requests,             \* each handles one request at a time
  Products, Vendors,
  MaxItems,             \* bound: purchase lines ever created
  MaxRequests,          \* bound: requests ever begun
  NewForms,             \* the lines of a new purchase
  EditForms,            \* the lines its editor may send
  Quantities,           \* what a receipt may deliver of a line
  None

Items == 1 .. MaxItems

FormLine == [product : Products, qty : Nat, stopped : BOOLEAN]

Item == [purchase : Purchases, product : Products, qty : Nat, stopped : BOOLEAN]

Purchase == [vendor : Vendors, live : BOOLEAN]

(* lines: what is received of each purchase line, 0 if nothing is linked.  *)
Lines == [Items -> Nat]

Receipt == [vendor : Vendors, lines : Lines, live : BOOLEAN]

ASSUME FormsAssumption == NewForms \union EditForms \subseteq Seq(FormLine)

ASSUME BoundsAssumption ==
  Quantities \subseteq Nat /\ MaxItems \in Nat /\ MaxRequests \in Nat /\ IsFiniteSet(Receipts)

(* What a request was sent: an edited purchase, a stop, these receipts.    *)
Form(batch) ==
  [vendor : Vendors, lines : Seq(FormLine)] \union [whole : BOOLEAN]
    \union [receipts : [batch -> Receipt]]

Computed == [purchase : Purchases, status : 0 .. 2]

ASSUME NoneAssumption ==
  /\ None \notin Item \union Purchase \union Receipt \union Lines \union Requests
                    \union Computed \union {0, 1, 2}
  /\ \A batch \in SUBSET Receipts : None \notin Form(batch)

VARIABLES
  purchases,  \* None before it is created
  status,     \* purchases.delivery_status
  isStopped,  \* purchases.is_stopped
  items,      \* purchase_items with their size; None for no row
  used,       \* ids of purchase_items given out
  receipts,   \* stocks and stock_items
  begun,      \* requests that have come
  lock,       \* the transaction that holds the row lock of a purchase
  pc,         \* how far a request has come
  doc,        \* the purchase or the receipts it works on, a set
  form,       \* what it was sent; None to delete
  seen,       \* the purchase lines it has read
  todo,       \* purchases whose status it has yet to compute
  computed,   \* the status it is about to write: [purchase, status]
  written,    \* the statuses it has written and not committed
  blind,      \* whether its DELETE of the old lines has found none
  outrun,     \* history: purchases others have changed since it looked
  stale,      \* history: purchases whose last status was outrun
  staleStop,  \* history: purchases whose last is_stopped was outrun
  mixed       \* history: receipts that kept lines an editor did not see

tables == <<purchases, status, isStopped, items, used, receipts>>
private == <<form, seen, todo, computed, written, blind>>
vars == <<tables, begun, lock, pc, doc, private, outrun, stale, staleStop, mixed>>

NoLines == [i \in Items |-> 0]

NoReceipt == [vendor |-> None, lines |-> NoLines, live |-> FALSE]

Unwritten == [p \in Purchases |-> None]

-----------------------------------------------------------------------------
(* The status, and what is outstanding *)

LinesOf(p) == {i \in Items : items[i] # None /\ items[i].purchase = p}

Active(p) == {i \in LinesOf(p) : ~items[i].stopped}

Live(p) == purchases[p] # None /\ purchases[p].live

ReceiptIn(rows, s) == IF rows[s] = None THEN NoReceipt ELSE rows[s]

(* Receipts that are deleted do not count.                                 *)
Of(i, rows) ==
  SumFunctionOnSet([s \in Receipts |->
                      IF ReceiptIn(rows, s).live THEN ReceiptIn(rows, s).lines[i] ELSE 0],
                   Receipts)

(* DeliveredQtyMap: a return counts like a receipt.                        *)
Delivered(i) == Of(i, receipts)

(* UpdateDeliveryStatus.                                                   *)
StatusOf(p, rows) ==
  LET wanted == {i \in Active(p) : items[i].qty > 0}
      any == \E i \in wanted : Of(i, rows) > 0
      all == \A i \in wanted : Of(i, rows) >= items[i].qty
  IN CASE Active(p) = {} \/ (all /\ any) -> 2
       [] any /\ ~all -> 1
       [] OTHER -> 0

(* Mutation of SearchItems: only purchases nothing has been received of.    *)
SearchUntouched(v) ==
  {i \in Items : \E p \in Purchases :
     Live(p) /\ purchases[p].vendor = v /\ status[p] = 0 /\ i \in Active(p)}

(* purchase.SearchItems: the lines the form of a receipt offers.           *)
SearchItems(v) ==
  {i \in Items : \E p \in Purchases :
     Live(p) /\ purchases[p].vendor = v /\ status[p] < 2 /\ i \in Active(p)}

Short(i) == Max({0, items[i].qty - Delivered(i)})

(* VendorProductOutstandingMap.                                            *)
VendorOutstanding(v, product) ==
  SumFunctionOnSet([i \in Items |-> Short(i)], {i \in SearchItems(v) : items[i].product = product})

(* Mutation of HasPurchaseLink: only stocks.purchase_id is looked at, which *)
(* the receipts here leave empty.                                          *)
HeaderLink(s) == FALSE

(* stockHasPurchaseLink                                                    *)
HasPurchaseLink(s) == \E i \in Items : receipts[s].lines[i] > 0

(* purchaseHasStockLink                                                    *)
HasStockLink(p) == \E i \in LinesOf(p) : Delivered(i) > 0

-----------------------------------------------------------------------------
(* Requests *)

Init ==
  /\ purchases = [p \in Purchases |-> None]
  /\ status = [p \in Purchases |-> 0]
  /\ isStopped = [p \in Purchases |-> FALSE]
  /\ items = [i \in Items |-> None]
  /\ used = 0
  /\ receipts = [s \in Receipts |-> None]
  /\ begun = 0
  /\ lock = [p \in Purchases |-> None]
  /\ pc = [r \in Requests |-> "idle"]
  /\ doc = [r \in Requests |-> {}]
  /\ form = [r \in Requests |-> None]
  /\ seen = [r \in Requests |-> {}]
  /\ todo = [r \in Requests |-> {}]
  /\ computed = [r \in Requests |-> None]
  /\ written = [r \in Requests |-> Unwritten]
  /\ blind = [r \in Requests |-> FALSE]
  /\ outrun = [r \in Requests |-> {}]
  /\ stale = [p \in Purchases |-> FALSE]
  /\ staleStop = [p \in Purchases |-> FALSE]
  /\ mixed = {}

Goto(r, label) == pc' = [pc EXCEPT ![r] = label]

Arrive(r) ==
  /\ pc[r] = "idle"
  /\ begun < MaxRequests
  /\ begun' = begun + 1

Begin(r, d, f, read, label) ==
  /\ Arrive(r)
  /\ doc' = [doc EXCEPT ![r] = d]
  /\ form' = [form EXCEPT ![r] = f]
  /\ seen' = [seen EXCEPT ![r] = read]
  /\ outrun' = [outrun EXCEPT ![r] = {}]
  /\ Goto(r, label)
  /\ UNCHANGED <<tables, lock, todo, computed, written, blind, stale, staleStop, mixed>>

Running(r) == pc[r] # "idle"

(* The request ends, and the others' reads of these purchases are outdated. *)
End(r, changed) ==
  /\ Goto(r, "idle")
  /\ doc' = [doc EXCEPT ![r] = {}]
  /\ form' = [form EXCEPT ![r] = None]
  /\ seen' = [seen EXCEPT ![r] = {}]
  /\ todo' = [todo EXCEPT ![r] = {}]
  /\ computed' = [computed EXCEPT ![r] = None]
  /\ written' = [written EXCEPT ![r] = Unwritten]
  /\ blind' = [blind EXCEPT ![r] = FALSE]
  /\ outrun' = [q \in Requests |->
       IF q # r /\ Running(q) THEN outrun[q] \union changed ELSE {}]

(* An error reply, a lost connection, the victim of a deadlock.            *)
Fail(r) ==
  /\ Running(r)
  /\ lock' = [p \in Purchases |-> IF lock[p] = r THEN None ELSE lock[p]]
  /\ End(r, {})
  /\ UNCHANGED <<begun, tables, stale, staleStop, mixed>>

(* is_stopped and the status, in a transaction that holds the purchase.    *)
SetStatus(p, stop, value) ==
  /\ Live(p) => lock[p] = None
  /\ isStopped' = IF Live(p) THEN [isStopped EXCEPT ![p] = stop] ELSE isStopped
  /\ status' = IF Live(p) THEN [status EXCEPT ![p] = value] ELSE status
  /\ stale' = [stale EXCEPT ![p] = FALSE]

-----------------------------------------------------------------------------
(* Purchases *)

Create(p, lines) ==
  [i \in Items |->
     IF i - used \in DOMAIN lines
     THEN [purchase |-> p, product |-> lines[i - used].product,
           qty |-> lines[i - used].qty, stopped |-> lines[i - used].stopped]
     ELSE items[i]]

(* CreatePurchase leaves status and is_stopped at their defaults.          *)
CreatePurchase(r, p, vendor, lines) ==
  /\ Arrive(r)
  /\ purchases[p] = None
  /\ used + Len(lines) <= MaxItems
  /\ purchases' = [purchases EXCEPT ![p] = [vendor |-> vendor, live |-> TRUE]]
  /\ items' = Create(p, lines)
  /\ used' = used + Len(lines)
  /\ End(r, {})
  /\ UNCHANGED <<status, isStopped, receipts, lock, stale, staleStop, mixed>>

DeletePurchase(r, p) ==
  /\ Arrive(r)
  /\ Live(p)
  /\ lock[p] = None
  /\ purchases' = [purchases EXCEPT ![p].live = FALSE]
  /\ End(r, {})
  /\ UNCHANGED <<status, isStopped, items, used, receipts, lock, stale, staleStop, mixed>>

BeginUpdatePurchase(r, p, vendor, lines) ==
  /\ Live(p)
  /\ vendor # purchases[p].vendor => ~HasStockLink(p)
  /\ Begin(r, {p}, [vendor |-> vendor, lines |-> lines], {}, "rewrite")

(* The purchase lines a receipt's transaction has linked or unlinked.      *)
Touches(q) ==
  IF pc[q] # "status" THEN {}
  ELSE {i \in Items : \E s \in doc[q] :
          \/ ~blind[q] /\ ReceiptIn(receipts, s).lines[i] > 0
          \/ form[q] # None /\ form[q].receipts[s].lines[i] > 0}

(* Mutation of Deletable: receipts that are deleted, or not committed, do  *)
(* not count.                                                              *)
NotDelivered(p) == \A i \in LinesOf(p) : Delivered(i) = 0

(* The lines p had before are deleted: no row of stock_items may refer to  *)
(* them, whether its receipt is deleted or not.                            *)
Deletable(p) ==
  \A i \in LinesOf(p) :
     /\ \A s \in Receipts : ReceiptIn(receipts, s).lines[i] = 0
     /\ \A q \in Requests : i \notin Touches(q)

(* Rows of p that a stop has locked.                                       *)
Stopping(p) == \E q \in Requests : pc[q] = "stopped" /\ seen[q] \intersect LinesOf(p) # {}

(* UpdatePurchase: the transaction.                                        *)
UpdatePurchase(r, p) ==
  LET lines == form[r].lines
  IN /\ pc[r] = "rewrite"
     /\ doc[r] = {p}
     /\ Deletable(p)
     /\ ~Stopping(p)
     /\ used + Len(lines) <= MaxItems
     /\ items' = [i \in Items |-> IF i \in LinesOf(p) THEN None ELSE Create(p, lines)[i]]
     /\ used' = used + Len(lines)
     /\ purchases' = IF Live(p) THEN [purchases EXCEPT ![p].vendor = form[r].vendor] ELSE purchases
     /\ receipts' = receipts
     /\ SetStatus(p, Active(p)' = {}, StatusOf(p, receipts)')
     /\ staleStop' = [staleStop EXCEPT ![p] = FALSE]
     /\ End(r, {p})
     /\ UNCHANGED <<begun, lock, mixed>>

(* StopItems, and Stop if products is None: the UPDATE of the lines starts. *)
BeginStop(r, p, products) ==
  /\ Live(p)
  /\ Begin(r, {p}, [whole |-> products = None],
           {i \in Active(p) : products = None \/ items[i].product \in products}, "stop")

(* Mutation of NothingLeft: the lines are counted before they are stopped. *)
CountedFirst(r, p, mine) == Active(p) = {} \/ form[r].whole

(* What the request takes for is_stopped.                                  *)
NothingLeft(r, p, mine) == Active(p) \subseteq mine \/ form[r].whole

(* It locks those that are still there, and the lines left are counted:    *)
(* seen becomes what it has stopped, todo {p} if p is to be marked stopped. *)
StopLines(r, p) ==
  LET mine == {i \in seen[r] : i \in Active(p)}
  IN /\ pc[r] = "stop"
     /\ doc[r] = {p}
     /\ \A q \in Requests \ {r} : pc[q] = "stopped" => seen[q] \intersect mine = {}
     /\ seen' = [seen EXCEPT ![r] = mine]
     /\ todo' = [todo EXCEPT ![r] =
          IF NothingLeft(r, p, mine) THEN {p} ELSE {}]
     /\ Goto(r, "stopped")
     /\ UNCHANGED <<begun, tables, lock, doc, form, computed, written, blind, outrun, stale,
                    staleStop, mixed>>

(* is_stopped, the status and the commit.                                  *)
FinishStop(r, p) ==
  /\ pc[r] = "stopped"
  /\ doc[r] = {p}
  /\ items' = [i \in Items |->
       IF i \in seen[r] THEN [items[i] EXCEPT !.stopped = TRUE] ELSE items[i]]
  /\ receipts' = receipts
  /\ SetStatus(p, p \in todo[r], StatusOf(p, receipts)')
  /\ staleStop' = [staleStop EXCEPT ![p] = p \in outrun[r]]
  /\ End(r, {p})
  /\ UNCHANGED <<begun, purchases, used, lock, mixed>>

-----------------------------------------------------------------------------
(* Receipts *)

(* A form keeps lines of its receipt, and takes some the search offers.    *)
ReceiptForms(s, v) ==
  LET linkable == SearchItems(v) \union {i \in Items : ReceiptIn(receipts, s).lines[i] > 0}
  IN {[vendor |-> v, lines |-> [i \in Items |-> IF i \in DOMAIN f THEN f[i] ELSE 0], live |-> TRUE] :
        f \in UNION {[linked -> Quantities] : linked \in SUBSET linkable}}

BatchForms(batch) == UNION {ReceiptForms(s, v) : s \in batch, v \in Vendors}

(* CreateStock; with several receipts, CreateBatch.                        *)
BeginCreate(r, batch) ==
  /\ pc[r] = "idle"
  /\ \A s \in batch : receipts[s] = None /\ \A q \in Requests \ {r} : s \notin doc[q]
  /\ \E forms \in [batch -> BatchForms(batch)] :
       Begin(r, batch, [receipts |-> forms], {}, "write")

(* UpdateStock: the header and the old lines are read before.              *)
BeginUpdateStock(r, s) ==
  /\ pc[r] = "idle"
  /\ ReceiptIn(receipts, s).live
  /\ \E v \in Vendors :
       /\ v # receipts[s].vendor => ~HasPurchaseLink(s)
       /\ \E f \in ReceiptForms(s, v) :
            Begin(r, {s}, [receipts |-> [t \in {s} |-> f]], {i \in Items : receipts[s].lines[i] > 0}, "write")

(* DeleteStock: the lines are read first.                                  *)
BeginDeleteStock(r, s) ==
  /\ ReceiptIn(receipts, s).live
  /\ Begin(r, {s}, None, {i \in Items : receipts[s].lines[i] > 0}, "write")

(* Mutation of DistinctPurchaseIDs: the lines a receipt had do not count.  *)
OfNewLines(old, new) == {items[i].purchase : i \in {j \in new : items[j] # None}}

DistinctPurchaseIDs(old, new) ==
  {items[i].purchase : i \in {j \in old \union new : items[j] # None}}

(* UpdateStock: its DELETE finds no old line, so that it waits for nobody  *)
(* before the UPDATE of the header.  A receipt with lines, linked or not,  *)
(* makes it wait at their stock: its DELETE finds what is there by then.   *)
FindNoLines(r) ==
  /\ pc[r] = "write" /\ form[r] # None /\ ~blind[r]
  /\ \A s \in doc[r] : receipts[s] # None /\ receipts[s].lines = NoLines
  /\ blind' = [blind EXCEPT ![r] = TRUE]
  /\ UNCHANGED <<begun, tables, lock, pc, doc, form, seen, todo, computed, written, outrun,
                 stale, staleStop, mixed>>

(* The transaction, up to the status.  Every purchase line must exist.     *)
WriteReceipts(r) ==
  LET linked == {i \in Items : form[r] # None /\ \E s \in doc[r] : form[r].receipts[s].lines[i] > 0}
  IN /\ pc[r] = "write"
     /\ \A q \in Requests : ~(pc[q] = "status" /\ doc[q] \intersect doc[r] # {})
     /\ \A i \in linked : items[i] # None
     /\ todo' = [todo EXCEPT ![r] = DistinctPurchaseIDs(seen[r], linked)]
     /\ outrun' = [outrun EXCEPT ![r] = @ \ todo'[r]]
     /\ Goto(r, "status")
     /\ UNCHANGED <<begun, tables, lock, doc, form, seen, computed, written, blind, stale,
                    staleStop, mixed>>

(* Lines that another request gave a receipt after the DELETE stay.        *)
Left(r, s) == IF blind[r] THEN receipts[s].lines ELSE NoLines

(* The receipts as r leaves them.  An update of a deleted one, which finds *)
(* no header, replaces its lines.                                          *)
After(r) ==
  [s \in Receipts |->
     CASE s \notin doc[r] -> receipts[s]
       [] s \in doc[r] /\ form[r] = None -> [receipts[s] EXCEPT !.live = FALSE]
       [] s \in doc[r] /\ form[r] # None /\ receipts[s] = None -> form[r].receipts[s]
       [] OTHER -> [receipts[s] EXCEPT
                      !.lines = [i \in Items |-> form[r].receipts[s].lines[i] + Left(r, s)[i]],
                      !.vendor = IF receipts[s].live THEN form[r].receipts[s].vendor ELSE @]]

(* RecalcPurchasesDeliveryStatus takes them as SELECT DISTINCT gives them. *)
Compute(r, p) ==
  /\ pc[r] = "status"
  /\ computed[r] = None
  /\ p \in todo[r]
  /\ computed' = [computed EXCEPT ![r] = [purchase |-> p, status |-> StatusOf(p, After(r))]]
  /\ todo' = [todo EXCEPT ![r] = @ \ {p}]
  /\ UNCHANGED <<begun, tables, lock, pc, doc, form, seen, written, blind, outrun, stale,
                 staleStop, mixed>>

(* UPDATE purchases SET delivery_status waits for whoever holds the row.   *)
WriteStatus(r) ==
  LET p == computed[r].purchase
  IN /\ pc[r] = "status"
     /\ computed[r] # None
     /\ lock[p] = None
     /\ written' = [written EXCEPT ![r][p] = computed[r].status]
     /\ lock' = IF Live(p) THEN [lock EXCEPT ![p] = r] ELSE lock
     /\ computed' = [computed EXCEPT ![r] = None]
     /\ outrun' = [outrun EXCEPT ![r] = @ \ todo[r]]
     /\ UNCHANGED <<begun, tables, pc, doc, form, seen, todo, blind, stale, staleStop, mixed>>

PurchasesTouched(r) == {p \in Purchases : Touches(r) \intersect LinesOf(p) # {}}

Commit(r) ==
  LET done == {p \in Purchases : written[r][p] # None}
  IN /\ pc[r] = "status"
     /\ todo[r] = {} /\ computed[r] = None
     /\ receipts' = After(r)
     /\ status' = [p \in Purchases |->
          IF p \in done /\ Live(p) THEN written[r][p] ELSE status[p]]
     /\ stale' = [p \in Purchases |->
          IF p \in done THEN p \in outrun[r]
          ELSE stale[p] \/ p \in PurchasesTouched(r) \intersect outrun[r]]
     /\ lock' = [p \in Purchases |-> IF lock[p] = r THEN None ELSE lock[p]]
     /\ End(r, PurchasesTouched(r))
     /\ mixed' = mixed \union {s \in doc[r] : blind[r] /\ receipts[s].lines # NoLines}
     /\ UNCHANGED <<begun, purchases, isStopped, items, used, staleStop>>

-----------------------------------------------------------------------------
(* Every request that came has been answered. *)
Finished ==
  /\ \A r \in Requests : ~Running(r)
  /\ UNCHANGED vars

Next ==
  \/ \E r \in Requests :
       \/ \E p \in Purchases :
            \/ \E v \in Vendors :
                 \/ \E lines \in NewForms : CreatePurchase(r, p, v, lines)
                 \/ \E lines \in EditForms : BeginUpdatePurchase(r, p, v, lines)
            \/ DeletePurchase(r, p)
            \/ UpdatePurchase(r, p)
            \/ \E products \in (SUBSET Products \ {{}}) \union {None} : BeginStop(r, p, products)
            \/ StopLines(r, p)
            \/ FinishStop(r, p)
            \/ Compute(r, p)
       \/ \E batch \in SUBSET Receipts \ {{}} : BeginCreate(r, batch)
       \/ \E s \in Receipts : BeginUpdateStock(r, s) \/ BeginDeleteStock(r, s)
       \/ FindNoLines(r)
       \/ WriteReceipts(r)
       \/ WriteStatus(r)
       \/ Commit(r)
       \/ Fail(r)
  \/ Finished

Spec == Init /\ [][Next]_vars

-----------------------------------------------------------------------------
(* Properties *)

(* Type correctness: a purchase line belongs to a purchase, a receipt      *)
(* delivers quantities of purchase lines that exist, and a row lock is     *)
(* held by a transaction that writes statuses.                             *)
TypeOK ==
  /\ purchases \in [Purchases -> Purchase \union {None}]
  /\ status \in [Purchases -> 0 .. 2]
  /\ isStopped \in [Purchases -> BOOLEAN]
  /\ items \in [Items -> Item \union {None}]
  /\ used \in 0 .. MaxItems
  /\ receipts \in [Receipts -> Receipt \union {None}]
  /\ \A s \in Receipts, i \in Items : ReceiptIn(receipts, s).lines[i] > 0 => items[i] # None
  /\ lock \in [Purchases -> Requests \union {None}]
  /\ \A p \in Purchases : lock[p] # None => pc[lock[p]] = "status"
  /\ begun \in 0 .. MaxRequests
  /\ pc \in [Requests -> {"idle", "rewrite", "stop", "stopped", "write", "status"}]
  /\ doc \in [Requests -> SUBSET (Purchases \union Receipts)]
  /\ DOMAIN form = Requests /\ \A r \in Requests : form[r] \in Form(doc[r]) \union {None}
  /\ computed \in [Requests -> Computed \union {None}]
  /\ written \in [Requests -> [Purchases -> (0 .. 2) \union {None}]]
  /\ seen \in [Requests -> SUBSET Items]
  /\ todo \in [Requests -> SUBSET Purchases]
  /\ outrun \in [Requests -> SUBSET Purchases]
  /\ blind \in [Requests -> BOOLEAN]
  /\ stale \in [Purchases -> BOOLEAN] /\ staleStop \in [Purchases -> BOOLEAN]
  /\ mixed \subseteq Receipts

(* The status of a purchase says what has been received of it, unless the  *)
(* last request to change or compute it was outrun: another one committed  *)
(* to the same purchase after it had read the lines.                       *)
StatusUnlessOutrun ==
  \A p \in Purchases : Live(p) /\ ~stale[p] => status[p] = StatusOf(p, receipts)

(* A purchase is marked stopped when no line is left that is not, whoever  *)
(* marked it (StopItems and UpdatePurchase), unless another request        *)
(* committed to the purchase while the lines left were counted.            *)
StoppedUnlessOutrun ==
  \A p \in Purchases : Live(p) /\ ~staleStop[p] => (isStopped[p] <=> Active(p) = {})

(* What the vendor still owes of a product is offered to the form of a     *)
(* receipt, however the statuses came about: the filter on the status      *)
(* hides nothing that is outstanding.                                      *)
OutstandingIsOffered ==
  \A v \in Vendors, product \in Products :
    (\A p \in Purchases : ~stale[p]) =>
      VendorOutstanding(v, product)
        = SumFunctionOnSet([i \in Items |-> Short(i)], {i \in Items : \E p \in Purchases :
             /\ Live(p) /\ purchases[p].vendor = v
             /\ i \in Active(p) /\ items[i].product = product})

(* A receipt delivers purchases of its own vendor: neither editor changes  *)
(* the vendor of a document that is linked.  Except a receipt without      *)
(* lines that two requests edited at once: it keeps the lines of both, and *)
(* the vendor of the last.                                                 *)
SameVendor ==
  \A s \in Receipts \ mixed, i \in Items :
    ReceiptIn(receipts, s).live /\ receipts[s].lines[i] > 0
      => purchases[items[i].purchase].vendor = receipts[s].vendor
=============================================================================
