--------------------------- MODULE OrderDelivery ---------------------------
(***************************************************************************)
(* Orders, the shipments that deliver them, and the delivery status an     *)
(* order keeps: 0 nothing delivered, 1 a part, 2 everything.               *)
(*                                                                         *)
(* Whoever changes an order or a shipment computes the status again and    *)
(* writes it with an UPDATE that locks the order until the commit.  The    *)
(* editor of an order replaces its lines, and links the shipment lines to  *)
(* the new ones; lines that have been stopped stay.                        *)
(*                                                                         *)
(* UpdateOrder, StopOrder and StopOrderItems lock the order before they    *)
(* compute: from its first write on each is one action.  Shipments compute *)
(* first: one action per computation and per UPDATE of a status.  A line   *)
(* has one size.  Stock and amounts are in other modules.                  *)
(***************************************************************************)
EXTENDS Integers, FiniteSetsExt, SequencesExt

CONSTANTS
  Orders, Shipments,  \* ids
  Requests,           \* each handles one request
  Products,
  MaxItems,           \* bound: order lines ever created
  MaxRequests,        \* bound: requests ever begun
  NewForms,           \* the lines of a new order
  EditForms,          \* the lines its editor may send
  Quantities,         \* what a shipment may deliver of a line
  None

Items == 1 .. MaxItems

(* A line may come cleared (cancel_flag).                                  *)
FormLine == [product : Products, qty : Nat, stopped : BOOLEAN]

Item == [order : Orders, product : Products, qty : Nat, stopped : BOOLEAN]

(* lines: what is delivered of each order line, 0 if nothing is linked.    *)
Lines == [Items -> Nat]

Shipment == [lines : Lines, live : BOOLEAN]

ASSUME FormsAssumption == NewForms \union EditForms \subseteq Seq(FormLine)

ASSUME BoundsAssumption ==
  Quantities \subseteq Nat /\ MaxItems \in Nat /\ MaxRequests \in Nat /\ IsFiniteSet(Shipments)

Computed == [order : Orders, status : 0 .. 2]

ASSUME NoneAssumption ==
  None \notin Item \union Shipment \union Lines \union Requests \union Orders
              \union Shipments \union Computed \union {0, 1, 2, "live", "deleted"}

VARIABLES
  orders,     \* None, "live" or "deleted"
  status,     \* orders.delivery_status
  items,      \* order_items with their size; None for no row
  begun,      \* requests that have come
  used,       \* ids of order_items given out
  shipments,  \* shipments and shipment_items
  edition,    \* how often the lines of a shipment have been replaced
  lock,       \* the transaction that holds the row lock of an order
  pc,         \* how far a request has come
  doc,        \* the order or the shipment it works on
  form,       \* the lines it was sent; None to delete
  seen,       \* what it has read
  todo,       \* orders whose status it has yet to compute
  computed,   \* the status it is about to write: [order, status]
  written,    \* the statuses it has written and not committed
  outrun,     \* history: orders others have changed since it looked
  stale       \* history: orders whose last computation was outrun

tables == <<orders, status, items, used, shipments, edition>>
private == <<form, seen, todo, computed, written>>
vars == <<tables, begun, lock, pc, doc, private, outrun, stale>>

NoLines == [i \in Items |-> 0]

Unwritten == [o \in Orders |-> None]

(* What a request may have read.                                           *)
Reading ==
  [stopped : SUBSET Products, rows : [Items -> Item \union {None}], lines : Lines,
   orders : SUBSET Orders, links : [Shipments -> Lines], edition : [Shipments -> Nat]]

Nothing ==
  [stopped |-> {}, rows |-> [i \in Items |-> None], lines |-> NoLines, orders |-> {},
   links |-> [s \in Shipments |-> NoLines], edition |-> [s \in Shipments |-> 0]]

-----------------------------------------------------------------------------
(* The status *)

LinesOf(o) == {i \in Items : items[i] # None /\ items[i].order = o}

Active(o) == {i \in LinesOf(o) : ~items[i].stopped}

LinesIn(ships, s) == IF ships[s] = None THEN NoLines ELSE ships[s].lines

(* ShippedQtyMap: a return counts like a shipment.                         *)
Shipped(ships, i) ==
  SumFunctionOnSet([s \in Shipments |->
                      IF ships[s] # None /\ ships[s].live THEN ships[s].lines[i] ELSE 0],
                   Shipments)

(* UpdateOrderDeliveryStatus.                                              *)
StatusOf(o, ships) ==
  LET wanted == {i \in Active(o) : items[i].qty > 0}
      any == \E i \in wanted : Shipped(ships, i) > 0
      all == \A i \in wanted : Shipped(ships, i) >= items[i].qty
  IN CASE Active(o) = {} \/ (all /\ any) -> 2
       [] any /\ ~all -> 1
       [] OTHER -> 0

-----------------------------------------------------------------------------
(* Requests *)

Init ==
  /\ orders = [o \in Orders |-> None]
  /\ status = [o \in Orders |-> 0]
  /\ items = [i \in Items |-> None]
  /\ begun = 0
  /\ used = 0
  /\ shipments = [s \in Shipments |-> None]
  /\ edition = [s \in Shipments |-> 0]
  /\ lock = [o \in Orders |-> None]
  /\ pc = [r \in Requests |-> "idle"]
  /\ doc = [r \in Requests |-> None]
  /\ form = [r \in Requests |-> None]
  /\ seen = [r \in Requests |-> Nothing]
  /\ todo = [r \in Requests |-> {}]
  /\ computed = [r \in Requests |-> None]
  /\ written = [r \in Requests |-> Unwritten]
  /\ outrun = [r \in Requests |-> {}]
  /\ stale = [o \in Orders |-> FALSE]

Goto(r, label) == pc' = [pc EXCEPT ![r] = label]

Arrive(r) ==
  /\ pc[r] = "idle"
  /\ begun < MaxRequests
  /\ begun' = begun + 1

Begin(r, d, f, read, label) ==
  /\ Arrive(r)
  /\ doc' = [doc EXCEPT ![r] = d]
  /\ form' = [form EXCEPT ![r] = f]
  /\ seen' = [seen EXCEPT ![r] = read]
  /\ outrun' = [outrun EXCEPT ![r] = {}]
  /\ Goto(r, label)
  /\ UNCHANGED <<tables, lock, todo, computed, written, stale>>

Running(r) == pc[r] # "idle"

(* The request ends, and the others' reads of these orders are outdated.   *)
End(r, changed) ==
  /\ Goto(r, "idle")
  /\ doc' = [doc EXCEPT ![r] = None]
  /\ form' = [form EXCEPT ![r] = None]
  /\ seen' = [seen EXCEPT ![r] = Nothing]
  /\ todo' = [todo EXCEPT ![r] = {}]
  /\ computed' = [computed EXCEPT ![r] = None]
  /\ written' = [written EXCEPT ![r] = Unwritten]
  /\ outrun' = [q \in Requests |->
       IF q # r /\ Running(q) THEN outrun[q] \union changed ELSE {}]

(* An error reply, a lost connection, the victim of a deadlock.            *)
Fail(r) ==
  /\ Running(r)
  /\ lock' = [o \in Orders |-> IF lock[o] = r THEN None ELSE lock[o]]
  /\ End(r, {})
  /\ UNCHANGED <<begun, tables, stale>>

(* An order that is not deleted gets the status; it was free to be locked. *)
SetStatus(o, value) ==
  /\ orders[o] = "live" => lock[o] = None
  /\ status' = IF orders[o] = "live" THEN [status EXCEPT ![o] = value] ELSE status
  /\ stale' = [stale EXCEPT ![o] = FALSE]

-----------------------------------------------------------------------------
(* Orders *)

NewItems(o, lines) ==
  [i \in Items |->
     IF i - used \in DOMAIN lines
     THEN [order |-> o, product |-> lines[i - used].product,
           qty |-> lines[i - used].qty, stopped |-> lines[i - used].stopped]
     ELSE items[i]]

(* CreateOrder leaves the status at its default.                           *)
CreateOrder(r, o, lines) ==
  /\ Arrive(r)
  /\ orders[o] = None
  /\ used + Len(lines) <= MaxItems
  /\ orders' = [orders EXCEPT ![o] = "live"]
  /\ items' = NewItems(o, lines)
  /\ used' = used + Len(lines)
  /\ End(r, {})
  /\ UNCHANGED <<status, shipments, edition, lock, stale>>

DeleteOrder(r, o) ==
  /\ Arrive(r)
  /\ orders[o] = "live"
  /\ lock[o] = None
  /\ orders' = [orders EXCEPT ![o] = "deleted"]
  /\ End(r, {})
  /\ UNCHANGED <<status, items, used, shipments, edition, lock, stale>>

(* UpdateOrder: stoppedProductIDs, read before the transaction.            *)
BeginUpdateOrder(r, o, lines) ==
  /\ orders[o] = "live"
  /\ LET stopped == {items[i].product : i \in LinesOf(o) \ Active(o)}
     IN Begin(r, o, lines, [Nothing EXCEPT !.stopped = stopped], "load")

(* UpdateOrder: activeItems and shipmentItemLinks.                         *)
LoadOrder(r) ==
  LET active == Active(doc[r])
  IN /\ pc[r] = "load"
     /\ seen' = [seen EXCEPT
          ![r].rows = [i \in Items |-> IF i \in active THEN items[i] ELSE None],
          ![r].links = [s \in Shipments |->
             [i \in Items |-> IF i \in active THEN LinesIn(shipments, s)[i] ELSE 0]],
          ![r].edition = edition]
     /\ Goto(r, "rewrite")
     /\ UNCHANGED <<begun, tables, lock, doc, form, todo, computed, written, outrun, stale>>

(* The order lines a shipment's transaction links or unlinks.              *)
Touches(q) ==
  {i \in Items : /\ pc[q] = "status"
                 /\ \/ LinesIn(shipments, doc[q])[i] > 0
                    \/ form[q] # None /\ form[q][i] > 0}

(* It has deleted the rows of the old lines, or refers to an order line    *)
(* that r is about to delete: r waits.  DeleteShipment touches no line.    *)
Obstructs(q, r) ==
  /\ pc[q] = "status" /\ form[q] # None
  /\ \E i \in Items :
       \/ seen[r].links[doc[q]][i] > 0
       \/ seen[r].rows[i] # None /\ i \in Touches(q)

(* Mutation of Relinked: links are not taken from the old lines.           *)
LinksLeft(r, s, kept) == LinesIn(shipments, s)

(* Mutation of Relinked: the links are left null.                          *)
Unlinked(r, s, kept) ==
  [i \in Items |-> IF seen[r].rows[i] # None THEN 0 ELSE LinesIn(shipments, s)[i]]

(* The lines of shipment s.  Links to the lines that were active become    *)
(* null.  Those that were read and have not been replaced since are moved  *)
(* to the last new line of the same product.                               *)
Relinked(r, s, kept) ==
  LET last(p) == used + Max({k \in DOMAIN kept : kept[k].product = p})
      isLast(i) == i - used \in DOMAIN kept /\ i = last(kept[i - used].product)
      moved(i) ==
        SumFunctionOnSet(seen[r].links[s],
          {j \in Items : /\ seen[r].rows[j] # None
                         /\ seen[r].rows[j].product = kept[i - used].product
                         /\ seen[r].edition[s] = edition[s]})
  IN [i \in Items |->
        IF isLast(i) THEN moved(i)
        ELSE IF seen[r].rows[i] # None THEN 0
        ELSE LinesIn(shipments, s)[i]]

(* The lines of a form but those of a product that was stopped.            *)
Kept(lines, stopped) ==
  LET kept[n \in 0 .. Len(lines)] ==
        IF n = 0 THEN <<>>
        ELSE IF lines[n].product \in stopped THEN kept[n - 1]
        ELSE Append(kept[n - 1], lines[n])
  IN kept[Len(lines)]

(* UpdateOrder from its first write on.  A line that was stopped since     *)
(* LoadOrder is not deleted, but has lost its size.  A line that was       *)
(* created since has a size, whose foreign key makes the DELETE fail.      *)
RewriteOrder(r, o) ==
  LET rows == seen[r].rows
      kept == Kept(form[r], seen[r].stopped)
      cleared ==
        [i \in Items |->
           CASE i \in Active(o) -> None
             [] i \in LinesOf(o) \ Active(o) /\ rows[i] # None -> [items[i] EXCEPT !.qty = 0]
             [] OTHER -> NewItems(o, kept)[i]]
  IN /\ pc[r] = "rewrite"
     /\ doc[r] = o
     /\ \A i \in Active(o) : rows[i] # None
     /\ \A q \in Requests : ~Obstructs(q, r)
     /\ used + Len(kept) <= MaxItems
     /\ items' = cleared
     /\ used' = used + Len(kept)
     /\ shipments' = [s \in Shipments |->
          IF shipments[s] = None THEN None
          ELSE [shipments[s] EXCEPT !.lines = Relinked(r, s, kept)]]
     /\ SetStatus(o, StatusOf(o, shipments)')
     /\ End(r, {o})
     /\ UNCHANGED <<begun, orders, edition, lock>>

(* StopOrder, and StopOrderItems for some products: the rows its UPDATE    *)
(* finds when it starts.                                                   *)
BeginStop(r, o, products) ==
  /\ orders[o] = "live"
  /\ LET rows == [i \in Items |->
           IF i \in Active(o) /\ items[i].product \in products THEN items[i] ELSE None]
     IN Begin(r, o, None, [Nothing EXCEPT !.rows = rows], "stop")

(* Of those it stops the ones that are still there.                        *)
Stop(r, o) ==
  LET stopped == {i \in Active(o) : seen[r].rows[i] # None}
  IN /\ pc[r] = "stop"
     /\ doc[r] = o
     /\ items' = [i \in Items |->
          IF i \in stopped THEN [items[i] EXCEPT !.stopped = TRUE] ELSE items[i]]
     /\ shipments' = shipments
     /\ SetStatus(o, StatusOf(o, shipments)')
     /\ End(r, {o})
     /\ UNCHANGED <<begun, orders, used, edition, lock>>

-----------------------------------------------------------------------------
(* Shipments *)

(* Lines a user may link: SearchOrderItems lists the active lines of       *)
(* orders that are not complete; the editor has its old lines as well.     *)
Linkable(s) ==
  {i \in Items : \/ LinesIn(shipments, s)[i] > 0
                 \/ \E o \in Orders :
                      orders[o] = "live" /\ status[o] < 2 /\ i \in Active(o)}

Deliveries(s) ==
  {[i \in Items |-> IF i \in DOMAIN f THEN f[i] ELSE 0] :
     f \in UNION {[linked -> Quantities] : linked \in SUBSET Linkable(s)}}

BeginCreateShipment(r, s) ==
  /\ pc[r] = "idle"
  /\ shipments[s] = None
  /\ \A q \in Requests : doc[q] # s
  /\ \E lines \in Deliveries(s) : Begin(r, s, lines, Nothing, "ship")

(* UpdateShipment and DeleteShipment read the old lines before the         *)
(* transaction ...                                                         *)
BeginChangeShipment(r, s) ==
  /\ pc[r] = "idle"
  /\ shipments[s] # None /\ shipments[s].live
  /\ \E lines \in Deliveries(s) \union {None} :
       Begin(r, s, lines,
             [Nothing EXCEPT !.lines = shipments[s].lines, !.edition = edition], "look_up")

(* Mutation of LookUpOrders: only the orders of the new lines count.       *)
LookUpNone(r) ==
  /\ pc[r] = "look_up"
  /\ Goto(r, "ship")
  /\ UNCHANGED <<begun, tables, lock, doc, private, outrun, stale>>

(* ... and look up their orders: oldOrderIDSet.                            *)
LookUpOrders(r) ==
  /\ pc[r] = "look_up"
  /\ seen' = [seen EXCEPT ![r].orders =
       {items[i].order : i \in {j \in Items : seen[r].lines[j] > 0 /\ items[j] # None}}]
  /\ Goto(r, "ship")
  /\ UNCHANGED <<begun, tables, lock, doc, form, todo, computed, written, outrun, stale>>

(* Old lines that a DELETE does not see: another request replaced them     *)
(* after it had started.                                                   *)
LeftOver(r, s) ==
  {NoLines} \union
  (IF shipments[s] = None \/ edition[s] = seen[r].edition[s]
   THEN {} ELSE {shipments[s].lines})

(* The transaction, up to the status: the lines are replaced, which locks  *)
(* the shipment.  Every order line must still exist.                       *)
WriteLines(r) ==
  LET s == doc[r]
      linked == {i \in Items : form[r] # None /\ form[r][i] > 0}
  IN /\ pc[r] = "ship"
     /\ \A q \in Requests : ~(pc[q] = "status" /\ doc[q] = s)
     /\ \A i \in linked : items[i] # None
     /\ \E old \in LeftOver(r, s) :
          form' = IF form[r] = None THEN form
                  ELSE [form EXCEPT ![r] = [i \in Items |-> form[r][i] + old[i]]]
     /\ todo' = [todo EXCEPT ![r] = seen[r].orders \union {items[i].order : i \in linked}]
     /\ outrun' = [outrun EXCEPT ![r] = @ \ todo'[r]]
     /\ Goto(r, "status")
     /\ UNCHANGED <<begun, tables, lock, doc, seen, computed, written, stale>>

(* The shipments as r leaves them.                                         *)
After(r) ==
  LET s == doc[r]
  IN CASE form[r] = None -> [shipments EXCEPT ![s].live = FALSE]
       [] form[r] # None /\ shipments[s] = None ->
            [shipments EXCEPT ![s] = [lines |-> form[r], live |-> TRUE]]
       [] OTHER -> [shipments EXCEPT ![s].lines = form[r]]

(* The orders come from a Go map, in any order.                            *)
Compute(r, o) ==
  /\ pc[r] = "status"
  /\ computed[r] = None
  /\ o \in todo[r]
  /\ computed' = [computed EXCEPT ![r] = [order |-> o, status |-> StatusOf(o, After(r))]]
  /\ todo' = [todo EXCEPT ![r] = @ \ {o}]
  /\ UNCHANGED <<begun, tables, lock, pc, doc, form, seen, written, outrun, stale>>

(* UPDATE orders SET delivery_status waits for whoever holds the order.    *)
WriteStatus(r) ==
  LET o == computed[r].order
  IN /\ pc[r] = "status"
     /\ computed[r] # None
     /\ lock[o] = None
     /\ written' = [written EXCEPT ![r][o] = computed[r].status]
     /\ lock' = IF orders[o] = "live" THEN [lock EXCEPT ![o] = r] ELSE lock
     /\ computed' = [computed EXCEPT ![r] = None]
     /\ outrun' = [outrun EXCEPT ![r] = @ \ todo[r]]
     /\ UNCHANGED <<begun, tables, pc, doc, form, seen, todo, stale>>

(* The orders whose deliveries r changes.                                  *)
OrdersTouched(r) == {o \in Orders : Touches(r) \intersect LinesOf(o) # {}}

Commit(r) ==
  LET s == doc[r]
      done == {o \in Orders : written[r][o] # None}
  IN /\ pc[r] = "status"
     /\ todo[r] = {} /\ computed[r] = None
     /\ shipments' = After(r)
     /\ edition' = IF form[r] = None THEN edition ELSE [edition EXCEPT ![s] = @ + 1]
     /\ status' = [o \in Orders |->
          IF o \in done /\ orders[o] = "live" THEN written[r][o] ELSE status[o]]
     /\ stale' = [o \in Orders |->
          IF o \in done THEN o \in outrun[r]
          ELSE stale[o] \/ o \in OrdersTouched(r) \intersect outrun[r]]
     /\ lock' = [o \in Orders |-> IF lock[o] = r THEN None ELSE lock[o]]
     /\ End(r, OrdersTouched(r))
     /\ UNCHANGED <<begun, orders, items, used>>

-----------------------------------------------------------------------------
(* Every request that came has been answered. *)
Finished ==
  /\ \A r \in Requests : ~Running(r)
  /\ UNCHANGED vars

Next ==
  \/ \E r \in Requests :
       \/ \E o \in Orders :
            \/ \E lines \in NewForms : CreateOrder(r, o, lines)
            \/ \E lines \in EditForms : BeginUpdateOrder(r, o, lines)
            \/ DeleteOrder(r, o)
            \/ \E products \in SUBSET Products \ {{}} : BeginStop(r, o, products)
            \/ RewriteOrder(r, o)
            \/ Stop(r, o)
            \/ Compute(r, o)
       \/ LoadOrder(r)
       \/ \E s \in Shipments : BeginCreateShipment(r, s) \/ BeginChangeShipment(r, s)
       \/ LookUpOrders(r)
       \/ WriteLines(r)
       \/ WriteStatus(r)
       \/ Commit(r)
       \/ Fail(r)
  \/ Finished

Spec == Init /\ [][Next]_vars

-----------------------------------------------------------------------------
(* Properties *)

(* Type correctness: an order line belongs to an order, a shipment         *)
(* delivers quantities of order lines that exist, and a row lock is held   *)
(* by a running transaction.                                               *)
TypeOK ==
  /\ orders \in [Orders -> {None, "live", "deleted"}]
  /\ status \in [Orders -> 0 .. 2]
  /\ items \in [Items -> Item \union {None}]
  /\ used \in 0 .. MaxItems
  /\ shipments \in [Shipments -> Shipment \union {None}]
  /\ \A s \in Shipments, i \in Items : LinesIn(shipments, s)[i] > 0 => items[i] # None
  /\ edition \in [Shipments -> Nat]
  /\ lock \in [Orders -> Requests \union {None}]
  /\ \A o \in Orders : lock[o] # None => pc[lock[o]] = "status"
  /\ begun \in 0 .. MaxRequests
  /\ pc \in [Requests -> {"idle", "load", "rewrite", "stop", "look_up", "ship", "status"}]
  /\ doc \in [Requests -> Orders \union Shipments \union {None}]
  /\ form \in [Requests -> EditForms \union Lines \union {None}]
  /\ seen \in [Requests -> Reading]
  /\ computed \in [Requests -> Computed \union {None}]
  /\ written \in [Requests -> [Orders -> (0 .. 2) \union {None}]]
  /\ todo \in [Requests -> SUBSET Orders]
  /\ outrun \in [Requests -> SUBSET Orders]
  /\ stale \in [Orders -> BOOLEAN]

(* The status of an order says what has been delivered of it, unless the   *)
(* last request to change or compute it was outrun: another one committed  *)
(* to the same order after it had read the lines.                          *)
StatusUnlessOutrun ==
  \A o \in Orders : orders[o] = "live" /\ ~stale[o] => status[o] = StatusOf(o, shipments)

(* What the shipments have delivered of product p in order o.              *)
Delivered(o, p) ==
  SumFunctionOnSet([i \in Items |-> Shipped(shipments, i)],
                   {i \in LinesOf(o) : items[i].product = p})

InOrder(o, p) == \E i \in Active(o) : items[i].product = p

(* UpdateOrder replaces the lines of an order, but not what has been       *)
(* delivered of a product that stays in it, nor any line that is stopped   *)
(* (its comments: stopped lines are protected, shipment lines are linked   *)
(* to the new ones), unless others change the order while it works.        *)
EditKeepsDeliveries ==
  [][\A r \in Requests, o \in Orders :
       /\ doc[r] = o /\ o \notin outrun[r]
       /\ pc[r] = "rewrite" /\ pc'[r] = "idle" /\ used' # used
       => /\ \A p \in Products :
               InOrder(o, p) /\ InOrder(o, p)' => Delivered(o, p)' = Delivered(o, p)
          /\ \A i \in LinesOf(o) \ Active(o) :
               /\ items'[i] = items[i]
               /\ Shipped(shipments, i)' = Shipped(shipments, i)]_vars
=============================================================================
