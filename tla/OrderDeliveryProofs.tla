------------------------ MODULE OrderDeliveryProofs ------------------------
(***************************************************************************)
(* Theorems about OrderDelivery, for every set of orders, shipments and    *)
(* requests, every form and every bound.                                   *)
(***************************************************************************)
EXTENDS OrderDelivery, SumTheorems

(***************************************************************************)
(* The lines an editor keeps.                                              *)
(***************************************************************************)

(* One round of the loop of Kept, and a run of it up to line m.            *)
Round(g, n, lines, stopped) ==
  IF n = 0 THEN <<>>
  ELSE IF lines[n].product \in stopped THEN g[n - 1]
  ELSE Append(g[n - 1], lines[n])

Run(g, m, lines, stopped) == g = [n \in 0 .. m |-> Round(g, n, lines, stopped)]

LEMMA LeastNatural ==
  ASSUME NEW B \in SUBSET Nat, B # {}
  PROVE  \E n \in B : \A k \in B : n <= k
  <1>1. PICK n \in B : \A k \in B : <<k, n>> \notin OpToRel(<, Nat)
    BY NatLessThanWellFounded, WFMin
  <1>2. \A k \in B : ~(k < n)
    BY <1>1 DEF OpToRel
  <1> QED
    BY <1>2

LEMMA RunType ==
  ASSUME NEW stopped, NEW lines \in Seq(FormLine), NEW m \in 0 .. Len(lines), NEW g,
         Run(g, m, lines, stopped)
  PROVE  \A n \in 0 .. m : g[n] \in Seq(FormLine)
  <1> DEFINE B == {n \in 0 .. m : g[n] \notin Seq(FormLine)}
  <1> SUFFICES ASSUME B # {} PROVE FALSE
    OBVIOUS
  <1>1. Len(lines) \in Nat /\ m \in Nat /\ m <= Len(lines)
    OBVIOUS
  <1>2. PICK n \in B : \A k \in B : n <= k
    <2>1. B \in SUBSET Nat
      BY <1>1
    <2> HIDE DEF B
    <2> QED
      BY <2>1, LeastNatural
  <1>3. g[n] = Round(g, n, lines, stopped)
    BY <1>2 DEF Run
  <1>4. n # 0
    <2>1. <<>> \in Seq(FormLine)
      OBVIOUS
    <2> QED
      BY <1>2, <1>3, <2>1 DEF Round
  <1>5. n \in 1 .. Len(lines) /\ n - 1 \in 0 .. m /\ ~(n <= n - 1)
    BY <1>1, <1>2, <1>4
  <1>6. g[n - 1] \in Seq(FormLine)
    BY <1>2, <1>5
  <1>7. lines[n] \in FormLine
    BY <1>5
  <1>8. g[n] \notin Seq(FormLine)
    BY <1>2
  <1> HIDE DEF B
  <1> QED
    BY <1>3, <1>4, <1>6, <1>7, <1>8 DEF Round

LEMMA RunExists ==
  ASSUME NEW stopped, NEW lines \in Seq(FormLine)
  PROVE  \E g : Run(g, Len(lines), lines, stopped)
  <1> DEFINE B == {m \in 0 .. Len(lines) : ~\E g : Run(g, m, lines, stopped)}
  <1> SUFFICES ASSUME Len(lines) \in B PROVE FALSE
    OBVIOUS
  <1>1. Len(lines) \in Nat
    OBVIOUS
  <1>2. PICK m \in B : \A k \in B : m <= k
    <2>1. B \in SUBSET Nat
      BY <1>1
    <2> HIDE DEF B
    <2> QED
      BY <2>1, LeastNatural
  <1>3. m # 0
    <2>1. Run([n \in 0 .. 0 |-> <<>>], 0, lines, stopped)
      BY DEF Run, Round
    <2> QED
      BY <1>2, <2>1
  <1>4. m \in Nat /\ m - 1 \in 0 .. Len(lines) /\ ~(m <= m - 1)
    BY <1>1, <1>2, <1>3
  <1>5. PICK g : Run(g, m - 1, lines, stopped)
    BY <1>2, <1>4
  <1> DEFINE h == [n \in 0 .. m |-> IF n = m THEN Round(g, m, lines, stopped) ELSE g[n]]
  <1>6. \A n \in 0 .. m : h[n] = Round(h, n, lines, stopped)
    <2> SUFFICES ASSUME NEW n \in 0 .. m PROVE h[n] = Round(h, n, lines, stopped)
      OBVIOUS
    <2>1. n # 0 => h[n - 1] = g[n - 1]
      BY <1>4
    <2>2. n # m => n \in 0 .. m - 1
      BY <1>4
    <2>3. n # m => g[n] = Round(g, n, lines, stopped)
      BY <1>5, <2>2 DEF Run
    <2>4. h[n] = Round(g, n, lines, stopped)
      BY <2>3
    <2> HIDE DEF h
    <2> QED
      BY <2>1, <2>4 DEF Round
  <1>7. Run(h, m, lines, stopped)
    BY <1>6 DEF Run
  <1> QED
    BY <1>2, <1>7

LEMMA KeptType ==
  ASSUME NEW stopped, NEW lines \in Seq(FormLine)
  PROVE  Kept(lines, stopped) \in Seq(FormLine)
  <1> DEFINE g == CHOOSE g : Run(g, Len(lines), lines, stopped)
  <1>1. Run(g, Len(lines), lines, stopped)
    BY RunExists
  <1>2. Kept(lines, stopped) = g[Len(lines)]
    BY DEF Kept, Run, Round
  <1>3. Len(lines) \in 0 .. Len(lines)
    OBVIOUS
  <1> HIDE DEF g
  <1> QED
    BY <1>1, <1>2, <1>3, RunType

(***************************************************************************)
(* The inductive invariant: what holds of the tables, and of each request. *)
(***************************************************************************)

(* A line has an id that was given out, of an order that was created.      *)
KnownLines ==
  \A i \in Items : items[i] # None => i <= used /\ orders[items[i].order] # None

(* An order that is not created has the default.                           *)
Defaults == \A o \in Orders : orders[o] = None => status[o] = 0

(* A new order has a line that is not cleared: CreateOrder does not compute *)
(* the status, and leaves the default 0 where an order without an active   *)
(* line has 2.                                                             *)
NewFormsActive == \A lines \in NewForms : \E k \in DOMAIN lines : ~lines[k].stopped

StatusRight == NewFormsActive => StatusUnlessOutrun

TablesInv == TypeOK /\ KnownLines /\ Defaults /\ StatusRight

Shipping(r) == pc[r] \in {"look_up", "ship", "status"}

(* The order lines shipment s has, and those r is to give it; those of the *)
(* shipment it has read, and those of the order.                           *)
Has(s) == {i \in Items : LinesIn(shipments, s)[i] > 0}
Gets(r) == {i \in Items : form[r] # None /\ form[r][i] > 0}
Lined(r) == {i \in Items : seen[r].lines[i] > 0}
Rows(r) == {i \in Items : seen[r].rows[i] # None}

Private(r) ==
  /\ pc[r] # "status" => computed[r] = None /\ written[r] = Unwritten
  /\ pc[r] \in {"load", "rewrite", "stop"} => doc[r] \in Orders /\ orders[doc[r]] # None
  /\ pc[r] \in {"load", "rewrite"} => form[r] \in EditForms
  /\ Shipping(r) =>
       /\ doc[r] \in Shipments
       /\ form[r] \in Lines \union {None}
       /\ form[r] = None => shipments[doc[r]] # None

(* The rows it has read were of its order; the lines it links were there.  *)
(* They cannot go any more once the transaction has checked them.          *)
RowsKnown(r) ==
  /\ pc[r] \in {"rewrite", "stop"} =>
       \A i \in Rows(r) : i <= used /\ (items[i] # None => items[i].order = doc[r])
  /\ Shipping(r) => \A i \in Gets(r) : i <= used /\ (pc[r] = "status" => items[i] # None)
  /\ pc[r] = "look_up" => \A i \in Lined(r) : i <= used

(* No order of its shipment is overlooked: neither when the old lines are  *)
(* read, nor when their orders are looked up, nor when the statuses are    *)
(* computed, but for those it was outrun on.                               *)
Covers(r) ==
  /\ pc[r] = "look_up" =>
       \A i \in Has(doc[r]) : i \in Lined(r) \/ items[i].order \in outrun[r]
  /\ pc[r] = "ship" =>
       \A i \in Has(doc[r]) : items[i].order \in seen[r].orders \union outrun[r]
  /\ pc[r] = "status" =>
       \A o \in OrdersTouched(r) :
         \/ o \in todo[r] \union outrun[r]
         \/ computed[r] # None /\ computed[r].order = o
         \/ written[r][o] # None

(* The statuses it has computed are those it leaves, if nobody outran it.  *)
Right(r) ==
  pc[r] = "status" =>
    /\ computed[r] # None =>
         /\ computed[r].order \notin todo[r]
         /\ computed[r].order \notin outrun[r] =>
              computed[r].status = StatusOf(computed[r].order, After(r))
    /\ \A o \in Orders : written[r][o] # None =>
         /\ o \notin todo[r]
         /\ o \notin outrun[r] => written[r][o] = StatusOf(o, After(r))

(* Only orders that were created have a status to compute.                 *)
Created(r) ==
  /\ pc[r] = "ship" => \A o \in seen[r].orders : orders[o] # None
  /\ pc[r] = "status" =>
       /\ \A o \in todo[r] : orders[o] # None
       /\ computed[r] # None => orders[computed[r].order] # None
       /\ \A o \in Orders : written[r][o] # None => orders[o] # None

(* What an editor has read of its order is still there, if nobody outran   *)
(* it: a shipment that was changed since delivers nothing of the order.    *)
Fresh(r) ==
  pc[r] = "rewrite" /\ doc[r] \notin outrun[r] =>
    /\ \A i \in Items : seen[r].rows[i] = IF i \in Active(doc[r]) THEN items[i] ELSE None
    /\ \A s \in Shipments, i \in Items :
         seen[r].links[s][i] = IF i \in Active(doc[r]) THEN LinesIn(shipments, s)[i] ELSE 0
    /\ \A s \in Shipments :
         seen[r].edition[s] = edition[s] \/ \A i \in Items : seen[r].links[s][i] = 0

(* Two transactions never hold the same shipment.                          *)
Apart ==
  \A r, q \in Requests :
    r # q /\ pc[r] = "status" /\ pc[q] = "status" => doc[q] # doc[r]

RequestInv(r) ==
  Private(r) /\ RowsKnown(r) /\ Covers(r) /\ Right(r) /\ Created(r) /\ Fresh(r)

IInv == TablesInv /\ Apart /\ \A r \in Requests : RequestInv(r)

(***************************************************************************)
(* What a status depends on.                                               *)
(***************************************************************************)

(* What shipment s of ships counts for line i.                             *)
Part(ships, s, i) == IF ships[s] # None /\ ships[s].live THEN ships[s].lines[i] ELSE 0

(* The status of o if its lines are in its, and the shipments in ships.    *)
Status(its, o, ships) ==
  LET active == {i \in Items : its[i] # None /\ its[i].order = o /\ ~its[i].stopped}
      wanted == {i \in active : its[i].qty > 0}
      any == \E i \in wanted : Shipped(ships, i) > 0
      all == \A i \in wanted : Shipped(ships, i) >= its[i].qty
  IN CASE active = {} \/ (all /\ any) -> 2
       [] any /\ ~all -> 1
       [] OTHER -> 0

LEMMA StatusIs == \A o, ships : StatusOf(o, ships) = Status(items, o, ships)
  BY DEF StatusOf, Status, Active, LinesOf

LEMMA StatusType == \A its, o, ships : Status(its, o, ships) \in 0 .. 2
  <1> SUFFICES ASSUME NEW its, NEW o, NEW ships PROVE Status(its, o, ships) \in 0 .. 2
    OBVIOUS
  <1> DEFINE active == {i \in Items : its[i] # None /\ its[i].order = o /\ ~its[i].stopped}
             wanted == {i \in active : its[i].qty > 0}
             any == \E i \in wanted : Shipped(ships, i) > 0
             all == \A i \in wanted : Shipped(ships, i) >= its[i].qty
             value == CASE active = {} \/ (all /\ any) -> 2
                        [] any /\ ~all -> 1
                        [] OTHER -> 0
  <1>1. Status(its, o, ships) = value
    BY DEF Status
  <1> HIDE DEF any, all, active
  <1>2. value \in {0, 1, 2}
    OBVIOUS
  <1> HIDE DEF value
  <1> QED
    BY <1>1, <1>2

LEMMA ShippedSame ==
  ASSUME NEW i, NEW a, NEW b, \A s \in Shipments : Part(a, s, i) = Part(b, s, i)
  PROVE  Shipped(a, i) = Shipped(b, i)
  BY DEF Shipped, Part

LEMMA StatusSame ==
  ASSUME NEW o, NEW its1, NEW its2, NEW a, NEW b,
         \A i \in Items : (its1[i] # None /\ its1[i].order = o)
                          \/ (its2[i] # None /\ its2[i].order = o) => its1[i] = its2[i],
         \A i \in Items : its1[i] # None /\ its1[i].order = o =>
           \A s \in Shipments : Part(a, s, i) = Part(b, s, i)
  PROVE  Status(its1, o, a) = Status(its2, o, b)
  <1> DEFINE active == {i \in Items : its1[i] # None /\ its1[i].order = o /\ ~its1[i].stopped}
  <1>1. active = {i \in Items : its2[i] # None /\ its2[i].order = o /\ ~its2[i].stopped}
    OBVIOUS
  <1>2. \A i \in active : its1[i] = its2[i] /\ Shipped(a, i) = Shipped(b, i)
    BY ShippedSame
  <1>3. {i \in active : its1[i].qty > 0} = {i \in active : its2[i].qty > 0}
    BY <1>2
  <1> HIDE DEF active
  <1> QED
    BY <1>1, <1>2, <1>3 DEF Status, active

(* If a step leaves the lines of o alone, and the parts that the shipments *)
(* count for them, it leaves the status alone.                             *)
SameLines(o) == \A i \in Items : i \in LinesOf(o) \/ i \in LinesOf(o)' => items'[i] = items[i]

SameParts(o) ==
  \A i \in LinesOf(o) : \A s \in Shipments : Part(shipments, s, i) = Part(shipments', s, i)

(* It leaves what the shipments are linked to; those it replaced were not. *)
SameLinks(o) ==
  \A s \in Shipments :
    /\ \A i \in LinesOf(o) : LinesIn(shipments', s)[i] = LinesIn(shipments, s)[i]
    /\ edition'[s] = edition[s] \/ \A i \in LinesOf(o) : LinesIn(shipments, s)[i] = 0

LEMMA StatusKept ==
  ASSUME NEW o, SameLines(o), SameParts(o)
  PROVE  StatusOf(o, shipments)' = StatusOf(o, shipments)
  <1>1. StatusOf(o, shipments)' = Status(items', o, shipments')
    BY DEF StatusOf, Status, Active, LinesOf
  <1>2. Status(items, o, shipments) = Status(items', o, shipments')
    BY StatusSame DEF SameLines, SameParts, LinesOf
  <1> QED
    BY <1>1, <1>2, StatusIs

LEMMA StatusTypeNext == \A o : StatusOf(o, shipments)' \in 0 .. 2
  <1>1. \A o : StatusOf(o, shipments)' = Status(items', o, shipments')
    BY DEF StatusOf, Status, Active, LinesOf
  <1> QED
    BY <1>1, StatusType

(* The shipments a request leaves: f replaces the lines of s.              *)
Left(ships, f, s) ==
  CASE f = None -> [ships EXCEPT ![s].live = FALSE]
    [] f # None /\ ships[s] = None -> [ships EXCEPT ![s] = [lines |-> f, live |-> TRUE]]
    [] OTHER -> [ships EXCEPT ![s].lines = f]

LEMMA AfterIs ==
  ASSUME NEW r
  PROVE  /\ After(r) = Left(shipments, form[r], doc[r])
         /\ After(r)' = Left(shipments', form'[r], doc'[r])
  BY DEF After, Left

LEMMA LeftParts ==
  ASSUME NEW ships \in [Shipments -> Shipment \union {None}], NEW s \in Shipments,
         NEW f \in Lines \union {None}, f = None => ships[s] # None
  PROVE  /\ Left(ships, f, s) \in [Shipments -> Shipment \union {None}]
         /\ \A t \in Shipments \ {s} : Left(ships, f, s)[t] = ships[t]
         /\ Left(ships, f, s)[s] \in Shipment /\ Left(ships, f, s)[s] # None
         /\ f = None => ~Left(ships, f, s)[s].live /\ Left(ships, f, s)[s].lines = ships[s].lines
         /\ f # None => /\ Left(ships, f, s)[s].lines = f
                        /\ Left(ships, f, s)[s].live <=> ships[s] = None \/ ships[s].live
  <1> DEFINE row == IF f = None THEN [ships[s] EXCEPT !.live = FALSE]
                    ELSE IF ships[s] = None THEN [lines |-> f, live |-> TRUE]
                    ELSE [ships[s] EXCEPT !.lines = f]
  <1>1. Left(ships, f, s) = [ships EXCEPT ![s] = row]
    BY DEF Left
  <1>2. ships[s] # None => ships[s] \in Shipment
    OBVIOUS
  <1>3. CASE f = None
    <2>1. row = [ships[s] EXCEPT !.live = FALSE] /\ ships[s] \in Shipment
      BY <1>2, <1>3
    <2>2. row \in Shipment /\ ~row.live /\ row.lines = ships[s].lines
      BY <2>1 DEF Shipment
    <2> HIDE DEF row
    <2> QED
      BY <1>1, <1>3, <2>2, NoneAssumption
  <1>4. CASE f # None /\ ships[s] = None
    <2>1. row = [lines |-> f, live |-> TRUE]
      BY <1>4
    <2>2. row \in Shipment /\ row.live /\ row.lines = f
      BY <1>4, <2>1 DEF Shipment
    <2> HIDE DEF row
    <2> QED
      BY <1>1, <1>4, <2>2, NoneAssumption
  <1>5. CASE f # None /\ ships[s] # None
    <2>1. row = [ships[s] EXCEPT !.lines = f] /\ ships[s] \in Shipment
      BY <1>2, <1>5
    <2>2. row \in Shipment /\ row.live = ships[s].live /\ row.lines = f
      BY <1>5, <2>1 DEF Shipment
    <2> HIDE DEF row
    <2> QED
      BY <1>1, <1>5, <2>2, NoneAssumption
  <1> QED
    BY <1>3, <1>4, <1>5

(***************************************************************************)
(* A request that waits while another one takes a step.                    *)
(***************************************************************************)
Waits(q, changed) ==
  /\ pc'[q] = pc[q] /\ doc'[q] = doc[q] /\ form'[q] = form[q] /\ seen'[q] = seen[q]
  /\ todo'[q] = todo[q] /\ computed'[q] = computed[q] /\ written'[q] = written[q]
  /\ Running(q) => outrun'[q] = outrun[q] \union changed

(* What a step that changes these orders keeps of the lines.               *)
LinesStay(changed) ==
  /\ used' >= used
  /\ \A o \in Orders : orders[o] # None => orders'[o] # None
  /\ \A i \in Items : items[i] = None /\ items'[i] # None => i > used
  /\ \A i \in Items : items[i] # None /\ items'[i] # None => items'[i].order = items[i].order
  /\ \A o \in Orders \ changed : orders[o] # None => SameLines(o)

(* What it keeps of the shipments, and of the rows q has locked or read.   *)
RowsStay(q, changed) ==
  /\ \A s \in Shipments : shipments[s] # None => shipments'[s] # None
  /\ \A o \in Orders \ changed : orders[o] # None => SameParts(o) /\ SameLinks(o)
  /\ Shipping(q) =>
       \A i \in Has(doc[q])' : i \in Has(doc[q]) \/ items'[i].order \in changed
  /\ pc[q] = "status" =>
       /\ form[q] # None => shipments'[doc[q]] = shipments[doc[q]]
       /\ \A i \in Gets(q) : items'[i] # None

LEMMA HasKnown ==
  ASSUME TypeOK, NEW s \in Shipments
  PROVE  \A i \in Has(s) : i \in Items /\ items[i] # None
  BY DEF TypeOK, Has

(* The same of the next state.                                             *)
LEMMA HasKnownNext ==
  ASSUME TypeOK', NEW s \in Shipments
  PROVE  \A i \in Has(s)' : i \in Items /\ items'[i] # None
  BY DEF TypeOK, Has

(* The statuses q has computed stay right, but of the orders it is now     *)
(* outrun on.                                                              *)
LEMMA AfterKept ==
  ASSUME TypeOK, TypeOK', NEW q \in Requests, Private(q), pc[q] = "status",
         NEW changed, Waits(q, changed), LinesStay(changed), RowsStay(q, changed),
         NEW o \in Orders \ changed, orders[o] # None
  PROVE  StatusOf(o, After(q))' = StatusOf(o, After(q))
  <1> DEFINE s == doc[q]
             f == form[q]
             a == Left(shipments, f, s)
             b == Left(shipments', f, s)
  <1>1. After(q) = a /\ After(q)' = b
    BY AfterIs DEF Waits
  <1>2. /\ s \in Shipments /\ f \in Lines \union {None}
        /\ f = None => shipments[s] # None
        /\ shipments \in [Shipments -> Shipment \union {None}]
        /\ shipments' \in [Shipments -> Shipment \union {None}]
    BY DEF Private, Shipping, TypeOK
  <1>3. f = None => shipments'[s] # None
    BY <1>2 DEF RowsStay
  <1>4. f # None => shipments'[s] = shipments[s]
    BY DEF RowsStay
  <1> HIDE DEF s, f
  <1>5. ASSUME NEW i \in LinesOf(o), NEW t \in Shipments PROVE Part(a, t, i) = Part(b, t, i)
    <2>1. CASE t # s
      <3>1. a[t] = shipments[t] /\ b[t] = shipments'[t]
        BY <1>2, <1>3, <2>1, LeftParts
      <3>2. Part(shipments, t, i) = Part(shipments', t, i)
        BY <1>5 DEF RowsStay, SameParts
      <3> QED
        BY <3>1, <3>2 DEF Part
    <2>2. CASE t = s /\ f = None
      <3>1. ~a[t].live /\ ~b[t].live
        BY <1>2, <1>3, <2>2, LeftParts
      <3> QED
        BY <3>1 DEF Part
    <2>3. CASE t = s /\ f # None
      <3>1. a[t].lines = f /\ (a[t].live <=> shipments[t] = None \/ shipments[t].live) /\ a[t] # None
        BY <1>2, <2>3, LeftParts
      <3>2. b[t].lines = f /\ (b[t].live <=> shipments'[t] = None \/ shipments'[t].live) /\ b[t] # None
        BY <1>2, <2>3, LeftParts
      <3> QED
        BY <1>4, <2>3, <3>1, <3>2 DEF Part
    <2> QED
      BY <2>1, <2>2, <2>3
  <1>6. SameLines(o)
    BY DEF LinesStay
  <1> HIDE DEF a, b
  <1>7. Status(items, o, a) = Status(items', o, b)
    BY <1>5, <1>6, StatusSame DEF SameLines, LinesOf
  <1>8. StatusOf(o, After(q))' = Status(items', o, b)
    BY <1>1 DEF StatusOf, Status, Active, LinesOf
  <1> QED
    BY <1>1, <1>7, <1>8, StatusIs

LEMMA Bystander ==
  ASSUME IInv, TypeOK', NEW q \in Requests, NEW changed \in SUBSET Orders,
         Waits(q, changed), LinesStay(changed), RowsStay(q, changed)
  PROVE  RequestInv(q)'
  <1> USE DEF Waits
  <1>0. TypeOK /\ KnownLines /\ RequestInv(q) /\ used \in Nat /\ used' \in Nat
    BY BoundsAssumption DEF IInv, TablesInv, TypeOK
  <1>1. Private(q)'
    BY <1>0 DEF RequestInv, Private, Shipping, LinesStay, RowsStay, Unwritten, TypeOK
  <1>2. Gets(q)' = Gets(q) /\ Lined(q)' = Lined(q) /\ Rows(q)' = Rows(q)
    BY DEF Gets, Lined, Rows
  <1>3. \A i \in Items : i <= used => i <= used' /\ (items[i] = None => items'[i] = None)
    BY <1>0 DEF LinesStay, Items
  <1>4. RowsKnown(q)'
    <2>1. ASSUME pc[q] \in {"rewrite", "stop"}, NEW i \in Rows(q)
          PROVE  i <= used' /\ (items'[i] # None => items'[i].order = doc[q])
      <3>1. i \in Items /\ i <= used /\ (items[i] # None => items[i].order = doc[q])
        BY <1>0, <2>1 DEF RequestInv, RowsKnown, Rows
      <3> QED
        BY <1>3, <3>1 DEF LinesStay
    <2>2. ASSUME Shipping(q), NEW i \in Gets(q)
          PROVE  i <= used' /\ (pc[q] = "status" => items'[i] # None)
      BY <1>0, <1>3, <2>2 DEF RequestInv, RowsKnown, RowsStay, Gets
    <2>3. ASSUME pc[q] = "look_up", NEW i \in Lined(q) PROVE i <= used'
      BY <1>0, <1>3, <2>3 DEF RequestInv, RowsKnown, Lined
    <2> QED
      BY <1>2, <2>1, <2>2, <2>3 DEF RowsKnown, Shipping
  <1>5. ASSUME Shipping(q), NEW i \in Has(doc[q])'
        PROVE  \/ i \in Has(doc[q]) /\ items'[i].order = items[i].order
               \/ items'[i].order \in changed
    <2>1. doc[q] \in Shipments
      BY <1>0, <1>5 DEF RequestInv, Private
    <2>2. i \in Items /\ items'[i] # None
      BY <1>5, <2>1, HasKnownNext
    <2>3. i \in Has(doc[q]) => items[i] # None
      BY <1>0, <2>1, HasKnown
    <2> QED
      BY <1>5, <2>2, <2>3 DEF RowsStay, LinesStay
  <1>6. Covers(q)'
    <2>1. pc[q] = "look_up" =>
            \A i \in Has(doc[q])' : i \in Lined(q) \/ items'[i].order \in outrun'[q]
      BY <1>0, <1>5 DEF RequestInv, Covers, Shipping, Running
    <2>2. pc[q] = "ship" =>
            \A i \in Has(doc[q])' : items'[i].order \in seen[q].orders \union outrun'[q]
      BY <1>0, <1>5 DEF RequestInv, Covers, Shipping, Running
    <2>3. ASSUME pc[q] = "status", NEW o \in Orders, o \in OrdersTouched(q)'
          PROVE  o \in OrdersTouched(q) \/ o \in changed
      <3>1. PICK i \in Items : /\ i \in Has(doc[q])' \/ i \in Gets(q)
                               /\ items'[i] # None /\ items'[i].order = o
        BY <2>3 DEF OrdersTouched, Touches, LinesOf, Has, Gets
      <3>2. CASE i \in Has(doc[q])'
        <4>1. CASE i \in Has(doc[q]) /\ items'[i].order = items[i].order
          <5>1. i \in Touches(q)
            BY <2>3, <4>1 DEF Has, Touches
          <5>2. items[i] # None
            BY <1>0, <2>3, <4>1, HasKnown DEF RequestInv, Private, Shipping
          <5> QED
            BY <3>1, <4>1, <5>1, <5>2 DEF OrdersTouched, LinesOf
        <4> QED
          BY <1>5, <2>3, <3>1, <3>2, <4>1 DEF Shipping
      <3>3. CASE i \in Gets(q)
        <4>1. i \in Touches(q) /\ items[i] # None
          BY <1>0, <2>3, <3>3 DEF Gets, Touches, RequestInv, RowsKnown, Shipping
        <4>2. items[i].order = o
          BY <3>1, <4>1 DEF LinesStay
        <4> QED
          BY <4>1, <4>2 DEF OrdersTouched, LinesOf
      <3> QED
        BY <3>1, <3>2, <3>3
    <2>4. pc[q] = "status" => outrun'[q] = outrun[q] \union changed
      BY DEF Running
    <2>5. pc[q] = "status" => \A o \in OrdersTouched(q)' :
            \/ o \in todo[q] \union outrun'[q]
            \/ computed[q] # None /\ computed[q].order = o
            \/ written[q][o] # None
      BY <1>0, <2>3, <2>4 DEF RequestInv, Covers, OrdersTouched
    <2> QED
      BY <1>2, <2>1, <2>2, <2>5 DEF Covers
  <1>7. ASSUME pc[q] = "status", NEW o \in Orders, orders[o] # None, o \notin outrun'[q]
        PROVE  o \notin outrun[q] /\ StatusOf(o, After(q))' = StatusOf(o, After(q))
    <2>1. o \notin outrun[q] /\ o \notin changed
      BY <1>7 DEF Running
    <2> QED
      BY <1>0, <1>7, <2>1, AfterKept DEF RequestInv
  <1>8. Right(q)'
    <2>1. ASSUME pc[q] = "status", computed[q] # None, computed[q].order \notin outrun'[q]
          PROVE  computed[q].status = StatusOf(computed[q].order, After(q))'
      <3>1. computed[q].order \in Orders /\ orders[computed[q].order] # None
        BY <1>0, <2>1 DEF TypeOK, RequestInv, Created, Computed
      <3> QED
        BY <1>0, <1>7, <2>1, <3>1 DEF RequestInv, Right
    <2>2. ASSUME pc[q] = "status", NEW o \in Orders, written[q][o] # None, o \notin outrun'[q]
          PROVE  written[q][o] = StatusOf(o, After(q))'
      BY <1>0, <1>7, <2>2 DEF RequestInv, Right, Created
    <2> QED
      BY <1>0, <2>1, <2>2 DEF RequestInv, Right
  <1>9. Created(q)'
    BY <1>0 DEF RequestInv, Created, LinesStay, Private, Computed, TypeOK, Reading
  <1>10. Fresh(q)'
    <2> DEFINE o == doc[q]
    <2> SUFFICES ASSUME pc[q] = "rewrite", o \notin outrun'[q] PROVE Fresh(q)'
      BY DEF Fresh
    <2>1. /\ o \in Orders /\ orders[o] # None /\ o \notin outrun[q] /\ o \notin changed
          /\ doc'[q] = o
      BY <1>0 DEF RequestInv, Private, Running
    <2>2. SameLines(o) /\ SameLinks(o)
      BY <2>1 DEF LinesStay, RowsStay
    <2>3. Active(o)' = Active(o) /\ \A i \in Active(o) : i \in LinesOf(o) /\ items'[i] = items[i]
      BY <2>2 DEF SameLines, Active, LinesOf
    <2>4. /\ \A i \in Items : seen[q].rows[i] = IF i \in Active(o) THEN items[i] ELSE None
          /\ \A s \in Shipments, i \in Items :
               seen[q].links[s][i] = IF i \in Active(o) THEN LinesIn(shipments, s)[i] ELSE 0
          /\ \A s \in Shipments :
               seen[q].edition[s] = edition[s] \/ \A i \in Items : seen[q].links[s][i] = 0
      BY <1>0, <2>1 DEF RequestInv, Fresh
    <2> HIDE DEF o
    <2>5. \A i \in Items : seen[q].rows[i] = IF i \in Active(o)' THEN items'[i] ELSE None
      BY <2>3, <2>4
    <2>6. \A s \in Shipments, i \in Items :
            seen[q].links[s][i] = IF i \in Active(o)' THEN LinesIn(shipments', s)[i] ELSE 0
      BY <2>2, <2>3, <2>4 DEF SameLinks
    <2>7. \A s \in Shipments :
            seen[q].edition[s] = edition'[s] \/ \A i \in Items : seen[q].links[s][i] = 0
      BY <2>2, <2>3, <2>4 DEF SameLinks
    <2>8. Active(doc[q])' = Active(o)'
      BY DEF o
    <2> QED
      BY <2>5, <2>6, <2>7, <2>8 DEF Fresh
  <1> QED
    BY <1>1, <1>4, <1>6, <1>8, <1>9, <1>10 DEF RequestInv

(***************************************************************************)
(* A step of r that leaves the tables alone.                               *)
(***************************************************************************)
LEMMA QuietStep ==
  ASSUME IInv, TypeOK', NEW r \in Requests, UNCHANGED <<tables, stale>>,
         \A q \in Requests \ {r} : Waits(q, {}), RequestInv(r)', Apart'
  PROVE  IInv'
  <1> USE DEF tables
  <1>1. TypeOK /\ TablesInv
    BY DEF IInv, TablesInv
  <1>2. LinesStay({}) /\ \A o : SameLines(o) /\ SameParts(o) /\ SameLinks(o)
    BY <1>1, BoundsAssumption DEF LinesStay, SameLines, SameParts, SameLinks, TypeOK
  <1>3. ASSUME NEW q \in Requests \ {r} PROVE RowsStay(q, {})
    <2>1. \A i \in Gets(q) : pc[q] = "status" => items[i] # None
      BY DEF IInv, RequestInv, RowsKnown, Shipping
    <2> QED
      BY <1>2, <2>1 DEF RowsStay, Has, Waits
  <1>4. \A q \in Requests \ {r} : RequestInv(q)'
    BY <1>2, <1>3, Bystander
  <1>5. \A o \in Orders : StatusOf(o, shipments)' = StatusOf(o, shipments)
    BY <1>2, StatusKept
  <1>6. KnownLines' /\ Defaults' /\ StatusRight'
    BY <1>1, <1>5 DEF TablesInv, KnownLines, Defaults, StatusRight, StatusUnlessOutrun
  <1> QED
    BY <1>4, <1>6 DEF IInv, TablesInv

(* A request that comes: which of the invariant is left to see.            *)
LEMMA BeginStep ==
  ASSUME IInv, NEW r \in Requests, NEW d \in Orders \union Shipments,
         NEW f \in EditForms \union Lines \union {None}, NEW read \in Reading,
         NEW label \in {"load", "stop", "look_up", "ship"}, Begin(r, d, f, read, label),
         label \in {"load", "stop"} => d \in Orders /\ orders[d] # None,
         label = "load" => f \in EditForms,
         label = "stop" =>
           \A i \in Items : read.rows[i] # None =>
             i <= used /\ (items[i] # None => items[i].order = d),
         label \in {"look_up", "ship"} =>
           /\ d \in Shipments /\ f \in Lines \union {None}
           /\ f = None => shipments[d] # None
           /\ f # None => \A i \in Items : f[i] > 0 => i <= used,
         label = "look_up" => /\ \A i \in Has(d) : read.lines[i] > 0
                              /\ \A i \in Items : read.lines[i] > 0 => i <= used,
         label = "ship" => Has(d) = {} /\ read.orders = {}
  PROVE  IInv'
  <1> USE DEF Begin, Arrive, Goto
  <1>1. TypeOK
    BY DEF IInv, TablesInv
  <1>2. /\ pc[r] = "idle" /\ pc'[r] = label /\ doc'[r] = d /\ form'[r] = f /\ seen'[r] = read
        /\ outrun'[r] = {} /\ todo'[r] = todo[r] /\ computed'[r] = None /\ written'[r] = Unwritten
        /\ UNCHANGED <<tables, stale>>
    BY <1>1 DEF TypeOK, IInv, RequestInv, Private
  <1>3. TypeOK'
    BY <1>1, BoundsAssumption DEF TypeOK, tables
  <1>4. \A q \in Requests \ {r} : Waits(q, {}) /\ pc'[q] = pc[q]
    BY <1>1 DEF TypeOK, Waits
  <1>5. Apart'
    BY <1>2, <1>4 DEF IInv, Apart, Waits
  <1>6. RequestInv(r)'
    <2>1. Private(r)'
      BY <1>2 DEF Private, Shipping, tables, Unwritten
    <2>2. RowsKnown(r)'
      BY <1>2 DEF RowsKnown, Shipping, Gets, Rows, Lined, tables
    <2>3. Covers(r)'
      BY <1>2 DEF Covers, Has, Lined, tables, LinesIn
    <2>4. Right(r)' /\ Created(r)' /\ Fresh(r)'
      BY <1>2 DEF Right, Created, Fresh
    <2> QED
      BY <2>1, <2>2, <2>3, <2>4 DEF RequestInv
  <1> QED
    BY <1>2, <1>3, <1>4, <1>5, <1>6, QuietStep

LEMMA NothingType ==
  /\ Nothing \in Reading /\ Nothing.orders = {}
  /\ \A stopped \in SUBSET Products : [Nothing EXCEPT !.stopped = stopped] \in Reading
  /\ \A rows \in [Items -> Item \union {None}] :
       /\ [Nothing EXCEPT !.rows = rows] \in Reading
       /\ [Nothing EXCEPT !.rows = rows].rows = rows
  /\ \A lines \in Lines, number \in [Shipments -> Nat] :
       /\ [Nothing EXCEPT !.lines = lines, !.edition = number] \in Reading
       /\ [Nothing EXCEPT !.lines = lines, !.edition = number].lines = lines
  <1>1. NoLines \in Lines
    BY DEF NoLines, Lines
  <1>2. Nothing \in Reading
    BY <1>1 DEF Nothing, Reading
  <1>3. Nothing.orders = {}
    BY DEF Nothing
  <1> HIDE DEF Nothing
  <1> QED
    BY <1>2, <1>3 DEF Reading

LEMMA BeginUpdateOrderInv ==
  ASSUME IInv, NEW r \in Requests, NEW o \in Orders, NEW lines \in EditForms,
         BeginUpdateOrder(r, o, lines)
  PROVE  IInv'
  <1> DEFINE stopped == {items[i].product : i \in LinesOf(o) \ Active(o)}
             read == [Nothing EXCEPT !.stopped = stopped]
  <1>1. stopped \in SUBSET Products
    BY DEF IInv, TablesInv, TypeOK, LinesOf, Item
  <1>2. Begin(r, o, lines, read, "load") /\ orders[o] = "live"
    BY DEF BeginUpdateOrder
  <1> HIDE DEF stopped
  <1>3. read \in Reading
    BY <1>1, NothingType
  <1> HIDE DEF read
  <1> QED
    BY <1>2, <1>3, BeginStep, NoneAssumption

LEMMA BeginStopInv ==
  ASSUME IInv, NEW r \in Requests, NEW o \in Orders, NEW products, BeginStop(r, o, products)
  PROVE  IInv'
  <1> DEFINE rows == [i \in Items |->
               IF i \in Active(o) /\ items[i].product \in products THEN items[i] ELSE None]
             read == [Nothing EXCEPT !.rows = rows]
  <1>1. rows \in [Items -> Item \union {None}]
    BY DEF IInv, TablesInv, TypeOK
  <1>2. Begin(r, o, None, read, "stop") /\ orders[o] = "live"
    BY DEF BeginStop
  <1>3. \A i \in Items : rows[i] # None => i <= used /\ items[i].order = o
    BY DEF IInv, TablesInv, KnownLines, Active, LinesOf
  <1> HIDE DEF rows
  <1>4. read \in Reading /\ read.rows = rows
    BY <1>1, NothingType
  <1> HIDE DEF read
  <1> QED
    BY <1>2, <1>3, <1>4, BeginStep, NoneAssumption

(* A shipment takes lines that are there, or those it has.                 *)
LEMMA FormLines ==
  ASSUME IInv, NEW s \in Shipments, NEW f \in Deliveries(s)
  PROVE  f \in Lines /\ \A i \in Items : f[i] > 0 => i <= used
  <1>0. TypeOK /\ KnownLines
    BY DEF IInv, TablesInv
  <1>1. PICK g \in UNION {[linked -> Quantities] : linked \in SUBSET Linkable(s)} :
          f = [i \in Items |-> IF i \in DOMAIN g THEN g[i] ELSE 0]
    BY DEF Deliveries
  <1>2. PICK linked \in SUBSET Linkable(s) : g \in [linked -> Quantities]
    OBVIOUS
  <1>3. \A i \in Items : IF i \in linked THEN g[i] \in Nat ELSE TRUE
    BY <1>2, BoundsAssumption
  <1>4. f \in Lines
    BY <1>1, <1>2, <1>3 DEF Lines
  <1>5. \A i \in linked : i \in Items /\ items[i] # None
    BY <1>0, <1>2, HasKnown DEF Linkable, Has, Active, LinesOf
  <1> QED
    BY <1>0, <1>1, <1>2, <1>4, <1>5 DEF KnownLines

LEMMA BeginCreateShipmentInv ==
  ASSUME IInv, NEW r \in Requests, NEW s \in Shipments, BeginCreateShipment(r, s)
  PROVE  IInv'
  <1>1. PICK lines \in Deliveries(s) : Begin(r, s, lines, Nothing, "ship")
    BY DEF BeginCreateShipment
  <1>2. lines \in Lines /\ \A i \in Items : lines[i] > 0 => i <= used
    BY FormLines
  <1>3. Has(s) = {}
    BY DEF BeginCreateShipment, Has, LinesIn, NoLines
  <1>4. lines # None
    BY <1>2, NoneAssumption
  <1> QED
    BY <1>1, <1>2, <1>3, <1>4, NothingType, BeginStep

LEMMA BeginChangeShipmentInv ==
  ASSUME IInv, NEW r \in Requests, NEW s \in Shipments, BeginChangeShipment(r, s)
  PROVE  IInv'
  <1> DEFINE read == [Nothing EXCEPT !.lines = shipments[s].lines, !.edition = edition]
  <1>0. TypeOK /\ KnownLines /\ shipments[s] # None
    BY DEF IInv, TablesInv, BeginChangeShipment
  <1>1. PICK lines \in Deliveries(s) \union {None} : Begin(r, s, lines, read, "look_up")
    BY DEF BeginChangeShipment
  <1>2. /\ lines \in Lines \union {None}
        /\ lines # None => \A i \in Items : lines[i] > 0 => i <= used
    BY FormLines
  <1>3. shipments[s].lines \in Lines /\ edition \in [Shipments -> Nat]
    BY <1>0 DEF TypeOK, Shipment
  <1>4. read \in Reading /\ read.lines = shipments[s].lines
    BY <1>3, NothingType
  <1> HIDE DEF read
  <1>5. Has(s) = {i \in Items : read.lines[i] > 0}
    BY <1>0, <1>4 DEF Has, LinesIn
  <1>6. \A i \in Has(s) : i <= used
    BY <1>0, HasKnown DEF KnownLines
  <1> QED
    BY <1>0, <1>1, <1>2, <1>4, <1>5, <1>6, BeginStep

(***************************************************************************)
(* The end of a request, and the steps of a running one.                   *)
(***************************************************************************)
Labels == {"idle", "load", "rewrite", "stop", "look_up", "ship", "status"}

LEMMA EndStep ==
  ASSUME IInv, NEW r \in Requests, NEW changed \in SUBSET Orders, End(r, changed)
  PROVE  /\ RequestInv(r)' /\ Apart'
         /\ \A q \in Requests \ {r} : Waits(q, changed)
         /\ pc' \in [Requests -> Labels]
         /\ doc' \in [Requests -> Orders \union Shipments \union {None}]
         /\ form' \in [Requests -> EditForms \union Lines \union {None}]
         /\ computed' \in [Requests -> Computed \union {None}]
         /\ written' \in [Requests -> [Orders -> (0 .. 2) \union {None}]]
         /\ seen' \in [Requests -> Reading]
         /\ todo' \in [Requests -> SUBSET Orders]
         /\ outrun' \in [Requests -> SUBSET Orders]
  <1> USE DEF End, Goto
  <1>0. TypeOK
    BY DEF IInv, TablesInv
  <1>1. /\ pc'[r] = "idle" /\ doc'[r] = None /\ form'[r] = None /\ seen'[r] = Nothing
        /\ todo'[r] = {} /\ computed'[r] = None /\ written'[r] = Unwritten
    BY <1>0 DEF TypeOK
  <1>2. RequestInv(r)'
    BY <1>1 DEF RequestInv, Private, RowsKnown, Covers, Right, Created, Fresh, Shipping, Unwritten
  <1>3. \A q \in Requests \ {r} : Waits(q, changed)
    BY <1>0 DEF Waits, TypeOK
  <1>4. Apart'
    BY <1>1, <1>3 DEF IInv, Apart, Waits
  <1>5. Unwritten \in [Orders -> (0 .. 2) \union {None}]
    BY DEF Unwritten
  <1>6. /\ pc' \in [Requests -> Labels]
        /\ doc' \in [Requests -> Orders \union Shipments \union {None}]
        /\ form' \in [Requests -> EditForms \union Lines \union {None}]
        /\ computed' \in [Requests -> Computed \union {None}]
    BY <1>0 DEF TypeOK, Labels
  <1>7. /\ written' \in [Requests -> [Orders -> (0 .. 2) \union {None}]]
        /\ seen' \in [Requests -> Reading]
        /\ todo' \in [Requests -> SUBSET Orders]
        /\ outrun' \in [Requests -> SUBSET Orders]
    BY <1>0, <1>5, NothingType DEF TypeOK
  <1> QED
    BY <1>2, <1>3, <1>4, <1>6, <1>7

LEMMA FailInv ==
  ASSUME IInv, NEW r \in Requests, Fail(r)
  PROVE  IInv'
  <1>0. TypeOK
    BY DEF IInv, TablesInv
  <1>1. End(r, {}) /\ UNCHANGED <<tables, stale, begun>>
    BY DEF Fail
  <1>2. \A q \in Requests \ {r} : pc'[q] = pc[q]
    BY <1>0, <1>1 DEF End, Goto, TypeOK
  <1>3. /\ lock' \in [Orders -> Requests \union {None}]
        /\ \A o \in Orders : lock'[o] # None => pc'[lock'[o]] = "status"
    BY <1>0, <1>2, NoneAssumption DEF Fail, TypeOK
  <1>4. TypeOK'
    BY <1>0, <1>1, <1>3, EndStep DEF TypeOK, tables, Labels
  <1> QED
    BY <1>1, <1>4, EndStep, QuietStep

LEMMA ReadingType ==
  ASSUME NEW old \in Reading
  PROVE  /\ \A found \in SUBSET Orders : [old EXCEPT !.orders = found] \in Reading
         /\ \A rows \in [Items -> Item \union {None}],
               links \in [Shipments -> Lines], number \in [Shipments -> Nat] :
              [old EXCEPT !.rows = rows, !.links = links, !.edition = number] \in Reading
  BY DEF Reading

LEMMA LoadOrderInv ==
  ASSUME IInv, NEW r \in Requests, LoadOrder(r)
  PROVE  IInv'
  <1> DEFINE active == Active(doc[r])
             rows == [i \in Items |-> IF i \in active THEN items[i] ELSE None]
             links == [s \in Shipments |->
                         [i \in Items |-> IF i \in active THEN LinesIn(shipments, s)[i] ELSE 0]]
             read == [seen[r] EXCEPT !.rows = rows, !.links = links, !.edition = edition]
  <1>0. TypeOK /\ KnownLines /\ RequestInv(r)
    BY DEF IInv, TablesInv
  <1>1. /\ pc[r] = "load" /\ pc' = [pc EXCEPT ![r] = "rewrite"] /\ pc'[r] = "rewrite"
        /\ seen' = [seen EXCEPT ![r] = read] /\ seen[r] \in Reading
        /\ UNCHANGED <<begun, tables, lock, doc, form, todo, computed, written, outrun, stale>>
    BY <1>0 DEF LoadOrder, Goto, TypeOK
  <1>2. rows \in [Items -> Item \union {None}] /\ edition \in [Shipments -> Nat]
    BY <1>0 DEF TypeOK
  <1>3. links \in [Shipments -> Lines]
    <2> SUFFICES ASSUME NEW s \in Shipments, NEW i \in Items PROVE LinesIn(shipments, s)[i] \in Nat
      BY DEF Lines
    <2>1. shipments[s] # None => shipments[s].lines[i] \in Nat
      BY <1>0 DEF TypeOK, Shipment, Lines
    <2> QED
      BY <2>1 DEF LinesIn, NoLines
  <1>4. \A i \in Items : rows[i] # None => i <= used /\ items[i].order = doc[r]
    BY <1>0 DEF KnownLines, Active, LinesOf
  <1> HIDE DEF rows, links
  <1>5. /\ read \in Reading /\ read.rows = rows /\ read.links = links
        /\ read.edition = edition
    <2>1. read \in Reading
      BY <1>1, <1>2, <1>3, ReadingType
    <2>2. read.rows = rows /\ read.links = links /\ read.edition = edition
      BY <1>1 DEF Reading
    <2> QED
      BY <2>1, <2>2
  <1> HIDE DEF read
  <1>6. TypeOK'
    <2>1. seen' \in [Requests -> Reading]
      BY <1>0, <1>1, <1>5 DEF TypeOK
    <2> QED
      BY <1>0, <1>1, <2>1 DEF TypeOK, tables
  <1>7. \A q \in Requests \ {r} : Waits(q, {})
    BY <1>0, <1>1 DEF LoadOrder, Goto, Waits, TypeOK
  <1>8. Apart'
    BY <1>1, <1>7 DEF IInv, Apart, Waits
  <1>9. seen'[r].rows = rows /\ seen'[r].links = links /\ seen'[r].edition = edition
    BY <1>0, <1>1, <1>5 DEF TypeOK
  <1>10. Private(r)' /\ RowsKnown(r)'
    BY <1>0, <1>1, <1>4, <1>9 DEF RequestInv, Private, RowsKnown, Shipping, Rows, tables
  <1>11. Covers(r)' /\ Right(r)' /\ Created(r)'
    BY <1>1 DEF Covers, Right, Created
  <1>12. Fresh(r)'
    <2>1. Active(doc[r])' = active
      BY <1>1 DEF Active, LinesOf, tables
    <2>2. \A i \in Items : rows[i] = IF i \in active THEN items[i] ELSE None
      BY DEF rows
    <2>3. \A s \in Shipments, i \in Items :
            links[s][i] = IF i \in active THEN LinesIn(shipments, s)[i] ELSE 0
      BY DEF links
    <2> HIDE DEF active
    <2> QED
      BY <1>1, <1>9, <2>1, <2>2, <2>3 DEF Fresh, tables
  <1> QED
    BY <1>1, <1>6, <1>7, <1>8, <1>10, <1>11, <1>12, QuietStep DEF RequestInv

LEMMA LookUpOrdersInv ==
  ASSUME IInv, NEW r \in Requests, LookUpOrders(r)
  PROVE  IInv'
  <1> DEFINE found == {items[i].order : i \in {j \in Items : seen[r].lines[j] > 0 /\ items[j] # None}}
             read == [seen[r] EXCEPT !.orders = found]
  <1>0. TypeOK /\ KnownLines /\ RequestInv(r)
    BY DEF IInv, TablesInv
  <1>1. /\ pc[r] = "look_up" /\ pc' = [pc EXCEPT ![r] = "ship"] /\ pc'[r] = "ship"
        /\ seen' = [seen EXCEPT ![r] = read] /\ seen[r] \in Reading
        /\ UNCHANGED <<begun, tables, lock, doc, form, todo, computed, written, outrun, stale>>
    BY <1>0 DEF LookUpOrders, Goto, TypeOK
  <1>2. /\ found \in SUBSET Orders /\ \A o \in found : orders[o] # None
        /\ \A i \in Lined(r) : items[i] # None => items[i].order \in found
    BY <1>0 DEF TypeOK, Item, KnownLines, Lined
  <1> HIDE DEF found
  <1>3. read \in Reading /\ read.orders = found
    <2>1. read \in Reading
      BY <1>1, <1>2, ReadingType
    <2>2. read.orders = found
      BY <1>1 DEF Reading
    <2> QED
      BY <2>1, <2>2
  <1> HIDE DEF read
  <1>4. TypeOK'
    <2>1. seen' \in [Requests -> Reading]
      BY <1>0, <1>1, <1>3 DEF TypeOK
    <2> QED
      BY <1>0, <1>1, <2>1 DEF TypeOK, tables
  <1>5. \A q \in Requests \ {r} : Waits(q, {})
    BY <1>0, <1>1 DEF LookUpOrders, Goto, Waits, TypeOK
  <1>6. Apart'
    BY <1>1, <1>5 DEF IInv, Apart, Waits
  <1>7. seen'[r].orders = found
    BY <1>0, <1>1, <1>3 DEF TypeOK
  <1>8. Private(r)' /\ RowsKnown(r)'
    BY <1>0, <1>1 DEF RequestInv, Private, RowsKnown, Shipping, Gets, tables
  <1>9. Covers(r)'
    <2>1. \A i \in Has(doc[r]) : items[i] # None
      BY <1>0, <1>1, HasKnown DEF RequestInv, Private, Shipping
    <2>2. \A i \in Has(doc[r]) : items[i].order \in found \union outrun[r]
      BY <1>0, <1>1, <1>2, <2>1 DEF RequestInv, Covers
    <2> QED
      BY <1>1, <1>7, <2>2 DEF Covers, Has, LinesIn, tables
  <1>10. Right(r)' /\ Created(r)' /\ Fresh(r)'
    BY <1>1, <1>2, <1>7 DEF Right, Created, Fresh, tables
  <1> QED
    BY <1>1, <1>4, <1>5, <1>6, <1>8, <1>9, <1>10, QuietStep DEF RequestInv

LEMMA WriteLinesInv ==
  ASSUME IInv, NEW r \in Requests, WriteLines(r)
  PROVE  IInv'
  <1> DEFINE s == doc[r]
             linked == {i \in Items : form[r] # None /\ form[r][i] > 0}
             mine == seen[r].orders \union {items[i].order : i \in linked}
  <1>0. TypeOK /\ KnownLines /\ RequestInv(r)
    BY DEF IInv, TablesInv
  <1>1. /\ pc[r] = "ship" /\ pc'[r] = "status" /\ todo' = [todo EXCEPT ![r] = mine]
        /\ outrun' = [outrun EXCEPT ![r] = outrun[r] \ mine]
        /\ todo'[r] = mine /\ outrun'[r] = outrun[r] \ mine
        /\ \A i \in linked : items[i] # None
        /\ UNCHANGED <<begun, tables, lock, doc, seen, computed, written, stale>>
    BY <1>0 DEF WriteLines, Goto, TypeOK
  <1>2. s \in Shipments /\ form[r] \in Lines \union {None} /\ (form[r] = None => shipments[s] # None)
    BY <1>0, <1>1 DEF RequestInv, Private, Shipping
  <1>3. PICK old \in LeftOver(r, s) :
          form' = IF form[r] = None THEN form
                  ELSE [form EXCEPT ![r] = [i \in Items |-> form[r][i] + old[i]]]
    BY DEF WriteLines
  <1>4. old \in Lines /\ \A i \in Items : old[i] > 0 => i \in Has(s)
    <2>1. NoLines \in Lines /\ \A i \in Items : ~(NoLines[i] > 0)
      BY DEF NoLines, Lines
    <2>2. shipments[s] # None => shipments[s].lines \in Lines /\ LinesIn(shipments, s) = shipments[s].lines
      BY <1>0, <1>2 DEF TypeOK, Shipment, LinesIn
    <2> QED
      BY <2>1, <2>2 DEF LeftOver, Has
  <1>5. form' \in [Requests -> EditForms \union Lines \union {None}]
        /\ form'[r] \in Lines \union {None} /\ (form'[r] = None => form[r] = None)
    <2>1. CASE form[r] = None
      BY <1>0, <1>3, <2>1 DEF TypeOK
    <2>2. CASE form[r] # None
      <3> DEFINE sum == [i \in Items |-> form[r][i] + old[i]]
      <3>1. sum \in Lines
        BY <1>2, <1>4, <2>2 DEF Lines
      <3>2. form' = [form EXCEPT ![r] = sum]
        BY <1>3, <2>2
      <3> HIDE DEF sum
      <3> QED
        BY <1>0, <2>2, <3>1, <3>2, NoneAssumption DEF TypeOK
    <2> QED
      BY <2>1, <2>2
  <1>6. \A i \in Items : form'[r] # None /\ form'[r][i] > 0 => i \in linked \/ i \in Has(s)
    <2>1. ASSUME NEW i \in Items, form[r] # None, form'[r][i] > 0 PROVE i \in linked \/ i \in Has(s)
      <3>1. form'[r][i] = form[r][i] + old[i]
        BY <1>0, <1>3, <2>1 DEF TypeOK
      <3>2. form[r][i] \in Nat /\ old[i] \in Nat
        BY <1>2, <1>4, <2>1 DEF Lines
      <3> QED
        BY <1>4, <2>1, <3>1, <3>2
    <2> QED
      BY <1>3, <2>1
  <1>7. /\ mine \in SUBSET Orders /\ \A o \in mine : orders[o] # None
        /\ \A i \in linked : items[i].order \in mine
    BY <1>0, <1>1 DEF TypeOK, Item, KnownLines, Reading, RequestInv, Created
  <1>8. \A i \in Has(s) : items[i] # None /\ i <= used /\ items[i].order \in mine \union outrun[r]
    BY <1>0, <1>1, <1>2, HasKnown DEF KnownLines, RequestInv, Covers
  <1>9. \A i \in linked : i <= used /\ items[i] # None
    BY <1>0, <1>1 DEF KnownLines
  <1> HIDE DEF mine, linked, s
  <1>10. TypeOK'
    BY <1>0, <1>1, <1>5, <1>7, NoneAssumption DEF WriteLines, Goto, TypeOK, tables
  <1>11. \A q \in Requests \ {r} : Waits(q, {}) /\ ~(pc[q] = "status" /\ doc[q] = s)
    BY <1>0, <1>1, <1>3 DEF WriteLines, Goto, Waits, TypeOK, s
  <1>12. Apart'
    BY <1>1, <1>11 DEF IInv, Apart, Waits, s
  <1>13. Private(r)'
    BY <1>0, <1>1, <1>2, <1>5 DEF RequestInv, Private, Shipping, tables, s
  <1>14. RowsKnown(r)'
    BY <1>1, <1>6, <1>8, <1>9 DEF RowsKnown, Shipping, Gets, tables
  <1>15. Covers(r)'
    <2> SUFFICES ASSUME NEW o \in Orders, o \in OrdersTouched(r)'
                 PROVE  o \in mine \union (outrun[r] \ mine)
      BY <1>1 DEF Covers, OrdersTouched
    <2>1. PICK i \in Items : /\ i \in Has(s) \/ i \in linked
                             /\ items[i] # None /\ items[i].order = o
      BY <1>1, <1>6 DEF OrdersTouched, Touches, LinesOf, LinesIn, tables, Has, s
    <2> QED
      BY <1>7, <1>8, <2>1
  <1>16. Right(r)' /\ Created(r)' /\ Fresh(r)'
    BY <1>0, <1>1, <1>7 DEF RequestInv, Private, Right, Created, Fresh, Unwritten, tables
  <1> QED
    BY <1>1, <1>10, <1>11, <1>12, <1>13, <1>14, <1>15, <1>16, QuietStep DEF RequestInv

(* While the tables stay and r keeps its shipment, so does what it leaves. *)
LEMMA AfterSame ==
  ASSUME NEW r, UNCHANGED <<tables, doc, form>>
  PROVE  \A o : StatusOf(o, After(r))' = StatusOf(o, After(r))
  <1>1. After(r)' = After(r)
    BY AfterIs DEF tables
  <1> QED
    BY <1>1 DEF StatusOf, Active, LinesOf, tables

LEMMA ComputeInv ==
  ASSUME IInv, NEW r \in Requests, NEW o \in Orders, Compute(r, o)
  PROVE  IInv'
  <1> DEFINE c == [order |-> o, status |-> StatusOf(o, After(r))]
  <1>0. TypeOK /\ RequestInv(r)
    BY DEF IInv, TablesInv
  <1>1. /\ pc[r] = "status" /\ computed[r] = None /\ o \in todo[r]
        /\ computed'[r] = c /\ todo'[r] = todo[r] \ {o}
        /\ UNCHANGED <<tables, begun, lock, pc, doc, form, seen, written, outrun, stale>>
    BY <1>0 DEF Compute, TypeOK
  <1>2. c \in Computed /\ c # None /\ c.order = o /\ c.status = StatusOf(o, After(r))
    BY StatusIs, StatusType, NoneAssumption DEF Computed
  <1> HIDE DEF c
  <1>3. TypeOK'
    BY <1>0, <1>1, <1>2 DEF Compute, TypeOK, tables, c
  <1>4. \A q \in Requests \ {r} : Waits(q, {})
    BY <1>0, <1>1 DEF Compute, Waits, TypeOK
  <1>5. Apart'
    BY <1>1 DEF IInv, Apart
  <1>6. Private(r)' /\ RowsKnown(r)'
    BY <1>0, <1>1 DEF RequestInv, Private, RowsKnown, Shipping, Gets, tables
  <1>7. Covers(r)'
    <2>1. OrdersTouched(r)' = OrdersTouched(r)
      BY <1>1 DEF OrdersTouched, Touches, LinesOf, LinesIn, tables
    <2> QED
      BY <1>0, <1>1, <1>2, <2>1 DEF RequestInv, Covers
  <1>8. Right(r)'
    <2>1. \A p : StatusOf(p, After(r))' = StatusOf(p, After(r))
      BY <1>1, AfterSame
    <2> QED
      BY <1>0, <1>1, <1>2, <2>1 DEF RequestInv, Right
  <1>9. Created(r)' /\ Fresh(r)'
    BY <1>0, <1>1, <1>2 DEF RequestInv, Created, Fresh, tables
  <1> QED
    BY <1>1, <1>3, <1>4, <1>5, <1>6, <1>7, <1>8, <1>9, QuietStep DEF RequestInv

LEMMA WriteStatusInv ==
  ASSUME IInv, NEW r \in Requests, WriteStatus(r)
  PROVE  IInv'
  <1> DEFINE o == computed[r].order
             value == computed[r].status
  <1>0. TypeOK /\ RequestInv(r)
    BY DEF IInv, TablesInv
  <1>1. o \in Orders /\ value \in 0 .. 2 /\ computed[r] # None /\ pc[r] = "status"
    BY <1>0 DEF WriteStatus, TypeOK, Computed
  <1>2. /\ computed'[r] = None /\ outrun'[r] = outrun[r] \ todo[r] /\ written'[r][o] = value
        /\ \A p \in Orders \ {o} : written'[r][p] = written[r][p]
        /\ UNCHANGED <<tables, begun, pc, doc, form, seen, todo, stale>>
    BY <1>0, <1>1 DEF WriteStatus, TypeOK
  <1>3. TypeOK'
    <2>1. written' \in [Requests -> [Orders -> (0 .. 2) \union {None}]]
      BY <1>0, <1>1 DEF WriteStatus, TypeOK
    <2>2. /\ lock' \in [Orders -> Requests \union {None}]
          /\ \A p \in Orders : lock'[p] # None => pc[lock'[p]] = "status"
      BY <1>0, <1>1 DEF WriteStatus, TypeOK
    <2>3. /\ computed' \in [Requests -> Computed \union {None}]
          /\ outrun' \in [Requests -> SUBSET Orders]
      BY <1>0, <1>1 DEF WriteStatus, TypeOK
    <2> QED
      BY <1>0, <1>2, <2>1, <2>2, <2>3 DEF TypeOK, tables
  <1>4. \A q \in Requests \ {r} : Waits(q, {})
    BY <1>0, <1>1 DEF WriteStatus, Waits, TypeOK
  <1>5. Apart'
    BY <1>2 DEF IInv, Apart
  <1>6. Private(r)' /\ RowsKnown(r)'
    BY <1>0, <1>1, <1>2 DEF RequestInv, Private, RowsKnown, Shipping, Gets, tables
  <1>7. Covers(r)'
    <2>1. OrdersTouched(r)' = OrdersTouched(r)
      BY <1>2 DEF OrdersTouched, Touches, LinesOf, LinesIn, tables
    <2>2. value # None
      BY <1>1, NoneAssumption
    <2> HIDE DEF o, value
    <2>3. ASSUME NEW p \in Orders, p \in OrdersTouched(r)
          PROVE  p \in todo[r] \union outrun'[r] \/ written'[r][p] # None
      <3>1. p \in todo[r] \union outrun[r] \/ p = o \/ written[r][p] # None
        BY <1>0, <1>1, <2>3 DEF RequestInv, Covers, o
      <3> QED
        BY <1>2, <2>2, <3>1
    <2> QED
      BY <1>1, <1>2, <2>1, <2>3 DEF Covers, OrdersTouched
  <1>8. Right(r)'
    <2>1. \A p : StatusOf(p, After(r))' = StatusOf(p, After(r))
      BY <1>2, AfterSame
    <2> QED
      BY <1>0, <1>1, <1>2, <2>1 DEF RequestInv, Right
  <1>9. Created(r)' /\ Fresh(r)'
    BY <1>0, <1>1, <1>2 DEF RequestInv, Created, Fresh, tables
  <1> QED
    BY <1>2, <1>3, <1>4, <1>5, <1>6, <1>7, <1>8, <1>9, QuietStep DEF RequestInv

(***************************************************************************)
(* The steps that change the tables.                                       *)
(***************************************************************************)
LEMMA LoudStep ==
  ASSUME IInv, NEW r \in Requests, NEW changed \in SUBSET Orders, End(r, changed), TablesInv',
         LinesStay(changed), \A q \in Requests \ {r} : RowsStay(q, changed)
  PROVE  IInv'
  <1>1. TypeOK'
    BY DEF TablesInv
  <1>2. \A q \in Requests \ {r} : RequestInv(q)'
    BY <1>1, EndStep, Bystander
  <1> QED
    BY <1>2, EndStep DEF IInv

(* The end of a request that is in no transaction leaves the locks alone.  *)
LEMMA EndLocks ==
  ASSUME TypeOK, NEW r \in Requests, NEW changed, End(r, changed), pc[r] # "status", lock' = lock
  PROVE  \A o \in Orders : lock'[o] # None => pc'[lock'[o]] = "status"
  <1> SUFFICES ASSUME NEW o \in Orders, lock[o] # None PROVE pc'[lock[o]] = "status"
    OBVIOUS
  <1>1. lock[o] \in Requests /\ pc[lock[o]] = "status"
    BY DEF TypeOK
  <1>2. \A q \in Requests \ {r} : pc'[q] = pc[q]
    BY DEF End, Goto, TypeOK
  <1> QED
    BY <1>1, <1>2

(* The lines of a form get the ids that follow.                            *)
LEMMA NewLines ==
  ASSUME TypeOK, NEW o \in Orders, NEW lines \in Seq(FormLine), NEW i \in Items
  PROVE  /\ i > used /\ i <= used + Len(lines) =>
              /\ NewItems(o, lines)[i] \in Item /\ NewItems(o, lines)[i] # None
              /\ NewItems(o, lines)[i].order = o /\ i - used \in DOMAIN lines
              /\ NewItems(o, lines)[i].stopped = lines[i - used].stopped
         /\ ~(i > used /\ i <= used + Len(lines)) => NewItems(o, lines)[i] = items[i]
  <1>1. used \in Nat /\ i \in Nat /\ Len(lines) \in Nat /\ DOMAIN lines = 1 .. Len(lines)
    BY BoundsAssumption DEF TypeOK, Items
  <1>2. i - used \in DOMAIN lines <=> i > used /\ i <= used + Len(lines)
    BY <1>1
  <1>3. i - used \in DOMAIN lines => lines[i - used] \in FormLine
    OBVIOUS
  <1> DEFINE row == [order |-> o, product |-> lines[i - used].product,
                     qty |-> lines[i - used].qty, stopped |-> lines[i - used].stopped]
  <1>4. i - used \in DOMAIN lines => row \in Item
    BY <1>3 DEF FormLine, Item
  <1>5. row.order = o /\ row.stopped = lines[i - used].stopped
    OBVIOUS
  <1>6. NewItems(o, lines)[i] = IF i - used \in DOMAIN lines THEN row ELSE items[i]
    BY DEF NewItems
  <1> HIDE DEF row
  <1> QED
    BY <1>2, <1>4, <1>5, <1>6, NoneAssumption

LEMMA ShippedZero ==
  ASSUME NEW i, NEW ships, \A s \in Shipments : Part(ships, s, i) = 0
  PROVE  Shipped(ships, i) = 0
  <1> DEFINE F == [s \in Shipments |-> Part(ships, s, i)]
  <1>1. Shipped(ships, i) = SumFunctionOnSet(F, Shipments)
    BY DEF Shipped, Part
  <1>2. \A s \in Shipments : F[s] = 0
    OBVIOUS
  <1> HIDE DEF F
  <1> QED
    BY <1>1, <1>2, SumZero, BoundsAssumption

(* Nothing is shipped of a line that nothing is linked to.                 *)
LEMMA UnlinkedZero ==
  ASSUME TypeOK, NEW i \in Items, \A s \in Shipments : i \notin Has(s)
  PROVE  \A s \in Shipments : Part(shipments, s, i) = 0
  <1> SUFFICES ASSUME NEW s \in Shipments, shipments[s] # None PROVE Part(shipments, s, i) = 0
    BY DEF Part
  <1>1. shipments[s].lines[i] \in Nat /\ ~(shipments[s].lines[i] > 0)
    BY DEF TypeOK, Shipment, Lines, Has, LinesIn
  <1> QED
    BY <1>1 DEF Part

(* An order nothing is shipped of is open as long as a line is active.     *)
LEMMA StatusUnlinked ==
  ASSUME NEW o, NEW its, NEW ships, NEW k \in Items,
         its[k] # None /\ its[k].order = o /\ ~its[k].stopped,
         \A i \in Items : its[i] # None /\ its[i].order = o => Shipped(ships, i) = 0
  PROVE  Status(its, o, ships) = 0
  <1> DEFINE active == {i \in Items : its[i] # None /\ its[i].order = o /\ ~its[i].stopped}
  <1>1. active # {} /\ \A i \in active : Shipped(ships, i) = 0
    OBVIOUS
  <1> HIDE DEF active
  <1> QED
    BY <1>1 DEF Status, active

(* The lines a transaction has linked are there.                           *)
LEMMA GetsKnown ==
  ASSUME IInv, NEW q \in Requests, pc[q] = "status"
  PROVE  \A i \in Gets(q) : i \in Items /\ items[i] # None
  BY DEF IInv, RequestInv, RowsKnown, Shipping, Gets

LEMMA CreateOrderInv ==
  ASSUME IInv, NEW r \in Requests, NEW o \in Orders, NEW lines \in NewForms,
         CreateOrder(r, o, lines)
  PROVE  IInv'
  <1>0. TypeOK /\ TablesInv /\ lines \in Seq(FormLine) /\ orders[o] = None
    BY FormsAssumption DEF IInv, TablesInv, CreateOrder
  <1>1. used \in Nat /\ Len(lines) \in Nat /\ used + Len(lines) <= MaxItems /\ used' = used + Len(lines)
    BY <1>0, BoundsAssumption DEF TypeOK, CreateOrder
  <1> DEFINE new(i) == i > used /\ i <= used + Len(lines)
  <1>2. ASSUME NEW i \in Items
        PROVE  /\ new(i) => items'[i] \in Item /\ items'[i].order = o /\ items'[i] # None
                            /\ items'[i].stopped = lines[i - used].stopped
               /\ ~new(i) => items'[i] = items[i]
    BY <1>0, NewLines DEF CreateOrder
  <1>3. ASSUME NEW i \in Items PROVE /\ items[i] # None => ~new(i) /\ items[i].order # o
                                     /\ new(i) => \A s \in Shipments : i \notin Has(s)
    <2>1. i \in Nat
      BY DEF Items
    <2>2. items[i] # None => i <= used /\ items[i].order # o
      BY <1>0 DEF TablesInv, KnownLines
    <2>3. \A s \in Shipments : i \in Has(s) => items[i] # None
      BY <1>0, HasKnown
    <2> QED
      BY <1>1, <2>1, <2>2, <2>3
  <1>4. ASSUME NewFormsActive
        PROVE  \E k \in Items : items'[k] # None /\ items'[k].order = o /\ ~items'[k].stopped
    <2>1. PICK j \in DOMAIN lines : ~lines[j].stopped
      BY <1>4 DEF NewFormsActive
    <2>2. j \in Nat /\ 1 <= j /\ j <= Len(lines)
      BY <1>0, <2>1
    <2>3. used + j \in Items /\ new(used + j) /\ (used + j) - used = j
      BY <1>1, <2>2, BoundsAssumption DEF Items
    <2> QED
      BY <1>2, <2>1, <2>3
  <1>5. /\ \A p \in Orders \ {o} : orders'[p] = orders[p]
        /\ orders'[o] = "live" /\ orders'[o] # None
        /\ orders' \in [Orders -> {None, "live", "deleted"}]
        /\ UNCHANGED <<status, shipments, edition, lock, stale>>
        /\ End(r, {}) /\ begun' \in 0 .. MaxRequests /\ pc[r] = "idle"
    <2>1. begun' \in 0 .. MaxRequests
      BY <1>0, BoundsAssumption DEF CreateOrder, TypeOK, Arrive
    <2> QED
      BY <1>0, <2>1, NoneAssumption DEF CreateOrder, TypeOK, Arrive
  <1> HIDE DEF new
  <1>6. TypeOK'
    <2>1. items' \in [Items -> Item \union {None}]
      <3>1. items' = [i \in Items |-> items'[i]]
        BY DEF CreateOrder, NewItems
      <3> QED
        BY <1>0, <1>2, <3>1 DEF TypeOK
    <2>2. \A s \in Shipments, i \in Items : LinesIn(shipments', s)[i] > 0 => items'[i] # None
      BY <1>0, <1>2, <1>5 DEF TypeOK
    <2>3. \A p \in Orders : lock'[p] # None => pc'[lock'[p]] = "status"
      BY <1>0, <1>5, EndLocks
    <2>4. used' \in 0 .. MaxItems
      BY <1>1, BoundsAssumption
    <2> QED
      BY <1>0, <1>5, <2>1, <2>2, <2>3, <2>4, EndStep DEF TypeOK, Labels
  <1>7. KnownLines'
    <2> SUFFICES ASSUME NEW i \in Items, items'[i] # None
                 PROVE  i <= used' /\ orders'[items'[i].order] # None
      BY DEF KnownLines
    <2>1. CASE new(i)
      BY <1>1, <1>2, <1>5, <2>1 DEF new
    <2>2. CASE ~new(i)
      <3>1. items'[i] = items[i] /\ items[i].order \in Orders
        BY <1>0, <1>2, <2>2 DEF TypeOK, Item
      <3>2. i \in Nat /\ i <= used /\ orders[items[i].order] # None
        BY <1>0, <3>1 DEF TablesInv, KnownLines, Items
      <3> QED
        BY <1>1, <1>5, <3>1, <3>2
    <2> QED
      BY <2>1, <2>2
  <1>8. Defaults'
    BY <1>0, <1>5 DEF Defaults, TablesInv
  <1>9. LinesStay({})
    <2>1. \A i \in Items : items[i] = None /\ items'[i] # None => i > used
      BY <1>2 DEF new
    <2>2. \A i \in Items : items[i] # None /\ items'[i] # None => items'[i].order = items[i].order
      BY <1>2, <1>3
    <2>3. ASSUME NEW p \in Orders, orders[p] # None PROVE SameLines(p)
      BY <1>0, <1>2, <1>3, <2>3 DEF SameLines, LinesOf
    <2> QED
      BY <1>1, <1>5, <2>1, <2>2, <2>3 DEF LinesStay
  <1>10. ASSUME NEW q \in Requests \ {r} PROVE RowsStay(q, {})
    <2>1. \A i \in Items : items[i] # None => items'[i] = items[i]
      BY <1>2, <1>3
    <2> QED
      BY <1>5, <2>1, GetsKnown, EndStep DEF RowsStay, Has, SameParts, SameLinks, Waits
  <1>11. StatusRight'
    <2>1. \A i \in Items : items'[i] # None /\ items'[i].order = o => Shipped(shipments, i) = 0
      BY <1>0, <1>2, <1>3, UnlinkedZero, ShippedZero
    <2>2. NewFormsActive => Status(items', o, shipments) = 0
      BY <1>4, <2>1, StatusUnlinked
    <2>3. NewFormsActive => StatusOf(o, shipments)' = 0
      BY <1>5, <2>2 DEF StatusOf, Status, Active, LinesOf
    <2>4. status[o] = 0
      BY <1>0 DEF TablesInv, Defaults
    <2>5. \A p \in Orders : orders[p] # None => StatusOf(p, shipments)' = StatusOf(p, shipments)
      BY <1>5, <1>9, StatusKept DEF LinesStay, SameParts
    <2> QED
      BY <1>0, <1>5, <2>3, <2>4, <2>5, NoneAssumption DEF StatusRight, StatusUnlessOutrun, TablesInv
  <1> QED
    BY <1>5, <1>6, <1>7, <1>8, <1>9, <1>10, <1>11, LoudStep DEF TablesInv

LEMMA DeleteOrderInv ==
  ASSUME IInv, NEW r \in Requests, NEW o \in Orders, DeleteOrder(r, o)
  PROVE  IInv'
  <1>0. TypeOK /\ TablesInv
    BY DEF IInv, TablesInv
  <1>1. /\ \A p \in Orders \ {o} : orders'[p] = orders[p]
        /\ orders[o] # None /\ orders'[o] = "deleted"
        /\ orders' \in [Orders -> {None, "live", "deleted"}]
    BY <1>0, NoneAssumption DEF DeleteOrder, TypeOK
  <1>2. /\ UNCHANGED <<status, items, used, shipments, edition, lock, stale>>
        /\ End(r, {}) /\ begun' \in 0 .. MaxRequests /\ pc[r] = "idle"
    BY <1>0, BoundsAssumption DEF DeleteOrder, Arrive, TypeOK
  <1>3. TypeOK'
    <2>1. \A p \in Orders : lock'[p] # None => pc'[lock'[p]] = "status"
      BY <1>0, <1>2, EndLocks
    <2> QED
      BY <1>0, <1>1, <1>2, <2>1, EndStep DEF TypeOK, Labels
  <1>4. \A p \in Orders : orders[p] # None <=> orders'[p] # None
    BY <1>1, NoneAssumption
  <1>5. KnownLines' /\ Defaults'
    BY <1>0, <1>2, <1>4 DEF TablesInv, KnownLines, Defaults, TypeOK, Item
  <1>6. LinesStay({})
    BY <1>0, <1>2, <1>4, BoundsAssumption DEF LinesStay, SameLines, TypeOK
  <1>7. \A q \in Requests \ {r} : RowsStay(q, {})
    BY <1>2, GetsKnown, EndStep DEF RowsStay, Has, SameParts, SameLinks, Waits
  <1>8. StatusRight'
    <2>1. \A p \in Orders : StatusOf(p, shipments)' = StatusOf(p, shipments)
      BY <1>2, StatusKept DEF SameLines, SameParts
    <2> QED
      BY <1>0, <1>1, <1>2, <2>1 DEF TablesInv, StatusRight, StatusUnlessOutrun
  <1> QED
    BY <1>2, <1>3, <1>5, <1>6, <1>7, <1>8, LoudStep DEF TablesInv

LEMMA SetStatusStep ==
  ASSUME TypeOK, NEW o \in Orders, NEW value \in 0 .. 2, SetStatus(o, value)
  PROVE  /\ status' \in [Orders -> 0 .. 2] /\ stale' \in [Orders -> BOOLEAN]
         /\ ~stale'[o] /\ (orders[o] = "live" => status'[o] = value)
         /\ orders[o] # "live" => status'[o] = status[o]
         /\ \A p \in Orders \ {o} : status'[p] = status[p] /\ stale'[p] = stale[p]
  <1>1. status' \in [Orders -> 0 .. 2] /\ stale' \in [Orders -> BOOLEAN]
    BY DEF SetStatus, TypeOK
  <1> QED
    BY <1>1 DEF SetStatus, TypeOK

(* The status of o is set to what its lines say after the step.            *)
LEMMA ComputedStep ==
  ASSUME TypeOK, NEW o \in Orders, SetStatus(o, StatusOf(o, shipments)')
  PROVE  /\ status' \in [Orders -> 0 .. 2] /\ stale' \in [Orders -> BOOLEAN]
         /\ ~stale'[o] /\ (orders[o] = "live" => status'[o] = StatusOf(o, shipments)')
         /\ orders[o] # "live" => status'[o] = status[o]
         /\ \A p \in Orders \ {o} : status'[p] = status[p] /\ stale'[p] = stale[p]
  <1> DEFINE value == StatusOf(o, shipments)'
  <1>1. SetStatus(o, value) /\ value \in 0 .. 2
    BY StatusTypeNext
  <1>2. \A v \in 0 .. 2 : SetStatus(o, v) =>
          /\ status' \in [Orders -> 0 .. 2] /\ stale' \in [Orders -> BOOLEAN]
          /\ ~stale'[o] /\ (orders[o] = "live" => status'[o] = v)
          /\ orders[o] # "live" => status'[o] = status[o]
          /\ \A p \in Orders \ {o} : status'[p] = status[p] /\ stale'[p] = stale[p]
    BY SetStatusStep
  <1> HIDE DEF value
  <1>3. /\ status' \in [Orders -> 0 .. 2] /\ stale' \in [Orders -> BOOLEAN]
        /\ ~stale'[o] /\ (orders[o] = "live" => status'[o] = value)
        /\ orders[o] # "live" => status'[o] = status[o]
        /\ \A p \in Orders \ {o} : status'[p] = status[p] /\ stale'[p] = stale[p]
    BY <1>1, <1>2
  <1> QED
    BY <1>3 DEF value

LEMMA StopInv ==
  ASSUME IInv, NEW r \in Requests, NEW o \in Orders, Stop(r, o)
  PROVE  IInv'
  <1> DEFINE stopped == {i \in Active(o) : seen[r].rows[i] # None}
  <1>0. TypeOK /\ TablesInv /\ RequestInv(r)
    BY DEF IInv, TablesInv
  <1>1. /\ pc[r] = "stop" /\ doc[r] = o /\ orders[o] # None
        /\ UNCHANGED <<shipments, begun, orders, used, edition, lock>> /\ End(r, {o})
    BY <1>0 DEF Stop, RequestInv, Private
  <1>2. ASSUME NEW i \in Items
        PROVE  /\ i \in stopped => /\ items[i] # None /\ items[i].order = o
                                   /\ items'[i] \in Item /\ items'[i] # None
                                   /\ items'[i].order = o
               /\ i \notin stopped => items'[i] = items[i]
    <2>1. i \in stopped => items[i] \in Item /\ items[i].order = o /\ items[i] # None
      BY <1>0 DEF TypeOK, Active, LinesOf
    <2>2. items'[i] = IF i \in stopped THEN [items[i] EXCEPT !.stopped = TRUE] ELSE items[i]
      BY DEF Stop
    <2> HIDE DEF stopped
    <2>3. ASSUME i \in stopped PROVE items'[i] \in Item /\ items'[i].order = o
      BY <2>1, <2>2, <2>3 DEF Item
    <2> QED
      BY <2>1, <2>2, <2>3, NoneAssumption
  <1> HIDE DEF stopped
  <1>3. \A i \in Items : /\ items'[i] # None <=> items[i] # None
                         /\ items'[i].order = items[i].order
    BY <1>2
  <1>4. /\ ~stale'[o] /\ (orders[o] = "live" => status'[o] = StatusOf(o, shipments)')
        /\ \A p \in Orders \ {o} : status'[p] = status[p] /\ stale'[p] = stale[p]
        /\ status' \in [Orders -> 0 .. 2] /\ stale' \in [Orders -> BOOLEAN]
    BY <1>0, ComputedStep DEF Stop
  <1>5. TypeOK'
    <2>1. items' \in [Items -> Item \union {None}]
      <3>1. items' = [i \in Items |-> items'[i]]
        BY DEF Stop
      <3> QED
        BY <1>0, <1>2, <3>1 DEF TypeOK
    <2>2. \A s \in Shipments, i \in Items : LinesIn(shipments', s)[i] > 0 => items'[i] # None
      BY <1>0, <1>1, <1>3 DEF TypeOK
    <2>3. \A p \in Orders : lock'[p] # None => pc'[lock'[p]] = "status"
      BY <1>0, <1>1, EndLocks
    <2> QED
      BY <1>0, <1>1, <1>4, <2>1, <2>2, <2>3, EndStep DEF TypeOK, Labels
  <1>6. KnownLines' /\ Defaults'
    BY <1>0, <1>1, <1>3, <1>4 DEF TablesInv, KnownLines, Defaults
  <1>7. LinesStay({o})
    <2>1. \A p \in Orders \ {o} : SameLines(p)
      BY <1>2 DEF SameLines, LinesOf
    <2>2. used' >= used
      BY <1>0, <1>1, BoundsAssumption DEF TypeOK
    <2> QED
      BY <1>1, <1>3, <2>1, <2>2 DEF LinesStay
  <1>8. \A q \in Requests \ {r} : RowsStay(q, {o})
    BY <1>1, <1>3, GetsKnown, EndStep DEF RowsStay, Has, SameParts, SameLinks, Waits
  <1>9. StatusRight'
    <2>1. \A p \in Orders \ {o} : orders[p] # None => StatusOf(p, shipments)' = StatusOf(p, shipments)
      BY <1>1, <1>7, StatusKept DEF LinesStay, SameParts
    <2> QED
      BY <1>0, <1>1, <1>4, <2>1, NoneAssumption DEF StatusRight, StatusUnlessOutrun, TablesInv
  <1> QED
    BY <1>1, <1>5, <1>6, <1>7, <1>8, <1>9, LoudStep DEF TablesInv

(* The order lines a transaction touches are there, and so are its orders. *)
LEMMA TouchesKnown ==
  ASSUME IInv, NEW r \in Requests, pc[r] = "status"
  PROVE  \A i \in Touches(r) :
           i \in Items /\ items[i] # None /\ items[i].order \in OrdersTouched(r)
  <1>0. TypeOK /\ RequestInv(r)
    BY DEF IInv, TablesInv
  <1> SUFFICES ASSUME NEW i \in Touches(r)
               PROVE  i \in Items /\ items[i] # None /\ items[i].order \in OrdersTouched(r)
    OBVIOUS
  <1>1. i \in Items /\ (i \in Has(doc[r]) \/ i \in Gets(r))
    BY DEF Touches, Has, Gets
  <1>2. items[i] # None
    BY <1>0, <1>1, HasKnown, GetsKnown DEF RequestInv, Private, Shipping
  <1>3. items[i].order \in Orders
    BY <1>0, <1>1, <1>2 DEF TypeOK, Item
  <1> QED
    BY <1>1, <1>2, <1>3 DEF OrdersTouched, LinesOf

LEMMA CommitInv ==
  ASSUME IInv, NEW r \in Requests, Commit(r)
  PROVE  IInv'
  <1> DEFINE s == doc[r]
             touched == OrdersTouched(r)
             done == {o \in Orders : written[r][o] # None}
  <1>0. TypeOK /\ TablesInv /\ RequestInv(r) /\ touched \in SUBSET Orders
    BY DEF IInv, TablesInv, OrdersTouched
  <1>1. /\ pc[r] = "status" /\ todo[r] = {} /\ computed[r] = None /\ shipments' = After(r)
        /\ End(r, touched)
        /\ UNCHANGED <<begun, orders, items, used>>
        /\ \A o \in Orders :
             status'[o] = IF o \in done /\ orders[o] = "live" THEN written[r][o] ELSE status[o]
        /\ \A o \in Orders : ~stale'[o] =>
             IF o \in done THEN o \notin outrun[r]
             ELSE ~stale[o] /\ o \notin touched \intersect outrun[r]
    <2>1. stale' = [o \in Orders |->
            IF o \in done THEN o \in outrun[r]
            ELSE stale[o] \/ o \in touched \intersect outrun[r]]
      BY DEF Commit
    <2>2. \A o \in Orders : ~stale'[o] =>
             IF o \in done THEN o \notin outrun[r]
             ELSE ~stale[o] /\ o \notin touched \intersect outrun[r]
      <3> HIDE DEF touched, done
      <3> QED
        BY <1>0, <2>1 DEF TypeOK
    <2> QED
      BY <2>2 DEF Commit
  <1>2. /\ s \in Shipments /\ form[r] \in Lines \union {None}
        /\ form[r] = None => shipments[s] # None
        /\ shipments' = Left(shipments, form[r], s)
    BY <1>0, <1>1, AfterIs DEF RequestInv, Private, Shipping
  <1>3. /\ shipments' \in [Shipments -> Shipment \union {None}]
        /\ \A t \in Shipments \ {s} : shipments'[t] = shipments[t]
        /\ \A t \in Shipments : shipments[t] # None => shipments'[t] # None
        /\ shipments'[s] \in Shipment /\ shipments'[s] # None
        /\ form[r] = None => shipments'[s].lines = shipments[s].lines
        /\ form[r] # None => shipments'[s].lines = form[r]
    <2>1. shipments \in [Shipments -> Shipment \union {None}]
      BY <1>0 DEF TypeOK
    <2> HIDE DEF s
    <2> QED
      BY <1>2, <2>1, LeftParts
  <1>4. ASSUME NEW i \in Items
        PROVE  /\ LinesIn(shipments', s)[i] > 0 => i \in Has(s) \/ i \in Gets(r)
               /\ i \in Has(s) \union Gets(r) => i \in Touches(r)
    <2>1. LinesIn(shipments', s)[i] > 0 => i \in Has(s) \/ i \in Gets(r)
      BY <1>2, <1>3 DEF Has, Gets, LinesIn
    <2> QED
      BY <1>1, <2>1 DEF Has, Gets, Touches
  <1>5. \A i \in Touches(r) : i \in Items /\ items[i] # None /\ items[i].order \in touched
    BY <1>1, TouchesKnown
  <1>6. ASSUME NEW o \in Orders \ touched, NEW i \in LinesOf(o), NEW t \in Shipments
        PROVE  Part(shipments, t, i) = Part(shipments', t, i)
    <2>1. i \in Items /\ i \notin Touches(r)
      BY <1>5 DEF LinesOf
    <2>2. CASE t # s
      BY <1>3, <2>2 DEF Part
    <2>3. CASE t = s
      <3>1. i \notin Has(s) /\ ~(LinesIn(shipments', s)[i] > 0)
        BY <1>4, <2>1
      <3>2. shipments[s] # None => shipments[s].lines[i] = 0
        BY <1>0, <1>2, <2>1, <3>1 DEF Has, LinesIn, TypeOK, Shipment, Lines
      <3>3. shipments'[s].lines[i] = 0
        BY <1>3, <2>1, <3>1 DEF LinesIn, Shipment, Lines
      <3> QED
        BY <2>3, <3>2, <3>3 DEF Part
    <2> QED
      BY <2>2, <2>3
  <1>7. \A o \in Orders \ touched : SameLinks(o)
    <2> SUFFICES ASSUME NEW o \in Orders \ touched, NEW t \in Shipments
                 PROVE  /\ \A i \in LinesOf(o) :
                             LinesIn(shipments', t)[i] = LinesIn(shipments, t)[i]
                        /\ \/ edition'[t] = edition[t]
                           \/ \A i \in LinesOf(o) : LinesIn(shipments, t)[i] = 0
      BY DEF SameLinks
    <2>1. CASE t # s
      BY <1>0, <1>2, <1>3, <2>1 DEF LinesIn, Commit, TypeOK
    <2>2. ASSUME t = s, NEW i \in LinesOf(o)
          PROVE  LinesIn(shipments', t)[i] = 0 /\ LinesIn(shipments, t)[i] = 0
      <3>1. i \in Items /\ i \notin Touches(r)
        BY <1>5 DEF LinesOf
      <3>2. ~(LinesIn(shipments, s)[i] > 0) /\ ~(LinesIn(shipments', s)[i] > 0)
        BY <1>4, <3>1 DEF Has
      <3>3. LinesIn(shipments, s)[i] \in Nat /\ LinesIn(shipments', s)[i] \in Nat
        BY <1>0, <1>2, <1>3, <3>1 DEF LinesIn, NoLines, TypeOK, Shipment, Lines
      <3> QED
        BY <2>2, <3>2, <3>3
    <2> QED
      BY <2>1, <2>2
  <1> HIDE DEF touched, s
  <1>8. TypeOK'
    <2>1. \A t \in Shipments, i \in Items : LinesIn(shipments', t)[i] > 0 => items'[i] # None
      <3> SUFFICES ASSUME NEW t \in Shipments, NEW i \in Items, LinesIn(shipments', t)[i] > 0
                   PROVE  items[i] # None
        BY <1>1
      <3>1. CASE t # s
        BY <1>0, <1>3, <3>1 DEF LinesIn, TypeOK
      <3>2. CASE t = s
        BY <1>4, <1>5, <3>2
      <3> QED
        BY <3>1, <3>2
    <2>2. \A o \in Orders : written[r][o] \in (0 .. 2) \union {None}
      BY <1>0 DEF TypeOK
    <2>3. status' \in [Orders -> 0 .. 2]
      <3>1. \A o \in Orders : status'[o] \in 0 .. 2
        BY <1>0, <1>1, <2>2 DEF TypeOK
      <3>2. status' = [o \in Orders |-> status'[o]]
        BY DEF Commit
      <3> QED
        BY <3>1, <3>2
    <2>4. stale' \in [Orders -> BOOLEAN]
      <3>1. \A o \in Orders : (o \in outrun[r]) \in BOOLEAN
                              /\ (stale[o] \/ o \in touched \intersect outrun[r]) \in BOOLEAN
        OBVIOUS
      <3>2. stale' = [o \in Orders |->
              IF o \in done THEN o \in outrun[r]
              ELSE stale[o] \/ o \in touched \intersect outrun[r]]
        BY DEF Commit, touched
      <3> HIDE DEF done
      <3> QED
        BY <3>1, <3>2
    <2>5. /\ lock' \in [Orders -> Requests \union {None}]
          /\ \A o \in Orders : lock'[o] # None => pc'[lock'[o]] = "status"
      <3>1. \A q \in Requests \ {r} : pc'[q] = pc[q]
        BY <1>0, <1>1 DEF End, Goto, TypeOK
      <3> QED
        BY <1>0, <3>1, NoneAssumption DEF Commit, TypeOK
    <2>6. edition' \in [Shipments -> Nat]
      BY <1>0, <1>2 DEF Commit, TypeOK, s
    <2> QED
      BY <1>0, <1>1, <1>3, <2>1, <2>3, <2>4, <2>5, <2>6, EndStep DEF TypeOK, Labels
  <1>9. KnownLines' /\ Defaults'
    BY <1>0, <1>1, NoneAssumption DEF TablesInv, KnownLines, Defaults
  <1>10. LinesStay(touched)
    BY <1>0, <1>1, BoundsAssumption DEF LinesStay, SameLines, TypeOK
  <1>11. ASSUME NEW q \in Requests \ {r} PROVE RowsStay(q, touched)
    <2>1. ASSUME pc[q] = "status" PROVE shipments'[doc[q]] = shipments[doc[q]]
      BY <1>1, <1>3, <2>1 DEF IInv, Apart, RequestInv, Private, Shipping, s
    <2>2. doc'[q] = doc[q]
      BY <1>0, <1>1, EndStep DEF Waits
    <2>3. ASSUME Shipping(q), NEW i \in Items, LinesIn(shipments', doc[q])[i] > 0, i \notin Has(doc[q])
          PROVE  items[i].order \in touched
      <3>1. doc[q] \in Shipments
        BY <2>3 DEF IInv, RequestInv, Private
      <3>2. doc[q] = s
        BY <1>3, <2>3, <3>1 DEF Has, LinesIn
      <3> QED
        BY <1>4, <1>5, <2>3, <3>2
    <2>4. Shipping(q) => \A i \in Has(doc[q])' : i \in Has(doc[q]) \/ items'[i].order \in touched
      BY <1>1, <2>2, <2>3 DEF Has
    <2>5. pc[q] = "status" => \A i \in Gets(q) : items'[i] # None
      BY <1>1, GetsKnown
    <2> QED
      BY <1>3, <1>6, <1>7, <2>1, <2>4, <2>5 DEF RowsStay, SameParts
  <1>12. StatusRight'
    <2> SUFFICES ASSUME NewFormsActive, NEW o \in Orders, orders[o] = "live", ~stale'[o]
                 PROVE  status'[o] = StatusOf(o, shipments)'
      BY <1>1 DEF StatusRight, StatusUnlessOutrun
    <2>1. CASE o \in done
      <3>1. o \notin outrun[r] /\ status'[o] = written[r][o]
        BY <1>1, <2>1
      <3>2. written[r][o] = StatusOf(o, After(r))
        BY <1>0, <1>1, <2>1, <3>1 DEF RequestInv, Right
      <3>3. StatusOf(o, shipments)' = StatusOf(o, After(r))
        BY <1>1 DEF StatusOf, Active, LinesOf
      <3> QED
        BY <3>1, <3>2, <3>3
    <2>2. CASE o \notin done
      <3>1. ~stale[o] /\ status'[o] = status[o] /\ o \notin touched \intersect outrun[r]
        BY <1>1, <2>2
      <3>2. o \notin touched
        BY <1>0, <1>1, <2>2, <3>1 DEF RequestInv, Covers, touched
      <3>3. StatusOf(o, shipments)' = StatusOf(o, shipments)
        BY <1>1, <1>6, <3>2, StatusKept DEF SameLines, SameParts
      <3> QED
        BY <1>0, <3>1, <3>3 DEF TablesInv, StatusRight, StatusUnlessOutrun
    <2> QED
      BY <2>1, <2>2
  <1> QED
    BY <1>0, <1>1, <1>8, <1>9, <1>10, <1>11, <1>12, LoudStep DEF TablesInv

(* The lines of shipment s after an edit: nothing stays linked to the      *)
(* lines that were active, and only the new ones gain what those had.      *)
New(i, kept) == i > used /\ i <= used + Len(kept)

LEMMA RelinkedIs ==
  ASSUME IInv, NEW r \in Requests, pc[r] = "rewrite", NEW s \in Shipments,
         NEW kept \in Seq(FormLine)
  PROVE  /\ Relinked(r, s, kept) \in Lines
         /\ \A i \in Rows(r) : ~New(i, kept) /\ Relinked(r, s, kept)[i] = 0
         /\ \A i \in Items \ Rows(r) :
              ~New(i, kept) => Relinked(r, s, kept)[i] = LinesIn(shipments, s)[i]
         /\ (\A i \in Items : seen[r].links[s][i] = 0)
              => \A i \in Items : New(i, kept) =>
                   Relinked(r, s, kept)[i] \in {0, LinesIn(shipments, s)[i]}
  <1> DEFINE last(p) == used + Max({k \in DOMAIN kept : kept[k].product = p})
             isLast(i) == i - used \in DOMAIN kept /\ i = last(kept[i - used].product)
             from(i) == {j \in Items : /\ seen[r].rows[j] # None
                                       /\ seen[r].rows[j].product = kept[i - used].product
                                       /\ seen[r].edition[s] = edition[s]}
             moved(i) == SumFunctionOnSet(seen[r].links[s], from(i))
             lines == [i \in Items |->
                         IF isLast(i) THEN moved(i)
                         ELSE IF seen[r].rows[i] # None THEN 0
                         ELSE LinesIn(shipments, s)[i]]
  <1>0. TypeOK /\ RequestInv(r)
    BY DEF IInv, TablesInv
  <1>1. Relinked(r, s, kept) = lines
    BY DEF Relinked
  <1>2. /\ seen[r].links[s] \in [Items -> Nat]
        /\ \A i \in Items : LinesIn(shipments, s)[i] \in Nat
    <2>1. shipments[s] # None => shipments[s].lines \in [Items -> Nat]
      BY <1>0 DEF TypeOK, Shipment, Lines
    <2>2. \A i \in Items : LinesIn(shipments, s)[i] \in Nat
      BY <2>1 DEF LinesIn, NoLines
    <2>3. seen[r] \in Reading
      BY <1>0 DEF TypeOK
    <2> QED
      BY <2>2, <2>3 DEF Reading, Lines
  <1>3. ASSUME NEW i \in Items
        PROVE  /\ moved(i) \in Nat
               /\ (\A j \in Items : seen[r].links[s][j] = 0) => moved(i) = 0
    <2>1. IsFiniteSet(Items)
      BY FS_Interval, BoundsAssumption DEF Items
    <2>2. from(i) \subseteq Items
      OBVIOUS
    <2>3. IsFiniteSet(from(i))
      BY <2>1, <2>2, FS_Subset
    <2> DEFINE T == from(i)
               F == seen[r].links[s]
    <2>4. /\ IsFiniteSet(T) /\ \A j \in T : F[j] \in Nat
          /\ (\A j \in Items : F[j] = 0) => \A j \in T : F[j] = 0
      BY <1>2, <2>2, <2>3
    <2> HIDE DEF T, F
    <2>5. SumFunctionOnSet(F, T) \in Nat
      BY <2>4, SumNat
    <2>6. (\A j \in Items : F[j] = 0) => SumFunctionOnSet(F, T) = 0
      BY <2>4, SumZero
    <2> QED
      BY <2>5, <2>6 DEF T, F
  <1> HIDE DEF moved
  <1>4. ASSUME NEW i \in Items
        PROVE  /\ isLast(i) => New(i, kept)
               /\ i \in Rows(r) => ~New(i, kept)
    <2>1. used \in Nat /\ i \in Nat /\ Len(kept) \in Nat /\ DOMAIN kept = 1 .. Len(kept)
      BY <1>0, BoundsAssumption DEF TypeOK, Items
    <2>2. isLast(i) => i - used \in 1 .. Len(kept)
      BY <2>1
    <2>3. i \in Rows(r) => i <= used
      BY <1>0 DEF RequestInv, RowsKnown
    <2> HIDE DEF isLast
    <2> QED
      BY <2>1, <2>2, <2>3 DEF New
  <1> HIDE DEF isLast
  <1>5. \A i \in Items : lines[i] = IF isLast(i) THEN moved(i)
                                    ELSE IF i \in Rows(r) THEN 0
                                    ELSE LinesIn(shipments, s)[i]
    BY DEF Rows
  <1>6. lines \in Lines
    BY <1>2, <1>3 DEF Lines
  <1> HIDE DEF lines
  <1> QED
    BY <1>1, <1>3, <1>4, <1>5, <1>6 DEF Rows

KeptBy(r) == Kept(form[r], seen[r].stopped)

(* What an edit leaves of each line, and of what is linked to it.          *)
LEMMA RewriteStep ==
  ASSUME IInv, NEW r \in Requests, NEW o \in Orders, RewriteOrder(r, o)
  PROVE  /\ pc[r] = "rewrite" /\ doc[r] = o /\ orders[o] # None /\ KeptBy(r) \in Seq(FormLine)
         /\ used \in Nat /\ Len(KeptBy(r)) \in Nat /\ used' = used + Len(KeptBy(r))
         /\ used' <= MaxItems
         /\ \A i \in Active(o) : i \in Rows(r)
         /\ \A i \in Rows(r) : items[i] # None => items[i].order = o
         /\ \A i \in Items :
              /\ items[i] # None => ~New(i, KeptBy(r))
              /\ i \in Active(o) => items'[i] = None
              /\ i \in LinesOf(o) \ Active(o) \/ New(i, KeptBy(r)) =>
                   items'[i] \in Item /\ items'[i].order = o /\ items'[i] # None
              /\ i \in LinesOf(o) \ Active(o) => items'[i].stopped
              /\ i \in LinesOf(o) \ Active(o) /\ i \notin Rows(r) => items'[i] = items[i]
              /\ i \notin LinesOf(o) => items'[i] = NewItems(o, KeptBy(r))[i]
              /\ i \notin LinesOf(o) /\ ~New(i, KeptBy(r)) => items'[i] = items[i]
         /\ \A s \in Shipments :
              /\ Relinked(r, s, KeptBy(r)) \in Lines
              /\ \A i \in Rows(r) : Relinked(r, s, KeptBy(r))[i] = 0
              /\ \A i \in Items \ Rows(r) : ~New(i, KeptBy(r)) =>
                   Relinked(r, s, KeptBy(r))[i] = LinesIn(shipments, s)[i]
              /\ (\A i \in Items : seen[r].links[s][i] = 0)
                   => \A i \in Items : New(i, KeptBy(r)) =>
                        Relinked(r, s, KeptBy(r))[i] \in {0, LinesIn(shipments, s)[i]}
         /\ shipments' \in [Shipments -> Shipment \union {None}]
         /\ \A s \in Shipments :
              /\ shipments[s] = None => shipments'[s] = None
              /\ shipments[s] # None =>
                   /\ shipments'[s] = [shipments[s] EXCEPT !.lines = Relinked(r, s, KeptBy(r))]
                   /\ shipments'[s] # None /\ shipments'[s].lines = Relinked(r, s, KeptBy(r))
                   /\ shipments'[s].live = shipments[s].live
  <1> DEFINE kept == KeptBy(r)
             new(i) == New(i, kept)
             lines(s) == Relinked(r, s, kept)
  <1>0. TypeOK /\ TablesInv /\ RequestInv(r)
    BY DEF IInv, TablesInv
  <1>1. pc[r] = "rewrite" /\ doc[r] = o /\ orders[o] # None /\ kept \in Seq(FormLine)
    BY <1>0, FormsAssumption, KeptType DEF RewriteOrder, RequestInv, Private, KeptBy
  <1>2. used \in Nat /\ Len(kept) \in Nat /\ used + Len(kept) <= MaxItems /\ used' = used + Len(kept)
    BY <1>0, <1>1, BoundsAssumption DEF TypeOK, RewriteOrder, KeptBy
  <1>3. /\ \A i \in Active(o) : i \in Rows(r)
        /\ \A i \in Rows(r) : items[i] # None => items[i].order = o
    BY <1>0, <1>1 DEF RewriteOrder, RequestInv, RowsKnown, Rows, Active, LinesOf
  <1>4. ASSUME NEW i \in Items
        PROVE  /\ items[i] # None => ~new(i)
               /\ i \in Active(o) => items'[i] = None
               /\ i \in LinesOf(o) \ Active(o) \/ new(i) =>
                    items'[i] \in Item /\ items'[i].order = o /\ items'[i] # None
               /\ i \in LinesOf(o) \ Active(o) => items'[i].stopped
               /\ i \in LinesOf(o) \ Active(o) /\ i \notin Rows(r) => items'[i] = items[i]
               /\ i \notin LinesOf(o) => items'[i] = NewItems(o, kept)[i]
               /\ i \notin LinesOf(o) /\ ~new(i) => items'[i] = items[i]
    <2>1. i \in Nat /\ (items[i] # None => i <= used)
      BY <1>0 DEF Items, TablesInv, KnownLines
    <2>2. items[i] # None => ~new(i)
      BY <1>2, <2>1 DEF New
    <2>3. \A l \in Seq(FormLine) :
            /\ New(i, l) => /\ NewItems(o, l)[i] \in Item /\ NewItems(o, l)[i].order = o
                            /\ NewItems(o, l)[i] # None
            /\ ~New(i, l) => NewItems(o, l)[i] = items[i]
      BY <1>0, NewLines DEF New
    <2>4. items'[i] = CASE i \in Active(o) -> None
                        [] i \in LinesOf(o) \ Active(o) /\ i \in Rows(r) -> [items[i] EXCEPT !.qty = 0]
                        [] OTHER -> NewItems(o, kept)[i]
      BY DEF RewriteOrder, Rows, KeptBy
    <2>5. i \in LinesOf(o) => items[i] \in Item /\ items[i] # None /\ items[i].order = o
      BY <1>0 DEF LinesOf, TypeOK
    <2>6. i \in LinesOf(o) => /\ [items[i] EXCEPT !.qty = 0] \in Item
                              /\ [items[i] EXCEPT !.qty = 0].order = o
                              /\ [items[i] EXCEPT !.qty = 0].stopped = items[i].stopped
      BY <2>5 DEF Item
    <2>7. /\ Active(o) \subseteq LinesOf(o)
          /\ i \in LinesOf(o) \ Active(o) => items[i].stopped
      BY DEF Active
    <2> HIDE DEF kept
    <2>8. /\ new(i) => /\ NewItems(o, kept)[i] \in Item /\ NewItems(o, kept)[i].order = o
                       /\ NewItems(o, kept)[i] # None
          /\ ~new(i) => NewItems(o, kept)[i] = items[i]
      BY <1>1, <2>3
    <2> HIDE DEF new
    <2>9. i \in Active(o) => items'[i] = None
      BY <2>4
    <2>10. ASSUME i \in LinesOf(o) \ Active(o)
           PROVE  /\ items'[i] \in Item /\ items'[i].order = o /\ items'[i] # None
                  /\ items'[i].stopped /\ (i \notin Rows(r) => items'[i] = items[i])
      <3>1. CASE i \in Rows(r)
        <4>1. items'[i] = [items[i] EXCEPT !.qty = 0]
          BY <2>4, <2>10, <3>1
        <4> QED
          BY <2>6, <2>7, <2>10, <3>1, <4>1, NoneAssumption
      <3>2. CASE i \notin Rows(r)
        <4>1. items'[i] = items[i]
          BY <2>2, <2>4, <2>5, <2>8, <2>10, <3>2
        <4> QED
          BY <2>5, <2>7, <2>10, <4>1
      <3> QED
        BY <3>1, <3>2
    <2>11. i \notin LinesOf(o) => items'[i] = NewItems(o, kept)[i]
      BY <2>4, <2>7
    <2> QED
      BY <2>2, <2>5, <2>8, <2>9, <2>10, <2>11
  <1>5. ASSUME NEW s \in Shipments
        PROVE  /\ lines(s) \in Lines
               /\ \A i \in Rows(r) : lines(s)[i] = 0
               /\ \A i \in Items \ Rows(r) : ~new(i) => lines(s)[i] = LinesIn(shipments, s)[i]
               /\ (\A i \in Items : seen[r].links[s][i] = 0)
                    => \A i \in Items : new(i) => lines(s)[i] \in {0, LinesIn(shipments, s)[i]}
    BY <1>1, RelinkedIs
  <1>6. /\ shipments' \in [Shipments -> Shipment \union {None}]
        /\ \A s \in Shipments :
             /\ shipments[s] = None => shipments'[s] = None
             /\ shipments[s] # None =>
                  /\ shipments'[s] = [shipments[s] EXCEPT !.lines = lines(s)]
                  /\ shipments'[s] # None /\ shipments'[s].lines = lines(s)
                  /\ shipments'[s].live = shipments[s].live
    <2>1. shipments' = [s \in Shipments |->
            IF shipments[s] = None THEN None ELSE [shipments[s] EXCEPT !.lines = lines(s)]]
      BY DEF RewriteOrder, KeptBy
    <2> HIDE DEF lines
    <2>2. \A s \in Shipments : shipments[s] # None =>
            /\ [shipments[s] EXCEPT !.lines = lines(s)] \in Shipment
            /\ [shipments[s] EXCEPT !.lines = lines(s)].lines = lines(s)
            /\ [shipments[s] EXCEPT !.lines = lines(s)].live = shipments[s].live
      <3>1. \A row \in Shipment, l \in Lines :
              /\ [row EXCEPT !.lines = l] \in Shipment
              /\ [row EXCEPT !.lines = l].lines = l
              /\ [row EXCEPT !.lines = l].live = row.live
        BY DEF Shipment
      <3>2. \A s \in Shipments : shipments[s] # None => shipments[s] \in Shipment
        BY <1>0 DEF TypeOK
      <3> QED
        BY <1>5, <3>1, <3>2
    <2> QED
      BY <2>1, <2>2, NoneAssumption
  <1> HIDE DEF kept, new, lines
  <1>7. used' <= MaxItems
    BY <1>2
  <1> QED
    BY <1>1, <1>2, <1>3, <1>4, <1>5, <1>6, <1>7 DEF kept, new, lines

LEMMA RewriteOrderInv ==
  ASSUME IInv, NEW r \in Requests, NEW o \in Orders, RewriteOrder(r, o)
  PROVE  IInv'
  <1> DEFINE kept == KeptBy(r)
             new(i) == New(i, kept)
             lines(s) == Relinked(r, s, kept)
  <1>0. TypeOK /\ TablesInv /\ RequestInv(r)
    BY DEF IInv, TablesInv
  <1>1. /\ pc[r] = "rewrite" /\ doc[r] = o /\ orders[o] # None /\ kept \in Seq(FormLine)
        /\ UNCHANGED <<begun, orders, edition, lock>> /\ End(r, {o})
    BY RewriteStep DEF RewriteOrder
  <1>2. used \in Nat /\ Len(kept) \in Nat /\ used' <= MaxItems /\ used' = used + Len(kept)
    BY RewriteStep
  <1>3. /\ \A i \in Active(o) : i \in Rows(r)
        /\ \A i \in Rows(r) : items[i] # None => items[i].order = o
    BY RewriteStep
  <1>4. ASSUME NEW i \in Items
        PROVE  /\ items[i] # None => ~new(i)
               /\ i \in Active(o) => items'[i] = None
               /\ i \in LinesOf(o) \ Active(o) \/ new(i) =>
                    items'[i] \in Item /\ items'[i].order = o /\ items'[i] # None
               /\ i \notin LinesOf(o) /\ ~new(i) => items'[i] = items[i]
    BY RewriteStep
  <1>5. ASSUME NEW s \in Shipments
        PROVE  /\ lines(s) \in Lines
               /\ \A i \in Rows(r) : lines(s)[i] = 0
               /\ \A i \in Items \ Rows(r) : ~new(i) => lines(s)[i] = LinesIn(shipments, s)[i]
               /\ (\A i \in Items : seen[r].links[s][i] = 0)
                    => \A i \in Items : new(i) => lines(s)[i] \in {0, LinesIn(shipments, s)[i]}
    BY RewriteStep
  <1>6. /\ shipments' \in [Shipments -> Shipment \union {None}]
        /\ \A s \in Shipments :
             /\ shipments[s] = None => shipments'[s] = None
             /\ shipments[s] # None =>
                  /\ shipments'[s] = [shipments[s] EXCEPT !.lines = lines(s)]
                  /\ shipments'[s] # None /\ shipments'[s].lines = lines(s)
                  /\ shipments'[s].live = shipments[s].live
    BY RewriteStep
  <1>7. ASSUME NEW s \in Shipments, NEW i \in Items
        PROVE  /\ i \in Rows(r) => ~(LinesIn(shipments', s)[i] > 0)
               /\ i \notin Rows(r) /\ ~new(i) => LinesIn(shipments', s)[i] = LinesIn(shipments, s)[i]
    <2> HIDE DEF lines, new
    <2> QED
      BY <1>5, <1>6 DEF LinesIn, NoLines
  <1>8. \A i \in LinesOf(o) : i \in Items /\ items[i] # None /\ items[i].order = o
    BY DEF LinesOf
  <1>9. \A i \in Items : items[i] # None /\ items[i].order = o => i \in LinesOf(o)
    BY DEF LinesOf
  <1> HIDE DEF kept, new, lines
  <1>10. /\ ~stale'[o] /\ (orders[o] = "live" => status'[o] = StatusOf(o, shipments)')
         /\ \A p \in Orders \ {o} : status'[p] = status[p] /\ stale'[p] = stale[p]
         /\ status' \in [Orders -> 0 .. 2] /\ stale' \in [Orders -> BOOLEAN]
    BY <1>0, ComputedStep DEF RewriteOrder
  <1>11. TypeOK'
    <2>1. items' \in [Items -> Item \union {None}]
      <3>1. items' = [i \in Items |-> items'[i]]
        BY DEF RewriteOrder
      <3>2. \A i \in Items : items'[i] \in Item \union {None}
        BY <1>0, <1>4 DEF TypeOK
      <3> QED
        BY <3>1, <3>2
    <2>2. ASSUME NEW s \in Shipments, NEW i \in Items, LinesIn(shipments', s)[i] > 0
          PROVE  items'[i] # None
      <3>1. i \notin Rows(r)
        BY <1>7, <2>2
      <3>2. ~new(i) => items[i] # None
        BY <1>0, <1>7, <2>2, <3>1 DEF TypeOK
      <3> QED
        BY <1>3, <1>4, <3>1, <3>2
    <2>3. \A p \in Orders : lock'[p] # None => pc'[lock'[p]] = "status"
      BY <1>0, <1>1, EndLocks
    <2>4. used' \in 0 .. MaxItems
      BY <1>2, BoundsAssumption
    <2> QED
      BY <1>0, <1>1, <1>6, <1>10, <2>1, <2>2, <2>3, <2>4, EndStep DEF TypeOK, Labels
  <1>12. KnownLines'
    <2> SUFFICES ASSUME NEW i \in Items, items'[i] # None
                 PROVE  i <= used' /\ orders'[items'[i].order] # None
      BY DEF KnownLines
    <2>1. i \in Nat /\ (items[i] # None => i <= used /\ orders[items[i].order] # None)
      BY <1>0 DEF Items, TablesInv, KnownLines
    <2>2. new(i) => i <= used'
      BY <1>2 DEF new, New
    <2>3. i \in LinesOf(o) \/ new(i) => items'[i].order = o
      BY <1>4
    <2>4. i \notin LinesOf(o) /\ ~new(i) => items'[i] = items[i]
      BY <1>4
    <2>5. i \in LinesOf(o) => i <= used
      BY <1>8, <2>1
    <2> QED
      BY <1>1, <1>2, <2>1, <2>2, <2>3, <2>4, <2>5
  <1>13. Defaults'
    BY <1>0, <1>1, <1>10 DEF Defaults, TablesInv
  <1>14. LinesStay({o})
    <2>1. \A i \in Items : items[i] = None /\ items'[i] # None => i > used
      BY <1>4, <1>8 DEF new, New
    <2>2. ASSUME NEW i \in Items, items[i] # None, items'[i] # None
          PROVE  items'[i].order = items[i].order
      BY <1>4, <1>8, <2>2
    <2>3. ASSUME NEW p \in Orders \ {o} PROVE SameLines(p)
      <3> SUFFICES ASSUME NEW i \in Items, items'[i] # items[i]
                   PROVE  i \notin LinesOf(p) /\ i \notin LinesOf(p)'
        BY DEF SameLines
      <3>1. i \in LinesOf(o) \/ new(i)
        BY <1>4
      <3> QED
        BY <1>4, <1>8, <3>1 DEF LinesOf
    <2> QED
      BY <1>1, <1>2, <2>1, <2>2, <2>3 DEF LinesStay
  <1>15. \A p \in Orders \ {o} : SameParts(p) /\ SameLinks(p)
    <2> SUFFICES ASSUME NEW p \in Orders \ {o}, NEW i \in LinesOf(p), NEW s \in Shipments
                 PROVE  /\ Part(shipments, s, i) = Part(shipments', s, i)
                        /\ LinesIn(shipments', s)[i] = LinesIn(shipments, s)[i]
      BY <1>1 DEF SameParts, SameLinks
    <2>1. i \in Items /\ i \notin Rows(r) /\ ~new(i)
      BY <1>3, <1>4 DEF LinesOf
    <2>2. LinesIn(shipments', s)[i] = LinesIn(shipments, s)[i]
      BY <1>7, <2>1
    <2> QED
      BY <1>6, <2>2 DEF Part, LinesIn
  <1>16. ASSUME NEW q \in Requests \ {r} PROVE RowsStay(q, {o})
    <2>1. doc'[q] = doc[q]
      BY <1>1, EndStep DEF Waits
    <2>2. ASSUME Shipping(q), NEW i \in Items, LinesIn(shipments', doc[q])[i] > 0
          PROVE  i \in Has(doc[q]) \/ items'[i].order = o
      <3>1. doc[q] \in Shipments
        BY <2>2 DEF IInv, RequestInv, Private
      <3>2. i \notin Rows(r)
        BY <1>7, <2>2, <3>1
      <3>3. ~new(i) => LinesIn(shipments, doc[q])[i] > 0
        BY <1>7, <2>2, <3>1, <3>2
      <3> QED
        BY <1>4, <3>3 DEF Has
    <2>3. ASSUME pc[q] = "status", form[q] # None
          PROVE  /\ doc[q] \in Shipments
                 /\ \A i \in Items : seen[r].links[doc[q]][i] = 0
                 /\ \A i \in Rows(r) : i \notin Touches(q)
      <3>1. doc[q] \in Shipments
        BY <2>3 DEF IInv, RequestInv, Private, Shipping
      <3>2. ~Obstructs(q, r)
        BY DEF RewriteOrder
      <3>3. \A i \in Items : ~(seen[r].links[doc[q]][i] > 0)
        BY <2>3, <3>2 DEF Obstructs
      <3>4. \A i \in Items : seen[r].links[doc[q]][i] \in Nat
        BY <1>0, <3>1 DEF TypeOK, Reading, Lines
      <3>5. \A i \in Rows(r) : i \notin Touches(q)
        BY <2>3, <3>2 DEF Obstructs, Rows
      <3> QED
        BY <3>1, <3>3, <3>4, <3>5
    <2>4. ASSUME pc[q] = "status", form[q] # None PROVE shipments'[doc[q]] = shipments[doc[q]]
      <3> DEFINE s == doc[q]
      <3>1. s \in Shipments
        BY <2>3, <2>4
      <3> SUFFICES ASSUME shipments[s] # None PROVE shipments'[s] = shipments[s]
        BY <1>6, <3>1
      <3>2. shipments[s] \in Shipment /\ LinesIn(shipments, s) = shipments[s].lines
        BY <1>0, <3>1 DEF TypeOK, LinesIn
      <3>3. shipments[s].lines \in [Items -> Nat]
        BY <3>2 DEF Shipment, Lines
      <3>4. ASSUME NEW i \in Items PROVE lines(s)[i] = shipments[s].lines[i]
        <4>1. CASE i \in Rows(r)
          <5>1. i \notin Touches(q) /\ lines(s)[i] = 0
            BY <1>5, <2>3, <2>4, <3>1, <4>1
          <5> QED
            BY <2>4, <3>2, <3>3, <5>1 DEF Touches
        <4>2. CASE i \notin Rows(r) /\ ~new(i)
          BY <1>5, <3>1, <3>2, <4>2
        <4>3. CASE new(i)
          <5>1. ~(LinesIn(shipments, s)[i] > 0)
            BY <1>0, <1>4, <3>1, <4>3 DEF TypeOK
          <5>2. lines(s)[i] \in {0, LinesIn(shipments, s)[i]}
            BY <1>5, <2>3, <2>4, <3>1, <4>3
          <5> QED
            BY <3>2, <3>3, <5>1, <5>2
        <4> QED
          BY <4>1, <4>2, <4>3
      <3>5. lines(s) \in [Items -> Nat]
        BY <1>5, <3>1 DEF Lines
      <3>6. lines(s) = shipments[s].lines
        BY <3>3, <3>4, <3>5
      <3>7. shipments'[s] = [shipments[s] EXCEPT !.lines = shipments[s].lines]
        BY <1>6, <3>1, <3>6
      <3> QED
        BY <3>2, <3>7 DEF Shipment
    <2>5. ASSUME pc[q] = "status", NEW i \in Gets(q) PROVE items'[i] # None
      <3>1. i \in Items /\ items[i] # None /\ form[q] # None /\ i \in Touches(q)
        BY <2>5, GetsKnown DEF Gets, Touches
      <3>2. i \notin Active(o)
        BY <1>3, <2>3, <2>5, <3>1
      <3> QED
        BY <1>4, <3>1, <3>2
    <2>6. Shipping(q) => \A i \in Has(doc[q])' : i \in Has(doc[q]) \/ items'[i].order \in {o}
      BY <2>1, <2>2 DEF Has
    <2> QED
      BY <1>6, <1>15, <2>4, <2>5, <2>6 DEF RowsStay
  <1>17. StatusRight'
    <2>1. \A p \in Orders \ {o} : orders[p] # None => StatusOf(p, shipments)' = StatusOf(p, shipments)
      BY <1>14, <1>15, StatusKept DEF LinesStay
    <2> QED
      BY <1>0, <1>1, <1>10, <2>1, NoneAssumption DEF StatusRight, StatusUnlessOutrun, TablesInv
  <1> QED
    BY <1>1, <1>11, <1>12, <1>13, <1>14, <1>16, <1>17, LoudStep DEF TablesInv

(***************************************************************************)
(* The invariant holds, and so do its parts.                               *)
(***************************************************************************)
LEMMA InitInv == Init => IInv
  <1> SUFFICES ASSUME Init PROVE IInv
    OBVIOUS
  <1>1. TypeOK
    <2>1. \A s \in Shipments, i \in Items : ~(LinesIn(shipments, s)[i] > 0)
      BY DEF Init, LinesIn, NoLines
    <2>2. 0 \in 0 .. MaxItems /\ 0 \in 0 .. MaxRequests
      BY BoundsAssumption
    <2>3. Unwritten \in [Orders -> (0 .. 2) \union {None}]
      BY DEF Unwritten
    <2>4. seen \in [Requests -> Reading]
      BY NothingType DEF Init
    <2>5. written \in [Requests -> [Orders -> (0 .. 2) \union {None}]]
      BY <2>3 DEF Init
    <2> HIDE DEF Unwritten, Nothing
    <2>6. /\ begun \in 0 .. MaxRequests /\ used \in 0 .. MaxItems
          /\ orders \in [Orders -> {None, "live", "deleted"}] /\ status \in [Orders -> 0 .. 2]
          /\ items \in [Items -> Item \union {None}]
          /\ shipments \in [Shipments -> Shipment \union {None}]
          /\ edition \in [Shipments -> Nat]
      BY <2>2 DEF Init
    <2>7. /\ lock \in [Orders -> Requests \union {None}] /\ \A o \in Orders : lock[o] = None
          /\ doc \in [Requests -> Orders \union Shipments \union {None}]
          /\ form \in [Requests -> EditForms \union Lines \union {None}]
          /\ computed \in [Requests -> Computed \union {None}]
          /\ todo \in [Requests -> SUBSET Orders] /\ outrun \in [Requests -> SUBSET Orders]
          /\ stale \in [Orders -> BOOLEAN]
          /\ pc \in [Requests -> Labels]
      BY DEF Init, Labels
    <2> QED
      BY <2>1, <2>4, <2>5, <2>6, <2>7 DEF TypeOK, Labels
  <1>2. KnownLines /\ Defaults /\ StatusRight
    BY NoneAssumption DEF Init, KnownLines, Defaults, StatusRight, StatusUnlessOutrun
  <1>3. Apart
    BY DEF Init, Apart
  <1>4. \A r \in Requests : RequestInv(r)
    BY DEF Init, RequestInv, Private, RowsKnown, Covers, Right, Created, Fresh, Shipping
  <1> QED
    BY <1>1, <1>2, <1>3, <1>4 DEF IInv, TablesInv

LEMMA StutterInv == IInv /\ UNCHANGED vars => IInv'
  <1> SUFFICES ASSUME IInv, UNCHANGED vars PROVE IInv'
    OBVIOUS
  <1> USE DEF vars, tables, private
  <1>1. TypeOK' /\ KnownLines' /\ Defaults'
    BY DEF IInv, TablesInv, TypeOK, KnownLines, Defaults
  <1>2. \A o : StatusOf(o, shipments)' = StatusOf(o, shipments)
    BY StatusKept DEF SameLines, SameParts
  <1>3. StatusRight'
    BY <1>2 DEF IInv, TablesInv, StatusRight, StatusUnlessOutrun
  <1>4. Apart'
    BY DEF IInv, Apart
  <1>5. ASSUME NEW q \in Requests PROVE RequestInv(q)'
    <2>1. LinesStay({})
      BY BoundsAssumption DEF LinesStay, SameLines, IInv, TablesInv, TypeOK
    <2>2. RowsStay(q, {})
      BY GetsKnown DEF RowsStay, SameParts, SameLinks, Has
    <2>3. Waits(q, {})
      BY DEF Waits
    <2> QED
      BY <1>1, <2>1, <2>2, <2>3, Bystander
  <1> QED
    BY <1>1, <1>3, <1>4, <1>5 DEF IInv, TablesInv

LEMMA NextInv == IInv /\ [Next]_vars => IInv'
  <1> SUFFICES ASSUME IInv, [Next]_vars PROVE IInv'
    OBVIOUS
  <1>1. ASSUME NEW r \in Requests, NEW o \in Orders,
               \/ \E lines \in NewForms : CreateOrder(r, o, lines)
               \/ \E lines \in EditForms : BeginUpdateOrder(r, o, lines)
               \/ DeleteOrder(r, o)
               \/ \E products \in SUBSET Products \ {{}} : BeginStop(r, o, products)
               \/ RewriteOrder(r, o) \/ Stop(r, o) \/ Compute(r, o)
        PROVE  IInv'
    BY <1>1, CreateOrderInv, BeginUpdateOrderInv, DeleteOrderInv, BeginStopInv, RewriteOrderInv,
       StopInv, ComputeInv
  <1>2. ASSUME NEW r \in Requests,
               \/ LoadOrder(r)
               \/ \E s \in Shipments : BeginCreateShipment(r, s) \/ BeginChangeShipment(r, s)
               \/ LookUpOrders(r) \/ WriteLines(r) \/ WriteStatus(r) \/ Commit(r) \/ Fail(r)
        PROVE  IInv'
    BY <1>2, LoadOrderInv, BeginCreateShipmentInv, BeginChangeShipmentInv, LookUpOrdersInv,
       WriteLinesInv, WriteStatusInv, CommitInv, FailInv
  <1>3. CASE UNCHANGED vars
    BY <1>3, StutterInv
  <1> QED
    BY <1>1, <1>2, <1>3 DEF Next, Finished

LEMMA InvHolds == Spec => []IInv
  BY InitInv, NextInv, PTL DEF Spec

(* Type correctness of the orders, the shipments and every request; what a *)
(* shipment is linked to exists.                                           *)
THEOREM TypeCorrect == Spec => []TypeOK
  <1>1. IInv => TypeOK
    BY DEF IInv, TablesInv
  <1> QED
    BY <1>1, InvHolds, PTL

(* The delivery status of an order says what the shipments have delivered  *)
(* of it, however many requests edit, stop, ship and delete at once,       *)
(* unless the last of them to write or skip it had been outrun.  Every new *)
(* order must have a line that is not cleared.                             *)
THEOREM StatusFollows == ASSUME NewFormsActive PROVE Spec => []StatusUnlessOutrun
  <1>1. IInv => StatusUnlessOutrun
    BY DEF IInv, TablesInv, StatusRight
  <1> QED
    BY <1>1, InvHolds, PTL

(***************************************************************************)
(* What an edit keeps.                                                     *)
(***************************************************************************)
LEMMA MaxIs ==
  ASSUME NEW n \in Nat, NEW K \in SUBSET (1 .. n), K # {}
  PROVE  Max(K) \in K /\ \A k \in K : Max(K) >= k
  <1> DEFINE B == {n - k : k \in K}
  <1>1. \A k \in K : k \in Int /\ n - k \in Nat
    OBVIOUS
  <1>2. B \in SUBSET Nat /\ B # {}
    BY <1>1
  <1>3. PICK b \in B : \A c \in B : b <= c
    <2> HIDE DEF B
    <2> QED
      BY <1>2, LeastNatural
  <1>4. PICK x \in K : b = n - x
    OBVIOUS
  <1>5. \A k \in K : x >= k
    BY <1>1, <1>3, <1>4
  <1> QED
    BY <1>5 DEF Max

(* The lines of o with product p that are active.                          *)
Asked(o, p) == {i \in Active(o) : items[i].product = p}

LEMMA AskedFinite ==
  ASSUME NEW o, NEW p
  PROVE  Asked(o, p) \subseteq Items /\ IsFiniteSet(Asked(o, p)) /\ IsFiniteSet(Items)
  <1>1. Asked(o, p) \subseteq Items
    BY DEF Asked, Active, LinesOf
  <1>2. IsFiniteSet(Items)
    BY FS_Interval, BoundsAssumption DEF Items
  <1> QED
    BY <1>1, <1>2, FS_Subset

(* Of the new lines of a product, the last takes over what shipment s      *)
(* delivers of the old ones, and no other line anything.                   *)
LEMMA LinksOfNew ==
  ASSUME IInv, NEW r \in Requests, NEW o \in Orders, RewriteOrder(r, o), o \notin outrun[r],
         NEW p, NEW i \in Items, New(i, KeptBy(r)), KeptBy(r)[i - used].product = p,
         NEW m \in Items, New(m, KeptBy(r)), KeptBy(r)[m - used].product = p,
         \A k \in DOMAIN KeptBy(r) : KeptBy(r)[k].product = p => k <= m - used,
         NEW s \in Shipments
  PROVE  Relinked(r, s, KeptBy(r))[i] =
           IF i = m THEN SumFunctionOnSet(LinesIn(shipments, s), Asked(o, p)) ELSE 0
  <1> DEFINE kept == KeptBy(r)
             K == {k \in DOMAIN kept : kept[k].product = p}
             from == {j \in Items : /\ seen[r].rows[j] # None
                                    /\ seen[r].rows[j].product = p
                                    /\ seen[r].edition[s] = edition[s]}
             links == seen[r].links[s]
             old == LinesIn(shipments, s)
  <1>0. TypeOK /\ Fresh(r) /\ pc[r] = "rewrite" /\ doc[r] = o
    BY RewriteStep DEF IInv, TablesInv, RequestInv
  <1>1. /\ used \in Nat /\ i \in Nat /\ m \in Nat /\ Len(kept) \in Nat
        /\ DOMAIN kept = 1 .. Len(kept)
    BY RewriteStep DEF Items
  <1>2. i - used \in DOMAIN kept /\ m - used \in K
    BY <1>1 DEF New
  <1>3. Max(K) = m - used
    <2>1. K \in SUBSET (1 .. Len(kept)) /\ K # {}
      BY <1>1, <1>2
    <2> HIDE DEF K
    <2>2. Max(K) \in K /\ Max(K) >= m - used
      BY <1>1, <1>2, <2>1, MaxIs
    <2>3. Max(K) \in DOMAIN kept /\ Max(K) <= m - used
      BY <2>2 DEF K
    <2> QED
      BY <1>1, <2>2, <2>3
  <1>4. Relinked(r, s, kept)[i] =
          IF i = used + Max(K) THEN SumFunctionOnSet(links, from)
          ELSE IF seen[r].rows[i] # None THEN 0 ELSE old[i]
    BY <1>2 DEF Relinked
  <1>5. old[i] = 0
    <2>1. ~(old[i] > 0)
      BY <1>0, RewriteStep DEF TypeOK
    <2>2. shipments[s] # None => shipments[s].lines[i] \in Nat
      BY <1>0 DEF TypeOK, Shipment, Lines
    <2> QED
      BY <2>1, <2>2 DEF LinesIn, NoLines
  <1>6. /\ \A j \in Asked(o, p) : links[j] = old[j]
        /\ seen[r].edition[s] = edition[s] => from = Asked(o, p)
        /\ seen[r].edition[s] # edition[s] => from = {} /\ \A j \in Asked(o, p) : old[j] = 0
    <2>1. /\ \A j \in Items : seen[r].rows[j] = IF j \in Active(o) THEN items[j] ELSE None
          /\ \A j \in Items : links[j] = IF j \in Active(o) THEN old[j] ELSE 0
          /\ seen[r].edition[s] = edition[s] \/ \A j \in Items : links[j] = 0
      BY <1>0 DEF Fresh
    <2>2. \A j \in Active(o) : j \in Items /\ items[j] # None
      BY DEF Active, LinesOf
    <2> HIDE DEF links, old
    <2> QED
      BY <2>1, <2>2 DEF Asked
  <1>7. SumFunctionOnSet(links, from) = SumFunctionOnSet(old, Asked(o, p))
    <2> HIDE DEF links, old, from
    <2>1. CASE seen[r].edition[s] = edition[s]
      BY <1>6, <2>1, AskedFinite, SumEqual
    <2>2. CASE seen[r].edition[s] # edition[s]
      BY <1>6, <2>2, AskedFinite, SumEmpty, SumZero
    <2> QED
      BY <2>1, <2>2
  <1>8. i = used + Max(K) <=> i = m
    BY <1>1, <1>3
  <1> HIDE DEF K, from, links, old
  <1> QED
    BY <1>4, <1>5, <1>7, <1>8 DEF old

LEMMA ShippedIs ==
  \A ships, i : Shipped(ships, i) = SumFunctionOnSet([s \in Shipments |-> Part(ships, s, i)], Shipments)
  BY DEF Shipped, Part

LEMMA PartNat ==
  ASSUME TypeOK, NEW s \in Shipments, NEW i \in Items
  PROVE  Part(shipments, s, i) \in Nat
  <1>1. shipments[s] # None => shipments[s].lines[i] \in Nat
    BY DEF TypeOK, Shipment, Lines
  <1> QED
    BY <1>1 DEF Part

(* What is shipped of a new line: all that was of the old ones, or nothing.*)
LEMMA ShippedOfNew ==
  ASSUME IInv, NEW r \in Requests, NEW o \in Orders, RewriteOrder(r, o), o \notin outrun[r],
         NEW p, NEW i \in Items, New(i, KeptBy(r)), KeptBy(r)[i - used].product = p,
         NEW m \in Items, New(m, KeptBy(r)), KeptBy(r)[m - used].product = p,
         \A k \in DOMAIN KeptBy(r) : KeptBy(r)[k].product = p => k <= m - used
  PROVE  Shipped(shipments', i) =
           IF i = m
           THEN SumFunctionOnSet([j \in Items |-> Shipped(shipments, j)], Asked(o, p))
           ELSE 0
  <1> DEFINE A == Asked(o, p)
             F == [s \in Shipments |-> [j \in A |-> Part(shipments, s, j)]]
             rows == [s \in Shipments |-> SumFunctionOnSet([j \in A |-> F[s][j]], A)]
             columns == [j \in A |-> SumFunctionOnSet([s \in Shipments |-> F[s][j]], Shipments)]
             G == [j \in Items |-> Shipped(shipments, j)]
             new == [s \in Shipments |-> Part(shipments', s, i)]
  <1>0. TypeOK
    BY DEF IInv, TablesInv
  <1>1. /\ IsFiniteSet(A) /\ A \subseteq Items /\ IsFiniteSet(Shipments)
        /\ \A s \in Shipments, j \in A : F[s][j] \in Int
    BY <1>0, AskedFinite, PartNat, BoundsAssumption
  <1>2. ASSUME NEW s \in Shipments PROVE new[s] = IF i = m THEN rows[s] ELSE 0
    <2> DEFINE row == [j \in A |-> F[s][j]]
               old == LinesIn(shipments, s)
    <2>1. rows[s] = SumFunctionOnSet(row, A) /\ \A j \in A : row[j] = Part(shipments, s, j)
      OBVIOUS
    <2>2. CASE shipments[s] # None /\ shipments[s].live
      <3>1. new[s] = Relinked(r, s, KeptBy(r))[i]
        BY <2>2, RewriteStep DEF Part
      <3>2. new[s] = IF i = m THEN SumFunctionOnSet(old, A) ELSE 0
        BY <3>1, LinksOfNew
      <3>3. \A j \in A : row[j] = old[j]
        BY <2>1, <2>2 DEF Part, LinesIn
      <3>4. SumFunctionOnSet(row, A) = SumFunctionOnSet(old, A)
        <4> HIDE DEF row, old, A
        <4> QED
          BY <1>1, <3>3, SumEqual
      <3> HIDE DEF row, old, A, new, rows
      <3> QED
        BY <2>1, <3>2, <3>4
    <2>3. CASE ~(shipments[s] # None /\ shipments[s].live)
      <3>1. new[s] = 0
        BY <2>3, RewriteStep DEF Part
      <3>2. \A j \in A : row[j] = 0
        BY <2>1, <2>3 DEF Part
      <3>3. SumFunctionOnSet(row, A) = 0
        <4> HIDE DEF row, A
        <4> QED
          BY <1>1, <3>2, SumZero
      <3> HIDE DEF row, A, new, rows
      <3> QED
        BY <2>1, <3>1, <3>3
    <2> QED
      BY <2>2, <2>3
  <1>3. Shipped(shipments', i) = SumFunctionOnSet(new, Shipments)
    BY ShippedIs
  <1>4. CASE i # m
    <2> HIDE DEF new, rows
    <2>1. SumFunctionOnSet(new, Shipments) = 0
      BY <1>1, <1>2, <1>4, SumZero
    <2> QED
      BY <1>3, <1>4, <2>1
  <1>5. CASE i = m
    <2>1. SumFunctionOnSet(new, Shipments) = SumFunctionOnSet(rows, Shipments)
      <3> HIDE DEF new, rows
      <3> QED
        BY <1>1, <1>2, <1>5, SumEqual
    <2>2. SumFunctionOnSet(rows, Shipments) = SumFunctionOnSet(columns, A)
      <3> HIDE DEF F, A
      <3> QED
        BY <1>1, SumExchange
    <2>3. \A j \in A : columns[j] = G[j]
      <3> SUFFICES ASSUME NEW j \in A PROVE columns[j] = G[j]
        OBVIOUS
      <3>1. [s \in Shipments |-> F[s][j]] = [s \in Shipments |-> Part(shipments, s, j)]
        OBVIOUS
      <3> QED
        BY <1>1, <3>1, ShippedIs
    <2>4. SumFunctionOnSet(columns, A) = SumFunctionOnSet(G, A)
      <3> HIDE DEF columns, G, A
      <3> QED
        BY <1>1, <2>3, SumEqual
    <2> HIDE DEF new, rows, columns, G, A
    <2> QED
      BY <1>3, <1>5, <2>1, <2>2, <2>4 DEF G, A
  <1> QED
    BY <1>4, <1>5

(* A line that was stopped keeps its size and what is shipped of it.       *)
LEMMA StoppedKept ==
  ASSUME IInv, NEW r \in Requests, NEW o \in Orders, RewriteOrder(r, o), o \notin outrun[r],
         NEW i \in LinesOf(o) \ Active(o)
  PROVE  items'[i] = items[i] /\ Shipped(shipments', i) = Shipped(shipments, i)
  <1>1. i \in Items /\ items[i] # None
    BY DEF LinesOf
  <1>2. i \notin Rows(r)
    BY <1>1, RewriteStep DEF IInv, RequestInv, Fresh, Rows
  <1>3. items'[i] = items[i] /\ ~New(i, KeptBy(r))
    BY <1>1, <1>2, RewriteStep
  <1>4. \A s \in Shipments : Part(shipments', s, i) = Part(shipments, s, i)
    <2> SUFFICES ASSUME NEW s \in Shipments PROVE Part(shipments', s, i) = Part(shipments, s, i)
      OBVIOUS
    <2>1. Relinked(r, s, KeptBy(r))[i] = LinesIn(shipments, s)[i]
      BY <1>1, <1>2, <1>3, RewriteStep
    <2> QED
      BY <2>1, RewriteStep DEF Part, LinesIn
  <1> QED
    BY <1>3, <1>4, ShippedSame

LEMMA ShippedNat ==
  ASSUME TypeOK, NEW i \in Items
  PROVE  Shipped(shipments, i) \in Nat
  <1> DEFINE F == [s \in Shipments |-> Part(shipments, s, i)]
  <1>1. \A s \in Shipments : F[s] \in Nat
    BY PartNat
  <1>2. Shipped(shipments, i) = SumFunctionOnSet(F, Shipments)
    BY ShippedIs
  <1> HIDE DEF F
  <1> QED
    BY <1>1, <1>2, SumNat, BoundsAssumption

LEMMA DeliveriesStay ==
  ASSUME IInv, NEW r \in Requests, NEW o \in Orders, RewriteOrder(r, o), o \notin outrun[r],
         NEW p, InOrder(o, p)'
  PROVE  Delivered(o, p)' = Delivered(o, p)
  <1> DEFINE kept == KeptBy(r)
             K == {k \in DOMAIN kept : kept[k].product = p}
             m == used + Max(K)
             A == Asked(o, p)
             D == {i \in LinesOf(o) \ Active(o) : items[i].product = p}
             N == {i \in Items : New(i, kept) /\ kept[i - used].product = p}
             G == [i \in Items |-> Shipped(shipments, i)]
             H == [i \in Items |-> Shipped(shipments', i)]
  <1>0. TypeOK
    BY DEF IInv, TablesInv
  <1>1. /\ used \in Nat /\ Len(kept) \in Nat /\ DOMAIN kept = 1 .. Len(kept)
        /\ used + Len(kept) <= MaxItems
    BY RewriteStep
  <1>2. ASSUME NEW i \in Items, New(i, kept)
        PROVE  /\ i \notin LinesOf(o) /\ i - used \in DOMAIN kept
               /\ items'[i] # None /\ items'[i].order = o
               /\ items'[i].product = kept[i - used].product
    <2>1. i \notin LinesOf(o)
      BY <1>2, RewriteStep DEF LinesOf
    <2>2. i - used \in DOMAIN kept
      BY <1>1, <1>2 DEF New, Items
    <2>3. items'[i] = NewItems(o, kept)[i] /\ items'[i] # None /\ items'[i].order = o
      BY <1>2, <2>1, RewriteStep
    <2>4. NewItems(o, kept)[i].product = kept[i - used].product
      BY <2>2 DEF NewItems
    <2> QED
      BY <2>1, <2>2, <2>3, <2>4
  <1>3. \E i \in Items : New(i, kept) /\ kept[i - used].product = p
    <2>1. PICK i \in Items : /\ items'[i] # None /\ items'[i].order = o
                             /\ ~items'[i].stopped /\ items'[i].product = p
      BY DEF InOrder, Active, LinesOf
    <2>2. i \notin Active(o) /\ i \notin LinesOf(o) \ Active(o)
      BY <2>1, RewriteStep
    <2>3. New(i, kept)
      BY <2>1, <2>2, RewriteStep DEF LinesOf
    <2> QED
      BY <1>2, <2>1, <2>3
  <1>4. Max(K) \in K /\ \A k \in K : Max(K) >= k
    <2>1. K \in SUBSET (1 .. Len(kept)) /\ K # {}
      BY <1>1, <1>2, <1>3
    <2> HIDE DEF K
    <2> QED
      BY <1>1, <2>1, MaxIs
  <1>5. /\ m \in Items /\ New(m, kept) /\ kept[m - used].product = p
        /\ \A k \in DOMAIN kept : kept[k].product = p => k <= m - used
    <2>1. Max(K) \in 1 .. Len(kept) /\ m - used = Max(K)
      BY <1>1, <1>4
    <2>2. m \in Items /\ New(m, kept)
      BY <1>1, <2>1, BoundsAssumption DEF Items, New
    <2> QED
      BY <1>1, <1>4, <2>1, <2>2
  <1> HIDE DEF K, m
  <1>6. \A i \in N : Shipped(shipments', i) = IF i = m THEN SumFunctionOnSet(G, A) ELSE 0
    BY <1>5, ShippedOfNew
  <1>7. /\ {i \in LinesOf(o) : items[i].product = p} = A \union D
        /\ A \intersect D = {} /\ A \subseteq Items /\ D \subseteq Items
    BY DEF Asked, Active, LinesOf
  <1>8. \A i \in D : items'[i] = items[i] /\ H[i] = G[i]
    BY <1>7, StoppedKept
  <1>9. {i \in LinesOf(o)' : items'[i].product = p} = D \union N /\ D \intersect N = {}
    <2>1. ASSUME NEW i \in Items, items'[i] # None, items'[i].order = o, items'[i].product = p
          PROVE  i \in D \union N
      <3>1. i \notin Active(o)
        BY <2>1, RewriteStep
      <3>2. CASE i \in LinesOf(o)
        <4>1. items'[i] = items[i]
          BY <3>1, <3>2, StoppedKept
        <4> QED
          BY <2>1, <3>1, <3>2, <4>1
      <3>3. CASE i \notin LinesOf(o)
        <4>1. New(i, kept)
          BY <2>1, <3>3, RewriteStep DEF LinesOf
        <4> QED
          BY <1>2, <2>1, <4>1
      <3> QED
        BY <3>2, <3>3
    <2>2. \A i \in N : i \notin LinesOf(o) /\ i \in LinesOf(o)' /\ items'[i].product = p
      BY <1>2 DEF LinesOf
    <2>3. \A i \in D : i \in LinesOf(o)' /\ items'[i].product = p
      BY <1>8 DEF LinesOf
    <2>4. \A i \in LinesOf(o)' : i \in Items /\ items'[i] # None /\ items'[i].order = o
      BY DEF LinesOf
    <2>5. D \subseteq LinesOf(o)
      OBVIOUS
    <2> HIDE DEF D, N
    <2> QED
      BY <2>1, <2>2, <2>3, <2>4, <2>5
  <1>10. Delivered(o, p) = SumFunctionOnSet(G, A \union D)
    BY <1>7 DEF Delivered
  <1>11. Delivered(o, p)' = SumFunctionOnSet(H, D \union N)
    BY <1>9 DEF Delivered
  <1>12. /\ IsFiniteSet(A) /\ IsFiniteSet(D) /\ IsFiniteSet(N)
         /\ m \in N /\ N \subseteq Items
    BY <1>5, <1>7, AskedFinite, FS_Subset
  <1>13. \A i \in Items : G[i] \in Int
    BY <1>0, ShippedNat
  <1>14. \A i \in N : H[i] = IF i = m THEN SumFunctionOnSet(G, A) ELSE 0
    BY <1>6, <1>12
  <1> HIDE DEF A, D, N, G, H
  <1>15. SumFunctionOnSet(G, A) \in Int
    BY <1>7, <1>12, <1>13, SumType
  <1>16. SumFunctionOnSet(G, A \union D) = SumFunctionOnSet(G, A) + SumFunctionOnSet(G, D)
    BY <1>7, <1>12, <1>13, SumUnion
  <1>17. SumFunctionOnSet(H, D \union N) = SumFunctionOnSet(H, D) + SumFunctionOnSet(H, N)
    <2>1. \A i \in D \union N : H[i] \in Int
      BY <1>7, <1>8, <1>13, <1>14, <1>15
    <2> QED
      BY <1>9, <1>12, <2>1, SumUnion
  <1>18. SumFunctionOnSet(H, D) = SumFunctionOnSet(G, D)
    BY <1>8, <1>12, SumEqual
  <1>19. SumFunctionOnSet(H, N) = SumFunctionOnSet(G, A)
    <2>1. H[m] = SumFunctionOnSet(G, A) /\ \A i \in N \ {m} : H[i] = 0
      BY <1>12, <1>14
    <2> QED
      BY <1>12, <1>15, <2>1, SumOne
  <1>20. SumFunctionOnSet(G, D) \in Int
    BY <1>7, <1>12, <1>13, SumType
  <1> QED
    BY <1>10, <1>11, <1>15, <1>16, <1>17, <1>18, <1>19, <1>20

(* A step that gives out ids while an editor ends is the edit of its order.*)
LEMMA EditIsRewrite ==
  ASSUME IInv, [Next]_vars, NEW r \in Requests, pc[r] = "rewrite", pc'[r] = "idle", used' # used
  PROVE  RewriteOrder(r, doc[r])
  <1> USE DEF tables
  <1>0. TypeOK
    BY DEF IInv, TablesInv
  <1>1. ASSUME NEW q \in Requests, NEW o \in Orders, NEW lines \in NewForms,
               CreateOrder(q, o, lines)
        PROVE  FALSE
    BY <1>0, <1>1 DEF CreateOrder, Arrive, End, Goto, TypeOK
  <1>2. ASSUME NEW q \in Requests, NEW o \in Orders,
               \/ \E lines \in EditForms : BeginUpdateOrder(q, o, lines)
               \/ DeleteOrder(q, o)
               \/ \E products \in SUBSET Products \ {{}} : BeginStop(q, o, products)
               \/ Stop(q, o) \/ Compute(q, o)
        PROVE  FALSE
    BY <1>2 DEF BeginUpdateOrder, DeleteOrder, BeginStop, Begin, Stop, Compute
  <1>3. ASSUME NEW q \in Requests,
               \/ LoadOrder(q)
               \/ \E s \in Shipments : BeginCreateShipment(q, s) \/ BeginChangeShipment(q, s)
               \/ LookUpOrders(q) \/ WriteLines(q) \/ WriteStatus(q) \/ Commit(q) \/ Fail(q)
        PROVE  FALSE
    BY <1>3 DEF LoadOrder, BeginCreateShipment, BeginChangeShipment, Begin, LookUpOrders,
       WriteLines, WriteStatus, Commit, Fail
  <1>4. ASSUME NEW q \in Requests, NEW o \in Orders, RewriteOrder(q, o)
        PROVE  q = r /\ o = doc[r]
    <2>1. q # r => pc'[r] = pc[r]
      BY <1>0, <1>4 DEF RewriteOrder, End, Goto, TypeOK
    <2> QED
      BY <1>4, <2>1 DEF RewriteOrder
  <1>5. ~UNCHANGED vars
    BY DEF vars
  <1> QED
    BY <1>1, <1>2, <1>3, <1>4, <1>5 DEF Next, Finished

(* The editor of an order replaces its lines, and what has been delivered  *)
(* of a product that stays in it is what was before; a stopped line and    *)
(* its deliveries stay as they are.  Unless others changed the order while *)
(* the editor worked.                                                      *)
THEOREM DeliveriesKept == Spec => EditKeepsDeliveries
  <1> DEFINE Kept1(r, o) ==
        /\ doc[r] = o /\ o \notin outrun[r]
        /\ pc[r] = "rewrite" /\ pc'[r] = "idle" /\ used' # used
        => /\ \A p \in Products :
                InOrder(o, p) /\ InOrder(o, p)' => Delivered(o, p)' = Delivered(o, p)
           /\ \A i \in LinesOf(o) \ Active(o) :
                /\ items'[i] = items[i]
                /\ Shipped(shipments, i)' = Shipped(shipments, i)
  <1>1. ASSUME IInv, [Next]_vars, NEW r \in Requests, NEW o \in Orders PROVE Kept1(r, o)
    <2> SUFFICES ASSUME doc[r] = o, o \notin outrun[r],
                        pc[r] = "rewrite", pc'[r] = "idle", used' # used
                 PROVE  /\ \A p \in Products :
                             InOrder(o, p)' => Delivered(o, p)' = Delivered(o, p)
                        /\ \A i \in LinesOf(o) \ Active(o) :
                             /\ items'[i] = items[i]
                             /\ Shipped(shipments', i) = Shipped(shipments, i)
      BY DEF Shipped
    <2>1. RewriteOrder(r, o)
      BY <1>1, EditIsRewrite
    <2>2. \A p \in Products : InOrder(o, p)' => Delivered(o, p)' = Delivered(o, p)
      BY <1>1, <2>1, DeliveriesStay
    <2>3. \A i \in LinesOf(o) \ Active(o) :
            items'[i] = items[i] /\ Shipped(shipments', i) = Shipped(shipments, i)
      BY <1>1, <2>1, StoppedKept
    <2> QED
      BY <2>2, <2>3
  <1>2. IInv /\ [Next]_vars => [\A r \in Requests, o \in Orders : Kept1(r, o)]_vars
    BY <1>1
  <1> QED
    BY <1>2, InvHolds, PTL DEF Spec, EditKeepsDeliveries
=============================================================================
