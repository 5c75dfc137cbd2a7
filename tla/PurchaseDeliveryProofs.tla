----------------------- MODULE PurchaseDeliveryProofs -----------------------
(***************************************************************************)
(* Theorems about PurchaseDelivery, for every set of purchases, receipts,  *)
(* requests and vendors, every form and every bound.                       *)
(***************************************************************************)
EXTENDS PurchaseDelivery, SumTheorems

(* A new purchase has a line that is not cleared: the form sends one.      *)
NewFormsActive == \A lines \in NewForms : \E k \in DOMAIN lines : ~lines[k].stopped

(***************************************************************************)
(* The inductive invariant: what holds of the tables, and of each request. *)
(***************************************************************************)

(* A line has an id that was given out, of a purchase that was created.    *)
KnownLines ==
  \A i \in Items : items[i] # None => i <= used /\ purchases[items[i].purchase] # None

(* A purchase that is not created has the defaults.                        *)
Defaults ==
  \A p \in Purchases : purchases[p] = None => status[p] = 0 /\ isStopped[p] = FALSE

StatusRight == NewFormsActive => StatusUnlessOutrun
StoppedRight == NewFormsActive => StoppedUnlessOutrun

TablesInv ==
  /\ TypeOK
  /\ KnownLines
  /\ Defaults
  /\ SameVendor
  /\ StatusRight
  /\ StoppedRight

Receiving(r) == pc[r] \in {"write", "status"}

(* The purchase lines receipt s has, and those r is to give it.            *)
Has(s) == {i \in Items : ReceiptIn(receipts, s).lines[i] > 0}
Gets(r, s) == {i \in Items : form[r] # None /\ form[r].receipts[s].lines[i] > 0}

Private(r) ==
  /\ pc[r] # "status" => computed[r] = None /\ written[r] = Unwritten
  /\ pc[r] \in {"rewrite", "stop", "stopped"} =>
       \E p \in Purchases : doc[r] = {p} /\ purchases[p] # None
  /\ pc[r] = "rewrite" => form[r].vendor \in Vendors /\ form[r].lines \in EditForms
  /\ Receiving(r) =>
       /\ doc[r] \subseteq Receipts
       /\ form[r] # None => form[r].receipts \in [doc[r] -> Receipt]
       /\ form[r] = None => \A s \in doc[r] : receipts[s] # None
  /\ blind[r] => Receiving(r) /\ form[r] # None /\ \A s \in doc[r] : receipts[s] # None

(* What a form links was there when it was sent, and is of its vendor (but *)
(* for lines it keeps of a mixed receipt); it cannot go any more once the  *)
(* transaction has checked it.                                             *)
FormKnown(r) ==
  Receiving(r) =>
    \A s \in doc[r] : \A i \in Gets(r, s) :
      /\ i <= used
      /\ items[i] # None /\ s \notin mixed =>
           purchases[items[i].purchase].vendor = form[r].receipts[s].vendor
      /\ pc[r] = "status" => items[i] # None

(* Nothing of its receipts is overlooked: before the transaction it has    *)
(* read their lines, then it computes the purchases of all that are linked *)
(* or unlinked, but for those it was outrun on.                            *)
Covers(r) ==
  /\ pc[r] = "write" =>
       \A s \in doc[r] : \A i \in Has(s) : i \in seen[r] \/ items[i].purchase \in outrun[r]
  /\ pc[r] = "write" => \A i \in seen[r] : i <= used
  /\ pc[r] = "status" =>
       \A p \in PurchasesTouched(r) :
         \/ p \in todo[r] \union outrun[r]
         \/ computed[r] # None /\ computed[r].purchase = p
         \/ written[r][p] # None

(* The statuses it has computed are those it leaves, if nobody outran it.  *)
Right(r) ==
  pc[r] = "status" =>
    /\ computed[r] # None =>
         /\ computed[r].purchase \notin todo[r]
         /\ computed[r].purchase \notin outrun[r] =>
              computed[r].status = StatusOf(computed[r].purchase, After(r))
    /\ \A p \in Purchases : written[r][p] # None =>
         /\ p \notin todo[r]
         /\ p \notin outrun[r] => written[r][p] = StatusOf(p, After(r))

(* Only purchases that were created have a status to compute.              *)
Created(r) ==
  pc[r] = "status" =>
    /\ \A p \in todo[r] : purchases[p] # None
    /\ computed[r] # None => purchases[computed[r].purchase] # None
    /\ \A p \in Purchases : written[r][p] # None => purchases[p] # None

(* A stop knows which lines are left, if nobody outran it.                 *)
Stops(r) ==
  \A p \in Purchases : doc[r] = {p} =>
    /\ pc[r] = "stop" /\ form[r].whole /\ p \notin outrun[r] => Active(p) \subseteq seen[r]
    /\ pc[r] = "stopped" =>
         /\ seen[r] \subseteq Active(p)
         /\ p \notin outrun[r] => (p \in todo[r] <=> Active(p) \subseteq seen[r])

(* Two transactions never hold the same receipt, nor two stops a line.     *)
Apart ==
  \A r, q \in Requests : r # q =>
    /\ pc[r] = "status" /\ pc[q] = "status" => doc[q] \intersect doc[r] = {}
    /\ pc[r] = "stopped" /\ pc[q] = "stopped" => seen[q] \intersect seen[r] = {}

RequestInv(r) ==
  /\ Private(r)
  /\ FormKnown(r)
  /\ Covers(r)
  /\ Right(r)
  /\ Created(r)
  /\ Stops(r)

IInv == TablesInv /\ Apart /\ \A r \in Requests : RequestInv(r)

(***************************************************************************)
(* What a status depends on.                                               *)
(***************************************************************************)

(* What receipt s of rows counts for line i.                               *)
Part(rows, s, i) == IF ReceiptIn(rows, s).live THEN ReceiptIn(rows, s).lines[i] ELSE 0

(* The status of p if its lines are in its, and the receipts in rows.      *)
Status(its, p, rows) ==
  LET active == {i \in Items : its[i] # None /\ its[i].purchase = p /\ ~its[i].stopped}
      wanted == {i \in active : its[i].qty > 0}
      any == \E i \in wanted : Of(i, rows) > 0
      all == \A i \in wanted : Of(i, rows) >= its[i].qty
  IN CASE active = {} \/ (all /\ any) -> 2
       [] any /\ ~all -> 1
       [] OTHER -> 0

LEMMA StatusIs == \A p, rows : StatusOf(p, rows) = Status(items, p, rows)
  BY DEF StatusOf, Status, Active, LinesOf

LEMMA OfSame ==
  ASSUME NEW i, NEW a, NEW b, \A s \in Receipts : Part(a, s, i) = Part(b, s, i)
  PROVE  Of(i, a) = Of(i, b)
  BY DEF Of, Part

LEMMA StatusSame ==
  ASSUME NEW p, NEW its1, NEW its2, NEW a, NEW b,
         \A i \in Items : (its1[i] # None /\ its1[i].purchase = p)
                          \/ (its2[i] # None /\ its2[i].purchase = p) => its1[i] = its2[i],
         \A i \in Items : its1[i] # None /\ its1[i].purchase = p =>
           \A s \in Receipts : Part(a, s, i) = Part(b, s, i)
  PROVE  Status(its1, p, a) = Status(its2, p, b)
  <1> DEFINE active == {i \in Items : its1[i] # None /\ its1[i].purchase = p /\ ~its1[i].stopped}
  <1>1. active = {i \in Items : its2[i] # None /\ its2[i].purchase = p /\ ~its2[i].stopped}
    OBVIOUS
  <1>2. \A i \in active : its1[i] = its2[i] /\ Of(i, a) = Of(i, b)
    BY OfSame
  <1>3. {i \in active : its1[i].qty > 0} = {i \in active : its2[i].qty > 0}
    BY <1>2
  <1> HIDE DEF active
  <1> QED
    BY <1>1, <1>2, <1>3 DEF Status, active

(* If a step leaves the lines of p alone, and the parts that the receipts  *)
(* count for them, it leaves the status alone.                             *)
SameLines(p) == \A i \in Items : i \in LinesOf(p) \/ i \in LinesOf(p)' => items'[i] = items[i]

LEMMA StatusKept ==
  ASSUME NEW p, SameLines(p),
         \A i \in LinesOf(p) : \A s \in Receipts : Part(receipts, s, i) = Part(receipts', s, i)
  PROVE  StatusOf(p, receipts)' = StatusOf(p, receipts)
  <1>1. StatusOf(p, receipts)' = Status(items', p, receipts')
    BY DEF StatusOf, Status, Active, LinesOf
  <1>2. Status(items, p, receipts) = Status(items', p, receipts')
    BY StatusSame DEF SameLines, LinesOf
  <1> QED
    BY <1>1, <1>2, StatusIs

(* The same for the receipts as r is to leave them.                        *)
LEMMA AfterKept ==
  ASSUME NEW p, NEW r, SameLines(p), doc'[r] = doc[r], form'[r] = form[r], blind'[r] = blind[r],
         \A s \in doc[r] : receipts'[s] = receipts[s],
         \A i \in LinesOf(p) : \A s \in Receipts : Part(receipts, s, i) = Part(receipts', s, i)
  PROVE  StatusOf(p, After(r))' = StatusOf(p, After(r))
  <1>1. StatusOf(p, After(r))' = Status(items', p, After(r)')
    BY DEF StatusOf, Status, Active, LinesOf
  <1>2. \A s \in Receipts : After(r)'[s] = IF s \in doc[r] THEN After(r)[s] ELSE receipts'[s]
    BY DEF After, Left
  <1>3. \A s \in Receipts : s \notin doc[r] => After(r)[s] = receipts[s]
    BY DEF After
  <1>4. \A i \in LinesOf(p) : \A s \in Receipts : Part(After(r), s, i) = Part(After(r)', s, i)
    BY <1>2, <1>3 DEF Part, ReceiptIn
  <1>5. Status(items, p, After(r)) = Status(items', p, After(r)')
    BY <1>4, StatusSame DEF SameLines, LinesOf
  <1> QED
    BY <1>1, <1>5, StatusIs

(***************************************************************************)
(* A request that waits while another one takes a step.                    *)
(***************************************************************************)
Waits(q, changed) ==
  /\ pc'[q] = pc[q] /\ doc'[q] = doc[q] /\ form'[q] = form[q] /\ seen'[q] = seen[q]
  /\ todo'[q] = todo[q] /\ computed'[q] = computed[q] /\ written'[q] = written[q]
  /\ blind'[q] = blind[q]
  /\ Running(q) => outrun'[q] = outrun[q] \union changed

(* What a step that changes these purchases keeps of the lines.            *)
LinesStay(changed) ==
  /\ used' >= used
  /\ \A p \in Purchases : purchases[p] # None => purchases'[p] # None
  /\ \A i \in Items : items[i] = None /\ items'[i] # None => i > used
  /\ \A i \in Items : items[i] # None /\ items'[i] # None =>
       /\ items'[i].purchase = items[i].purchase
       /\ purchases'[items[i].purchase].vendor = purchases[items[i].purchase].vendor
  /\ \A p \in Purchases \ changed : purchases[p] # None => SameLines(p)

(* What it keeps of the receipts, and of the rows q has locked or read.    *)
RowsStay(q, changed) ==
  /\ mixed \subseteq mixed'
  /\ \A s \in Receipts : receipts[s] # None => receipts'[s] # None
  /\ \A p \in Purchases \ changed : \A i \in LinesOf(p) : \A s \in Receipts :
       Part(receipts, s, i) = Part(receipts', s, i)
  /\ pc[q] = "status" =>
       (\A s \in doc[q] : receipts'[s] = receipts[s]) /\ \A i \in Touches(q) : items'[i] # None
  /\ pc[q] = "write" =>
       \A s \in doc[q] : \A i \in Has(s)' : i \in Has(s) \/ items'[i].purchase \in changed
  /\ pc[q] = "stopped" => \A i \in seen[q] : items'[i] = items[i]

LEMMA Bystander ==
  ASSUME IInv, TypeOK', NEW q \in Requests, NEW changed \in SUBSET Purchases,
         Waits(q, changed), LinesStay(changed), RowsStay(q, changed)
  PROVE  RequestInv(q)'
  <1> USE DEF Waits
  <1>0. TypeOK /\ KnownLines /\ RequestInv(q) /\ used \in Nat /\ used' \in Nat
    BY BoundsAssumption DEF IInv, TablesInv, TypeOK
  <1>1. Private(q)'
    BY <1>0 DEF RequestInv, Private, Receiving, LinesStay, RowsStay, Unwritten, TypeOK
  <1>2. ASSUME Receiving(q) PROVE \A s \in doc[q] : Gets(q, s)' = Gets(q, s)
    BY DEF Gets
  <1>3. ASSUME pc[q] = "status" PROVE \A s \in doc[q] : Has(s)' = Has(s)
    BY <1>3 DEF Has, ReceiptIn, RowsStay
  <1>4. ASSUME pc[q] = "status" PROVE \A s \in doc[q] : Gets(q, s) \subseteq Touches(q)
    BY <1>4 DEF Gets, Touches
  <1>5. FormKnown(q)'
    <2> SUFFICES ASSUME Receiving(q), NEW s \in doc[q], NEW i \in Gets(q, s)
                 PROVE  /\ i <= used'
                        /\ items'[i] # None /\ s \notin mixed' =>
                             purchases'[items'[i].purchase].vendor = form[q].receipts[s].vendor
                        /\ pc[q] = "status" => items'[i] # None
      BY <1>2 DEF FormKnown, Receiving
    <2>1. i \in Items /\ i \in Nat
      BY DEF Gets, Items
    <2>2. /\ i <= used
          /\ items[i] # None /\ s \notin mixed =>
               purchases[items[i].purchase].vendor = form[q].receipts[s].vendor
      BY <1>0 DEF RequestInv, FormKnown
    <2>3. i <= used'
      BY <1>0, <2>1, <2>2 DEF LinesStay
    <2>4. ASSUME items'[i] # None, s \notin mixed'
          PROVE  purchases'[items'[i].purchase].vendor = form[q].receipts[s].vendor
      <3>1. items[i] # None
        BY <1>0, <2>1, <2>2, <2>4 DEF LinesStay
      <3> QED
        BY <2>1, <2>2, <2>4, <3>1 DEF LinesStay, RowsStay
    <2>5. ASSUME pc[q] = "status" PROVE items'[i] # None
      BY <1>4, <2>5 DEF RowsStay
    <2> QED
      BY <2>3, <2>4, <2>5
  <1>6. Covers(q)'
    <2>1. ASSUME pc[q] = "write", NEW s \in doc[q], NEW i \in Has(s)'
          PROVE  i \in seen[q] \/ items'[i].purchase \in outrun'[q]
      <3>1. i \in Items /\ outrun'[q] = outrun[q] \union changed
        BY <2>1 DEF Has, Running
      <3>2. s \in Receipts
        BY <1>0, <2>1 DEF RequestInv, Private, Receiving
      <3>3. items'[i] # None
        BY <3>1, <3>2 DEF Has, TypeOK
      <3>4. CASE i \in Has(s)
        <4>1. items[i] # None
          BY <1>0, <3>1, <3>2, <3>4 DEF Has, TypeOK
        <4>2. items'[i].purchase = items[i].purchase
          BY <3>1, <3>3, <4>1 DEF LinesStay
        <4> QED
          BY <1>0, <2>1, <3>1, <3>4, <4>2 DEF RequestInv, Covers
      <3> QED
        BY <2>1, <3>1, <3>4 DEF RowsStay
    <2>2. ASSUME pc[q] = "write", NEW i \in seen[q] PROVE i <= used'
      <3>1. i \in Nat /\ i <= used
        BY <1>0, <2>2 DEF RequestInv, Covers, TypeOK, Items
      <3> QED
        BY <1>0, <3>1 DEF LinesStay
    <2>3. ASSUME pc[q] = "status", NEW p \in Purchases, p \in PurchasesTouched(q)'
          PROVE  p \in PurchasesTouched(q)
      <3>1. Touches(q)' = Touches(q)
        BY <1>2, <1>3, <2>3 DEF Touches, ReceiptIn, RowsStay
      <3>2. PICK i \in Touches(q) : i \in Items /\ items'[i] # None /\ items'[i].purchase = p
        BY <2>3, <3>1 DEF PurchasesTouched, LinesOf
      <3>3. items[i] # None
        <4>1. PICK s \in doc[q] : i \in Has(s) \/ i \in Gets(q, s)
          BY <2>3, <3>2 DEF Touches, Has, Gets
        <4>2. s \in Receipts
          BY <1>0, <2>3 DEF RequestInv, Private, Receiving
        <4>3. CASE i \in Has(s)
          BY <1>0, <4>2, <4>3 DEF Has, TypeOK
        <4>4. CASE i \in Gets(q, s)
          BY <1>0, <2>3, <4>4 DEF RequestInv, FormKnown, Receiving
        <4> QED
          BY <4>1, <4>3, <4>4
      <3>4. items[i].purchase = p
        BY <3>2, <3>3 DEF LinesStay
      <3> QED
        BY <3>2, <3>3, <3>4 DEF PurchasesTouched, LinesOf
    <2>4. pc[q] = "status" => outrun'[q] = outrun[q] \union changed
      BY DEF Running
    <2> QED
      BY <1>0, <2>1, <2>2, <2>3, <2>4 DEF RequestInv, Covers, PurchasesTouched
  <1>7. ASSUME pc[q] = "status", NEW p \in Purchases, purchases[p] # None, p \notin outrun'[q]
        PROVE  p \notin outrun[q] /\ StatusOf(p, After(q))' = StatusOf(p, After(q))
    <2>1. p \notin outrun[q] /\ p \notin changed
      BY <1>7 DEF Running
    <2> QED
      BY <1>7, <2>1, AfterKept DEF LinesStay, RowsStay
  <1>8. Right(q)'
    <2>1. ASSUME pc[q] = "status", computed[q] # None, computed[q].purchase \notin outrun'[q]
          PROVE  computed[q].status = StatusOf(computed[q].purchase, After(q))'
      <3>1. computed[q].purchase \in Purchases /\ purchases[computed[q].purchase] # None
        BY <1>0, <2>1 DEF TypeOK, RequestInv, Created, Computed
      <3> QED
        BY <1>0, <1>7, <2>1, <3>1 DEF RequestInv, Right
    <2>2. ASSUME pc[q] = "status", NEW p \in Purchases, written[q][p] # None, p \notin outrun'[q]
          PROVE  written[q][p] = StatusOf(p, After(q))'
      BY <1>0, <1>7, <2>2 DEF RequestInv, Right, Created
    <2> QED
      BY <1>0, <2>1, <2>2 DEF RequestInv, Right
  <1>9. Created(q)'
    BY <1>0 DEF RequestInv, Created, LinesStay, Private, Computed, TypeOK
  <1>10. Stops(q)'
    <2> SUFFICES ASSUME NEW p \in Purchases, doc[q] = {p}, pc[q] \in {"stop", "stopped"}
                 PROVE  /\ pc[q] = "stop" /\ form[q].whole /\ p \notin outrun'[q] =>
                             Active(p)' \subseteq seen[q]
                        /\ pc[q] = "stopped" =>
                             /\ seen[q] \subseteq Active(p)'
                             /\ p \notin outrun'[q] => (p \in todo[q] <=> Active(p)' \subseteq seen[q])
      BY DEF Stops
    <2>1. purchases[p] # None
      BY <1>0 DEF RequestInv, Private
    <2>2. ASSUME p \notin outrun'[q] PROVE p \notin outrun[q] /\ Active(p)' = Active(p)
      BY <2>1, <2>2 DEF Running, LinesStay, SameLines, Active, LinesOf
    <2>3. pc[q] = "stopped" => seen[q] \subseteq Active(p)
      BY <1>0 DEF RequestInv, Stops
    <2>4. pc[q] = "stopped" => seen[q] \subseteq Active(p)'
      BY <2>3 DEF RowsStay, Active, LinesOf
    <2> QED
      BY <1>0, <2>2, <2>4 DEF RequestInv, Stops
  <1> QED
    BY <1>1, <1>5, <1>6, <1>8, <1>9, <1>10 DEF RequestInv

(***************************************************************************)
(* A step of r that leaves the tables alone.                               *)
(***************************************************************************)
LEMMA TouchesKnown ==
  ASSUME IInv, NEW q \in Requests, pc[q] = "status"
  PROVE  \A i \in Touches(q) : i \in Items /\ items[i] # None
  <1> SUFFICES ASSUME NEW i \in Touches(q) PROVE i \in Items /\ items[i] # None
    OBVIOUS
  <1>1. PICK s \in doc[q] : i \in Items /\ (i \in Has(s) \/ i \in Gets(q, s))
    BY DEF Touches, Has, Gets
  <1>2. s \in Receipts
    BY DEF IInv, RequestInv, Private, Receiving
  <1> QED
    BY <1>1, <1>2 DEF Has, TypeOK, IInv, TablesInv, RequestInv, FormKnown, Receiving

LEMMA StoppedKnown ==
  ASSUME IInv, NEW q \in Requests, pc[q] = "stopped"
  PROVE  \A i \in seen[q] : i \in Items /\ items[i] # None
  BY DEF IInv, RequestInv, Stops, Private, Active, LinesOf

LEMMA QuietStep ==
  ASSUME IInv, TypeOK', NEW r \in Requests, UNCHANGED <<tables, stale, staleStop, mixed>>,
         \A q \in Requests \ {r} : Waits(q, {}), RequestInv(r)', Apart'
  PROVE  IInv'
  <1> USE DEF tables
  <1>1. TypeOK /\ TablesInv
    BY DEF IInv, TablesInv
  <1>2. LinesStay({})
    BY <1>1 DEF LinesStay, SameLines, TypeOK
  <1>3. ASSUME NEW q \in Requests \ {r} PROVE RowsStay(q, {})
    BY TouchesKnown DEF RowsStay, Has
  <1>4. \A q \in Requests \ {r} : RequestInv(q)'
    BY <1>2, <1>3, Bystander
  <1>5. \A p \in Purchases : StatusOf(p, receipts)' = StatusOf(p, receipts)
    BY <1>1, StatusKept DEF SameLines
  <1>6. StatusRight'
    BY <1>1, <1>5 DEF TablesInv, StatusRight, StatusUnlessOutrun, Live
  <1>7. KnownLines' /\ Defaults' /\ SameVendor' /\ StoppedRight'
    BY <1>1 DEF TablesInv, KnownLines, Defaults, SameVendor, StoppedRight, StoppedUnlessOutrun, Live, Active, LinesOf
  <1> QED
    BY <1>4, <1>6, <1>7 DEF IInv, TablesInv

(* A request that comes: which of the invariant is left to see.            *)
LEMMA BeginStep ==
  ASSUME IInv, NEW r \in Requests, NEW d \in SUBSET (Purchases \union Receipts),
         NEW f \in Form(d) \union {None}, NEW read \in SUBSET Items,
         NEW label \in {"rewrite", "stop", "write"}, Begin(r, d, f, read, label),
         label # "write" => \E p \in Purchases : d = {p} /\ purchases[p] # None,
         label = "rewrite" => f.vendor \in Vendors /\ f.lines \in EditForms,
         label = "stop" /\ f.whole => \A p \in Purchases : d = {p} => Active(p) \subseteq read,
         label = "write" =>
           /\ d \subseteq Receipts
           /\ f # None => f.receipts \in [d -> Receipt]
           /\ f = None => \A s \in d : receipts[s] # None
           /\ \A s \in d : Has(s) \subseteq read
           /\ \A i \in read : i <= used
           /\ f # None => \A s \in d : \A i \in Items : f.receipts[s].lines[i] > 0 =>
                /\ i <= used
                /\ items[i] # None /\ s \notin mixed =>
                     purchases[items[i].purchase].vendor = f.receipts[s].vendor
  PROVE  IInv'
  <1> USE DEF Begin, Arrive, Goto
  <1>1. TypeOK
    BY DEF IInv, TablesInv
  <1>2. /\ pc[r] = "idle" /\ pc'[r] = label /\ doc'[r] = d /\ form'[r] = f /\ seen'[r] = read
        /\ outrun'[r] = {} /\ todo'[r] = todo[r] /\ computed'[r] = None /\ written'[r] = Unwritten
        /\ ~blind'[r] /\ UNCHANGED <<tables, stale, staleStop, mixed>>
    BY <1>1 DEF TypeOK, IInv, RequestInv, Private, Receiving
  <1>3. TypeOK'
    BY <1>1, BoundsAssumption DEF TypeOK, tables
  <1>4. \A q \in Requests \ {r} : Waits(q, {}) /\ pc'[q] = pc[q]
    BY <1>1 DEF TypeOK, Waits
  <1>5. Apart'
    BY <1>2, <1>4 DEF IInv, Apart, Waits
  <1>6. RequestInv(r)'
    <2>1. Private(r)'
      BY <1>2 DEF Private, Receiving, tables, Unwritten
    <2>2. FormKnown(r)'
      BY <1>2 DEF FormKnown, Receiving, Gets, tables
    <2>3. Covers(r)'
      BY <1>2 DEF Covers, Has, tables, ReceiptIn
    <2>4. Right(r)' /\ Created(r)'
      BY <1>2 DEF Right, Created
    <2>5. Stops(r)'
      BY <1>2 DEF Stops, Active, LinesOf, tables
    <2> QED
      BY <2>1, <2>2, <2>3, <2>4, <2>5 DEF RequestInv
  <1> QED
    BY <1>2, <1>3, <1>4, <1>5, <1>6, QuietStep

LEMMA BeginUpdatePurchaseInv ==
  ASSUME IInv, NEW r \in Requests, NEW p \in Purchases, NEW v \in Vendors, NEW lines \in EditForms,
         BeginUpdatePurchase(r, p, v, lines)
  PROVE  IInv'
  <1> DEFINE f == [vendor |-> v, lines |-> lines]
  <1>1. f \in Form({p}) /\ f.vendor \in Vendors /\ f.lines \in EditForms
    BY FormsAssumption DEF Form
  <1>2. Begin(r, {p}, f, {}, "rewrite") /\ purchases[p] # None
    BY DEF BeginUpdatePurchase, Live
  <1> HIDE DEF f
  <1> QED
    BY <1>1, <1>2, BeginStep

LEMMA BeginStopInv ==
  ASSUME IInv, NEW r \in Requests, NEW p \in Purchases, NEW products, BeginStop(r, p, products)
  PROVE  IInv'
  <1> DEFINE f == [whole |-> products = None]
             read == {i \in Active(p) : products = None \/ items[i].product \in products}
  <1>1. f \in Form({p}) /\ (f.whole => Active(p) \subseteq read) /\ read \in SUBSET Items
    BY DEF Form, Active, LinesOf
  <1>2. Begin(r, {p}, f, read, "stop") /\ purchases[p] # None
    BY DEF BeginStop, Live
  <1> HIDE DEF f, read
  <1> QED
    BY <1>1, <1>2, BeginStep

(* What is sent of a receipt: lines of its vendor, or those it has.        *)
LEMMA FormLines ==
  ASSUME NEW s \in Receipts, NEW v \in Vendors, NEW f \in ReceiptForms(s, v)
  PROVE  /\ f \in Receipt /\ f.vendor = v
         /\ \A i \in Items : f.lines[i] > 0 => i \in SearchItems(v) \union Has(s)
  <1> DEFINE linkable == SearchItems(v) \union Has(s)
  <1>1. PICK linked \in SUBSET linkable : \E g \in [linked -> Quantities] :
          f = [vendor |-> v, lines |-> [i \in Items |-> IF i \in linked THEN g[i] ELSE 0], live |-> TRUE]
    <2>1. PICK g \in UNION {[linked -> Quantities] : linked \in SUBSET linkable} :
            f = [vendor |-> v, lines |-> [i \in Items |-> IF i \in DOMAIN g THEN g[i] ELSE 0], live |-> TRUE]
      BY DEF ReceiptForms, Has
    <2>2. PICK linked \in SUBSET linkable : g \in [linked -> Quantities]
      OBVIOUS
    <2> QED
      BY <2>1, <2>2
  <1> PICK g \in [linked -> Quantities] :
          f = [vendor |-> v, lines |-> [i \in Items |-> IF i \in linked THEN g[i] ELSE 0], live |-> TRUE]
    BY <1>1
  <1>2. \A i \in Items : IF i \in linked THEN g[i] \in Nat ELSE TRUE
    BY <1>1, BoundsAssumption
  <1>3. f.lines \in Lines
    BY <1>1, <1>2 DEF Lines
  <1> QED
    BY <1>1, <1>3 DEF Receipt

(* A form that is sent now satisfies what BeginStep asks of it.            *)
LEMMA FormOffered ==
  ASSUME IInv, NEW s \in Receipts, NEW v \in Vendors, NEW f \in ReceiptForms(s, v),
         receipts[s] = None \/ (receipts[s].live /\ (v # receipts[s].vendor => ~HasPurchaseLink(s)))
  PROVE  \A i \in Items : f.lines[i] > 0 =>
           /\ i <= used
           /\ items[i] # None /\ (receipts[s] = None \/ s \notin mixed) =>
                purchases[items[i].purchase].vendor = f.vendor
  <1> SUFFICES ASSUME NEW i \in Items, f.lines[i] > 0
               PROVE  /\ i <= used
                      /\ items[i] # None /\ (receipts[s] = None \/ s \notin mixed) =>
                           purchases[items[i].purchase].vendor = v
    BY FormLines
  <1>1. TypeOK /\ KnownLines /\ SameVendor
    BY DEF IInv, TablesInv
  <1>2. CASE i \in SearchItems(v)
    <2>1. PICK p \in Purchases : purchases[p].vendor = v /\ i \in LinesOf(p)
      BY <1>2 DEF SearchItems, Active
    <2> QED
      BY <1>1, <2>1 DEF KnownLines, LinesOf
  <1>3. CASE i \in Has(s)
    <2>1. receipts[s] # None
      BY <1>3 DEF Has, ReceiptIn, NoReceipt, NoLines
    <2>2. receipts[s].lines[i] > 0 /\ receipts[s].live
      BY <1>3, <2>1 DEF Has, ReceiptIn
    <2>3. v = receipts[s].vendor
      BY <2>1, <2>2 DEF HasPurchaseLink
    <2>4. items[i] # None
      BY <1>1, <1>3 DEF Has, TypeOK
    <2> QED
      BY <1>1, <2>1, <2>2, <2>3, <2>4 DEF KnownLines, SameVendor, ReceiptIn
  <1> QED
    BY <1>2, <1>3, FormLines

LEMMA HasKnown ==
  ASSUME IInv, NEW s \in Receipts
  PROVE  \A i \in Has(s) : i \in Items /\ i <= used /\ items[i] # None
  BY DEF IInv, TablesInv, KnownLines, TypeOK, Has

LEMMA BeginCreateInv ==
  ASSUME IInv, NEW r \in Requests, NEW batch \in SUBSET Receipts, BeginCreate(r, batch)
  PROVE  IInv'
  <1>1. PICK forms \in [batch -> BatchForms(batch)] :
          Begin(r, batch, [receipts |-> forms], {}, "write")
    BY DEF BeginCreate
  <1> DEFINE f == [receipts |-> forms]
  <1>2. \A s \in batch : receipts[s] = None
    BY DEF BeginCreate
  <1>3. \A s \in batch : Has(s) = {}
    BY <1>2 DEF Has, ReceiptIn, NoReceipt, NoLines
  <1>4. ASSUME NEW s \in batch
        PROVE  /\ forms[s] \in Receipt
               /\ \A i \in Items : forms[s].lines[i] > 0 =>
                    /\ i <= used
                    /\ items[i] # None => purchases[items[i].purchase].vendor = forms[s].vendor
    <2>1. PICK t \in batch, v \in Vendors : forms[s] \in ReceiptForms(t, v)
      BY DEF BatchForms
    <2> QED
      BY <1>2, <2>1, FormLines, FormOffered
  <1>5. f \in Form(batch) /\ f # None /\ f.receipts = forms /\ forms \in [batch -> Receipt]
    BY <1>4, NoneAssumption DEF Form
  <1>6. Begin(r, batch, f, {}, "write")
    BY <1>1
  <1> HIDE DEF f
  <1> QED
    BY <1>3, <1>4, <1>5, <1>6, BeginStep

LEMMA BeginUpdateStockInv ==
  ASSUME IInv, NEW r \in Requests, NEW s \in Receipts, BeginUpdateStock(r, s)
  PROVE  IInv'
  <1>1. receipts[s] # None /\ receipts[s].live
    BY DEF BeginUpdateStock, ReceiptIn, NoReceipt
  <1> DEFINE read == {i \in Items : receipts[s].lines[i] > 0}
  <1>2. PICK v \in Vendors : \E g \in ReceiptForms(s, v) :
          /\ v # receipts[s].vendor => ~HasPurchaseLink(s)
          /\ Begin(r, {s}, [receipts |-> [t \in {s} |-> g]], read, "write")
    BY DEF BeginUpdateStock
  <1>10. PICK g \in ReceiptForms(s, v) :
          Begin(r, {s}, [receipts |-> [t \in {s} |-> g]], read, "write")
    BY <1>2
  <1> DEFINE f == [receipts |-> [t \in {s} |-> g]]
  <1>3. read = Has(s)
    BY <1>1 DEF Has, ReceiptIn
  <1>4. \A i \in read : i <= used
    BY <1>3, HasKnown
  <1>5. g \in Receipt
    BY FormLines
  <1>6. f \in Form({s}) /\ f # None /\ f.receipts = [t \in {s} |-> g] /\ f.receipts \in [{s} -> Receipt]
    BY <1>5, NoneAssumption DEF Form
  <1>7. \A i \in Items : f.receipts[s].lines[i] > 0 =>
           /\ i <= used
           /\ items[i] # None /\ s \notin mixed =>
                purchases[items[i].purchase].vendor = f.receipts[s].vendor
    BY <1>1, <1>2, FormOffered
  <1>8. Begin(r, {s}, f, read, "write")
    BY <1>10
  <1>9. {s} \in SUBSET (Purchases \union Receipts) /\ {s} \subseteq Receipts /\ read \in SUBSET Items
    OBVIOUS
  <1> HIDE DEF f, read
  <1> QED
    BY <1>3, <1>4, <1>6, <1>7, <1>8, <1>9, BeginStep

LEMMA BeginDeleteStockInv ==
  ASSUME IInv, NEW r \in Requests, NEW s \in Receipts, BeginDeleteStock(r, s)
  PROVE  IInv'
  <1> DEFINE read == {i \in Items : receipts[s].lines[i] > 0}
  <1>1. receipts[s] # None
    BY DEF BeginDeleteStock, ReceiptIn, NoReceipt
  <1>2. read = Has(s)
    BY <1>1 DEF Has, ReceiptIn
  <1>3. \A i \in read : i <= used
    BY <1>2, HasKnown
  <1>4. Begin(r, {s}, None, read, "write")
    BY DEF BeginDeleteStock
  <1>5. {s} \in SUBSET (Purchases \union Receipts) /\ {s} \subseteq Receipts /\ read \in SUBSET Items
    OBVIOUS
  <1> HIDE DEF read
  <1> QED
    BY <1>1, <1>2, <1>3, <1>4, <1>5, BeginStep

(***************************************************************************)
(* The end of a request, and the steps of a running one.                   *)
(***************************************************************************)
LEMMA EndStep ==
  ASSUME IInv, NEW r \in Requests, NEW changed \in SUBSET Purchases, End(r, changed)
  PROVE  /\ RequestInv(r)' /\ Apart'
         /\ \A q \in Requests \ {r} : Waits(q, changed)
         /\ pc' \in [Requests -> {"idle", "rewrite", "stop", "stopped", "write", "status"}]
         /\ doc' \in [Requests -> SUBSET (Purchases \union Receipts)]
         /\ DOMAIN form' = Requests /\ \A q \in Requests : form'[q] \in Form(doc'[q]) \union {None}
         /\ computed' \in [Requests -> Computed \union {None}]
         /\ written' \in [Requests -> [Purchases -> (0 .. 2) \union {None}]]
         /\ seen' \in [Requests -> SUBSET Items]
         /\ todo' \in [Requests -> SUBSET Purchases]
         /\ outrun' \in [Requests -> SUBSET Purchases]
         /\ blind' \in [Requests -> BOOLEAN]
  <1> USE DEF End, Goto
  <1>0. TypeOK
    BY DEF IInv, TablesInv
  <1>1. /\ pc'[r] = "idle" /\ doc'[r] = {} /\ form'[r] = None /\ seen'[r] = {} /\ todo'[r] = {}
        /\ computed'[r] = None /\ written'[r] = Unwritten /\ ~blind'[r]
    BY <1>0 DEF TypeOK
  <1>2. RequestInv(r)'
    BY <1>1 DEF RequestInv, Private, FormKnown, Covers, Right, Created, Stops, Receiving, Unwritten
  <1>3. \A q \in Requests \ {r} : Waits(q, changed)
    BY <1>0 DEF Waits, TypeOK
  <1>4. Apart'
    BY <1>1, <1>3 DEF IInv, Apart, Waits
  <1>5. Unwritten \in [Purchases -> (0 .. 2) \union {None}]
    BY DEF Unwritten
  <1>6. /\ pc' \in [Requests -> {"idle", "rewrite", "stop", "stopped", "write", "status"}]
        /\ doc' \in [Requests -> SUBSET (Purchases \union Receipts)]
        /\ DOMAIN form' = Requests /\ \A q \in Requests : form'[q] \in Form(doc'[q]) \union {None}
        /\ computed' \in [Requests -> Computed \union {None}]
    BY <1>0 DEF TypeOK
  <1>7. /\ written' \in [Requests -> [Purchases -> (0 .. 2) \union {None}]]
        /\ seen' \in [Requests -> SUBSET Items]
        /\ todo' \in [Requests -> SUBSET Purchases]
        /\ outrun' \in [Requests -> SUBSET Purchases]
        /\ blind' \in [Requests -> BOOLEAN]
    BY <1>0, <1>5 DEF TypeOK
  <1> QED
    BY <1>2, <1>3, <1>4, <1>6, <1>7

LEMMA FailInv ==
  ASSUME IInv, NEW r \in Requests, Fail(r)
  PROVE  IInv'
  <1>0. TypeOK
    BY DEF IInv, TablesInv
  <1>1. End(r, {}) /\ UNCHANGED <<tables, stale, staleStop, mixed, begun>>
    BY DEF Fail
  <1>2. \A q \in Requests \ {r} : pc'[q] = pc[q]
    BY <1>0, <1>1 DEF End, Goto, TypeOK
  <1>3. /\ lock' \in [Purchases -> Requests \union {None}]
        /\ \A p \in Purchases : lock'[p] # None => pc'[lock'[p]] = "status"
    BY <1>0, <1>2, NoneAssumption DEF Fail, TypeOK
  <1>4. TypeOK'
    BY <1>0, <1>1, <1>3, EndStep DEF TypeOK, tables
  <1> QED
    BY <1>1, <1>4, EndStep, QuietStep

LEMMA StopLinesInv ==
  ASSUME IInv, NEW r \in Requests, NEW p \in Purchases, StopLines(r, p)
  PROVE  IInv'
  <1> DEFINE mine == {i \in seen[r] : i \in Active(p)}
  <1>0. TypeOK /\ RequestInv(r)
    BY DEF IInv, TablesInv
  <1>1. /\ pc[r] = "stop" /\ doc[r] = {p} /\ pc'[r] = "stopped" /\ seen'[r] = mine
        /\ todo'[r] = IF NothingLeft(r, p, mine) THEN {p} ELSE {}
        /\ UNCHANGED <<tables, begun, lock, doc, form, computed, written, blind, outrun, stale, staleStop, mixed>>
    BY <1>0 DEF StopLines, Goto, TypeOK
  <1>2. TypeOK'
    BY <1>0, <1>1, NoneAssumption DEF StopLines, Goto, TypeOK, tables
  <1>3. \A q \in Requests \ {r} : Waits(q, {}) /\ (pc[q] = "stopped" => seen[q] \intersect mine = {})
    BY <1>0, <1>1 DEF StopLines, Goto, Waits, TypeOK
  <1>4. Apart'
    BY <1>1, <1>3 DEF IInv, Apart, Waits
  <1>5. Private(r)'
    BY <1>0, <1>1 DEF RequestInv, Private, Receiving, tables
  <1>6. FormKnown(r)' /\ Covers(r)' /\ Right(r)' /\ Created(r)'
    BY <1>1 DEF FormKnown, Covers, Right, Created, Receiving
  <1>7. Stops(r)'
    <2>1. Active(p)' = Active(p)
      BY <1>1 DEF Active, LinesOf, tables
    <2>2. mine \subseteq Active(p)
      OBVIOUS
    <2>3. p \notin outrun[r] => (p \in todo'[r] <=> Active(p) \subseteq mine)
      BY <1>0, <1>1 DEF RequestInv, Stops, NothingLeft
    <2> QED
      BY <1>1, <2>1, <2>2, <2>3 DEF Stops
  <1> QED
    BY <1>1, <1>2, <1>3, <1>4, <1>5, <1>6, <1>7, QuietStep DEF RequestInv

LEMMA FindNoLinesInv ==
  ASSUME IInv, NEW r \in Requests, FindNoLines(r)
  PROVE  IInv'
  <1>0. TypeOK /\ RequestInv(r)
    BY DEF IInv, TablesInv
  <1>1. /\ pc[r] = "write" /\ form[r] # None /\ \A s \in doc[r] : receipts[s] # None
        /\ UNCHANGED <<tables, begun, lock, pc, doc, form, seen, todo, computed, written, outrun,
                       stale, staleStop, mixed>>
    BY DEF FindNoLines
  <1>2. TypeOK'
    BY <1>0, <1>1 DEF FindNoLines, TypeOK, tables
  <1>3. \A q \in Requests \ {r} : Waits(q, {})
    BY <1>0, <1>1 DEF FindNoLines, Waits, TypeOK
  <1>4. Apart'
    BY <1>1 DEF IInv, Apart
  <1>5. Private(r)' /\ FormKnown(r)' /\ Covers(r)'
    BY <1>0, <1>1 DEF RequestInv, Private, FormKnown, Covers, Receiving, Gets, Has, ReceiptIn, tables
  <1>6. Right(r)' /\ Created(r)' /\ Stops(r)'
    BY <1>1 DEF Right, Created, Stops
  <1> QED
    BY <1>1, <1>2, <1>3, <1>4, <1>5, <1>6, QuietStep DEF RequestInv

LEMMA WriteReceiptsInv ==
  ASSUME IInv, NEW r \in Requests, WriteReceipts(r)
  PROVE  IInv'
  <1> DEFINE linked == {i \in Items : form[r] # None /\ \E s \in doc[r] : form[r].receipts[s].lines[i] > 0}
             mine == DistinctPurchaseIDs(seen[r], linked)
  <1>0. TypeOK /\ KnownLines /\ RequestInv(r)
    BY DEF IInv, TablesInv
  <1>1. /\ pc[r] = "write" /\ pc'[r] = "status" /\ todo'[r] = mine /\ outrun'[r] = outrun[r] \ mine
        /\ \A i \in linked : items[i] # None
        /\ UNCHANGED <<tables, begun, lock, doc, form, seen, computed, written, blind, stale, staleStop, mixed>>
    BY <1>0 DEF WriteReceipts, Goto, TypeOK
  <1>2. /\ mine \in SUBSET Purchases
        /\ \A p \in mine : purchases[p] # None
        /\ \A i \in Items : i \in seen[r] \union linked /\ items[i] # None => items[i].purchase \in mine
    BY <1>0 DEF DistinctPurchaseIDs, TypeOK, Item, KnownLines
  <1> HIDE DEF mine
  <1>3. TypeOK'
    BY <1>0, <1>1, <1>2, NoneAssumption DEF WriteReceipts, Goto, TypeOK, tables, mine
  <1>4. \A q \in Requests \ {r} : Waits(q, {}) /\ ~(pc[q] = "status" /\ doc[q] \intersect doc[r] # {})
    BY <1>0, <1>1 DEF WriteReceipts, Goto, Waits, TypeOK
  <1>5. Apart'
    BY <1>1, <1>4 DEF IInv, Apart, Waits
  <1>6. Private(r)'
    BY <1>0, <1>1 DEF RequestInv, Private, Receiving, tables
  <1>7. FormKnown(r)'
    <2>1. \A s \in doc[r] : Gets(r, s) \subseteq linked
      BY DEF Gets
    <2> QED
      BY <1>0, <1>1, <2>1 DEF RequestInv, FormKnown, Receiving, Gets, tables
  <1>8. Covers(r)'
    <2> SUFFICES ASSUME NEW p \in Purchases, p \in PurchasesTouched(r)'
                 PROVE  p \in mine \union (outrun[r] \ mine)
      BY <1>1 DEF Covers, PurchasesTouched
    <2>1. PICK i \in Items : i \in Touches(r)' /\ items[i] # None /\ items[i].purchase = p
      BY <1>1 DEF PurchasesTouched, LinesOf, tables
    <2>2. PICK s \in doc[r] : i \in Has(s) \/ i \in linked
      BY <1>1, <2>1 DEF Touches, Has, tables, ReceiptIn
    <2>3. CASE i \in linked
      BY <1>2, <2>1, <2>3
    <2>4. CASE i \in Has(s)
      <3>1. i \in seen[r] \/ p \in outrun[r]
        BY <1>0, <1>1, <2>1, <2>4 DEF RequestInv, Covers
      <3> QED
        BY <1>2, <2>1, <3>1
    <2> QED
      BY <2>2, <2>3, <2>4
  <1>9. Right(r)' /\ Created(r)'
    BY <1>0, <1>1, <1>2 DEF RequestInv, Private, Right, Created, Unwritten, tables
  <1>10. Stops(r)'
    BY <1>1 DEF Stops
  <1> QED
    BY <1>1, <1>3, <1>4, <1>5, <1>6, <1>7, <1>8, <1>9, <1>10, QuietStep DEF RequestInv

LEMMA StatusType == \A its, p, rows : Status(its, p, rows) \in 0 .. 2
  <1> SUFFICES ASSUME NEW its, NEW p, NEW rows PROVE Status(its, p, rows) \in 0 .. 2
    OBVIOUS
  <1> DEFINE active == {i \in Items : its[i] # None /\ its[i].purchase = p /\ ~its[i].stopped}
             wanted == {i \in active : its[i].qty > 0}
             any == \E i \in wanted : Of(i, rows) > 0
             all == \A i \in wanted : Of(i, rows) >= its[i].qty
             value == CASE active = {} \/ (all /\ any) -> 2
                        [] any /\ ~all -> 1
                        [] OTHER -> 0
  <1>1. Status(its, p, rows) = value
    BY DEF Status
  <1> HIDE DEF any, all, active
  <1>2. value \in {0, 1, 2}
    OBVIOUS
  <1> HIDE DEF value
  <1> QED
    BY <1>1, <1>2

LEMMA StatusTypeNext == \A p : StatusOf(p, receipts)' \in 0 .. 2
  <1> SUFFICES ASSUME NEW p PROVE StatusOf(p, receipts)' \in 0 .. 2
    OBVIOUS
  <1>1. StatusOf(p, receipts)' = Status(items', p, receipts')
    BY DEF StatusOf, Status, Active, LinesOf
  <1> QED
    BY <1>1, StatusType

(* While the tables stay and r keeps its receipts, so does what it is to   *)
(* leave.                                                                  *)
LEMMA AfterSame ==
  ASSUME NEW r, UNCHANGED <<tables, doc, form, blind>>
  PROVE  \A p : StatusOf(p, After(r))' = StatusOf(p, After(r))
  BY AfterKept DEF SameLines, tables

LEMMA ComputeInv ==
  ASSUME IInv, NEW r \in Requests, NEW p \in Purchases, Compute(r, p)
  PROVE  IInv'
  <1> DEFINE c == [purchase |-> p, status |-> StatusOf(p, After(r))]
  <1>0. TypeOK /\ RequestInv(r)
    BY DEF IInv, TablesInv
  <1>1. /\ pc[r] = "status" /\ computed[r] = None /\ p \in todo[r]
        /\ computed'[r] = c /\ todo'[r] = todo[r] \ {p}
        /\ UNCHANGED <<tables, begun, lock, pc, doc, form, seen, written, blind, outrun, stale, staleStop, mixed>>
    BY <1>0 DEF Compute, TypeOK
  <1>2. c \in Computed /\ c # None /\ c.purchase = p /\ c.status = StatusOf(p, After(r))
    BY StatusIs, StatusType, NoneAssumption DEF Computed
  <1> HIDE DEF c
  <1>3. TypeOK'
    BY <1>0, <1>1, <1>2 DEF Compute, TypeOK, tables, c
  <1>4. \A q \in Requests \ {r} : Waits(q, {})
    BY <1>0, <1>1 DEF Compute, Waits, TypeOK
  <1>5. Apart'
    BY <1>1 DEF IInv, Apart
  <1>6. Private(r)'
    BY <1>0, <1>1 DEF RequestInv, Private, Receiving, tables
  <1>7. FormKnown(r)'
    BY <1>0, <1>1 DEF RequestInv, FormKnown, Receiving, Gets, tables
  <1>8. Covers(r)'
    <2>1. Touches(r)' = Touches(r)
      BY <1>1 DEF Touches, tables, ReceiptIn
    <2>2. PurchasesTouched(r)' = PurchasesTouched(r)
      BY <1>1, <2>1 DEF PurchasesTouched, LinesOf, tables
    <2> QED
      BY <1>0, <1>1, <1>2, <2>2 DEF RequestInv, Covers
  <1>9. Right(r)'
    <2>1. \A q : StatusOf(q, After(r))' = StatusOf(q, After(r))
      BY <1>1, AfterSame
    <2> QED
      BY <1>0, <1>1, <1>2, <2>1 DEF RequestInv, Right
  <1>10. Created(r)'
    BY <1>0, <1>1, <1>2 DEF RequestInv, Created, tables
  <1>11. Stops(r)'
    BY <1>1 DEF Stops
  <1> QED
    BY <1>1, <1>3, <1>4, <1>5, <1>6, <1>7, <1>8, <1>9, <1>10, <1>11, QuietStep DEF RequestInv

LEMMA WriteStatusInv ==
  ASSUME IInv, NEW r \in Requests, WriteStatus(r)
  PROVE  IInv'
  <1> DEFINE p == computed[r].purchase
             value == computed[r].status
  <1>0. TypeOK /\ RequestInv(r)
    BY DEF IInv, TablesInv
  <1>1. p \in Purchases /\ value \in 0 .. 2 /\ computed[r] # None /\ pc[r] = "status"
    BY <1>0 DEF WriteStatus, TypeOK, Computed
  <1>2. /\ computed'[r] = None /\ outrun'[r] = outrun[r] \ todo[r] /\ written'[r][p] = value
        /\ \A q \in Purchases \ {p} : written'[r][q] = written[r][q]
        /\ UNCHANGED <<tables, begun, pc, doc, form, seen, todo, blind, stale, staleStop, mixed>>
    BY <1>0, <1>1 DEF WriteStatus, TypeOK
  <1>3. TypeOK'
    <2>1. written' \in [Requests -> [Purchases -> (0 .. 2) \union {None}]]
      BY <1>0, <1>1 DEF WriteStatus, TypeOK
    <2>2. /\ lock' \in [Purchases -> Requests \union {None}]
          /\ \A q \in Purchases : lock'[q] # None => pc[lock'[q]] = "status"
      BY <1>0, <1>1 DEF WriteStatus, TypeOK
    <2>3. /\ computed' \in [Requests -> Computed \union {None}]
          /\ outrun' \in [Requests -> SUBSET Purchases]
      BY <1>0, <1>1 DEF WriteStatus, TypeOK
    <2> QED
      BY <1>0, <1>2, <2>1, <2>2, <2>3 DEF TypeOK, tables
  <1>4. \A q \in Requests \ {r} : Waits(q, {})
    BY <1>0, <1>1 DEF WriteStatus, Waits, TypeOK
  <1>5. Apart'
    BY <1>2 DEF IInv, Apart
  <1>6. Private(r)'
    BY <1>0, <1>1, <1>2 DEF RequestInv, Private, Receiving, tables
  <1>7. FormKnown(r)'
    BY <1>0, <1>2 DEF RequestInv, FormKnown, Receiving, Gets, tables
  <1>8. Covers(r)'
    <2>1. Touches(r)' = Touches(r)
      BY <1>2 DEF Touches, tables, ReceiptIn
    <2>2. PurchasesTouched(r)' = PurchasesTouched(r)
      BY <1>2, <2>1 DEF PurchasesTouched, LinesOf, tables
    <2>3. value # None
      BY <1>1, NoneAssumption
    <2> HIDE DEF p, value
    <2>4. ASSUME NEW q \in Purchases, q \in PurchasesTouched(r)
          PROVE  q \in todo[r] \union outrun'[r] \/ written'[r][q] # None
      <3>1. q \in todo[r] \union outrun[r] \/ q = p \/ written[r][q] # None
        BY <1>0, <1>1, <2>4 DEF RequestInv, Covers, p
      <3> QED
        BY <1>2, <2>3, <3>1
    <2> QED
      BY <1>1, <1>2, <2>2, <2>4 DEF Covers, PurchasesTouched
  <1>9. Right(r)'
    <2>1. \A q : StatusOf(q, After(r))' = StatusOf(q, After(r))
      BY <1>2, AfterSame
    <2> QED
      BY <1>0, <1>1, <1>2, <2>1 DEF RequestInv, Right
  <1>10. Created(r)'
    BY <1>0, <1>1, <1>2 DEF RequestInv, Created, tables
  <1>11. Stops(r)'
    BY <1>1, <1>2 DEF Stops
  <1> QED
    BY <1>2, <1>3, <1>4, <1>5, <1>6, <1>7, <1>8, <1>9, <1>10, <1>11, QuietStep DEF RequestInv

(***************************************************************************)
(* The steps that change the tables.                                       *)
(***************************************************************************)
LEMMA LoudStep ==
  ASSUME IInv, NEW r \in Requests, NEW changed \in SUBSET Purchases, End(r, changed), TablesInv',
         LinesStay(changed), \A q \in Requests \ {r} : RowsStay(q, changed)
  PROVE  IInv'
  <1>1. TypeOK'
    BY DEF TablesInv
  <1>2. \A q \in Requests \ {r} : RequestInv(q)'
    BY <1>1, EndStep, Bystander
  <1> QED
    BY <1>2, EndStep DEF IInv

(* The end of a request that is in no transaction leaves the locks alone.  *)
LEMMA EndLocks ==
  ASSUME TypeOK, NEW r \in Requests, NEW changed, End(r, changed), pc[r] # "status", lock' = lock
  PROVE  \A p \in Purchases : lock'[p] # None => pc'[lock'[p]] = "status"
  <1> SUFFICES ASSUME NEW p \in Purchases, lock[p] # None PROVE pc'[lock[p]] = "status"
    OBVIOUS
  <1>1. lock[p] \in Requests /\ pc[lock[p]] = "status"
    BY DEF TypeOK
  <1>2. \A q \in Requests \ {r} : pc'[q] = pc[q]
    BY DEF End, Goto, TypeOK
  <1> QED
    BY <1>1, <1>2

(* The lines of a form get the ids that follow.                            *)
LEMMA NewLines ==
  ASSUME TypeOK, NEW p \in Purchases, NEW lines \in Seq(FormLine), NEW i \in Items
  PROVE  /\ i > used /\ i <= used + Len(lines) =>
              /\ i - used \in DOMAIN lines
              /\ Create(p, lines)[i] =
                   [purchase |-> p, product |-> lines[i - used].product,
                    qty |-> lines[i - used].qty, stopped |-> lines[i - used].stopped]
              /\ Create(p, lines)[i] \in Item
              /\ Create(p, lines)[i].purchase = p
              /\ Create(p, lines)[i].stopped = lines[i - used].stopped
              /\ Create(p, lines)[i] # None
         /\ ~(i > used /\ i <= used + Len(lines)) => Create(p, lines)[i] = items[i]
  <1>1. used \in Nat /\ i \in Nat /\ Len(lines) \in Nat /\ DOMAIN lines = 1 .. Len(lines)
    BY BoundsAssumption DEF TypeOK, Items
  <1>2. i - used \in DOMAIN lines <=> i > used /\ i <= used + Len(lines)
    BY <1>1
  <1>3. i - used \in DOMAIN lines => lines[i - used] \in FormLine
    OBVIOUS
  <1> QED
    BY <1>2, <1>3, NoneAssumption DEF Create, FormLine, Item

LEMMA OfZero ==
  ASSUME NEW i, NEW rows, \A s \in Receipts : Part(rows, s, i) = 0
  PROVE  Of(i, rows) = 0
  <1> DEFINE F == [s \in Receipts |-> Part(rows, s, i)]
  <1>1. Of(i, rows) = SumFunctionOnSet(F, Receipts)
    BY DEF Of, Part
  <1>2. \A s \in Receipts : F[s] = 0
    OBVIOUS
  <1> HIDE DEF F
  <1> QED
    BY <1>1, <1>2, SumZero, BoundsAssumption

(* Nothing is received of a line that nothing refers to.                   *)
LEMMA UnlinkedZero ==
  ASSUME TypeOK, NEW i \in Items, \A s \in Receipts : i \notin Has(s)
  PROVE  \A s \in Receipts : Part(receipts, s, i) = 0
  <1> SUFFICES ASSUME NEW s \in Receipts, receipts[s] # None PROVE Part(receipts, s, i) = 0
    BY DEF Part, ReceiptIn, NoReceipt
  <1>1. receipts[s].lines[i] \in Nat /\ ~(receipts[s].lines[i] > 0)
    BY DEF TypeOK, Receipt, Lines, Has, ReceiptIn
  <1> QED
    BY <1>1 DEF Part, ReceiptIn

(* A purchase nothing is received of is open as long as a line is active.  *)
LEMMA StatusUnlinked ==
  ASSUME NEW p, NEW its, NEW rows, NEW k \in Items,
         its[k] # None /\ its[k].purchase = p /\ ~its[k].stopped,
         \A i \in Items : its[i] # None /\ its[i].purchase = p => Of(i, rows) = 0
  PROVE  Status(its, p, rows) = 0
  <1> DEFINE active == {i \in Items : its[i] # None /\ its[i].purchase = p /\ ~its[i].stopped}
  <1>1. active # {} /\ \A i \in active : Of(i, rows) = 0
    OBVIOUS
  <1> HIDE DEF active
  <1> QED
    BY <1>1 DEF Status, active

LEMMA CreatePurchaseInv ==
  ASSUME IInv, NEW r \in Requests, NEW p \in Purchases, NEW v \in Vendors,
         NEW lines \in NewForms, CreatePurchase(r, p, v, lines)
  PROVE  IInv'
  <1>0. TypeOK /\ TablesInv /\ lines \in Seq(FormLine) /\ purchases[p] = None
    BY FormsAssumption DEF IInv, TablesInv, CreatePurchase
  <1>1. used \in Nat /\ Len(lines) \in Nat /\ used + Len(lines) <= MaxItems /\ used' = used + Len(lines)
    BY <1>0, BoundsAssumption DEF TypeOK, CreatePurchase
  <1> DEFINE new(i) == i > used /\ i <= used + Len(lines)
  <1>2. ASSUME NEW i \in Items
        PROVE  /\ new(i) => items'[i] \in Item /\ items'[i].purchase = p /\ items'[i] # None
                            /\ items'[i].stopped = lines[i - used].stopped
               /\ ~new(i) => items'[i] = items[i]
    BY <1>0, NewLines DEF CreatePurchase
  <1>3. ASSUME NEW i \in Items PROVE /\ items[i] # None => ~new(i) /\ items[i].purchase # p
                                     /\ new(i) => \A s \in Receipts : i \notin Has(s)
    <2>1. i \in Nat
      BY DEF Items
    <2>2. items[i] # None => i <= used /\ items[i].purchase # p
      BY <1>0 DEF TablesInv, KnownLines
    <2>3. \A s \in Receipts : i \in Has(s) => items[i] # None
      BY <1>0 DEF TypeOK, Has
    <2> QED
      BY <1>1, <2>1, <2>2, <2>3
  <1> HIDE DEF new
  <1>4. /\ \A q \in Purchases \ {p} : purchases'[q] = purchases[q]
        /\ purchases'[p] = [vendor |-> v, live |-> TRUE] /\ purchases'[p] # None
        /\ UNCHANGED <<status, isStopped, receipts, lock, stale, staleStop, mixed>>
        /\ End(r, {}) /\ begun' \in 0 .. MaxRequests /\ pc[r] = "idle"
    <2>1. [vendor |-> v, live |-> TRUE] \in Purchase
      BY DEF Purchase
    <2>2. begun' \in 0 .. MaxRequests
      BY <1>0, BoundsAssumption DEF CreatePurchase, TypeOK, Arrive
    <2> QED
      BY <1>0, <2>1, <2>2, NoneAssumption DEF CreatePurchase, TypeOK, Arrive
  <1>5. TypeOK'
    <2>1. /\ purchases' \in [Purchases -> Purchase \union {None}]
          /\ items' \in [Items -> Item \union {None}]
          /\ used' \in 0 .. MaxItems
      <3>1. purchases' \in [Purchases -> Purchase \union {None}]
        BY <1>0 DEF CreatePurchase, TypeOK, Purchase
      <3>2. items' = [i \in Items |-> items'[i]]
        BY DEF CreatePurchase, Create
      <3>3. items' \in [Items -> Item \union {None}]
        BY <1>0, <1>2, <3>2 DEF TypeOK
      <3> QED
        BY <1>1, <3>1, <3>3, BoundsAssumption
    <2>2. \A s \in Receipts, i \in Items : ReceiptIn(receipts', s).lines[i] > 0 => items'[i] # None
      BY <1>0, <1>2, <1>4 DEF TypeOK
    <2>3. \A q \in Purchases : lock'[q] # None => pc'[lock'[q]] = "status"
      BY <1>0, <1>4, EndLocks
    <2> QED
      BY <1>0, <1>4, <2>1, <2>2, <2>3, EndStep DEF TypeOK
  <1>6. KnownLines'
    <2> SUFFICES ASSUME NEW i \in Items, items'[i] # None
                 PROVE  i <= used' /\ purchases'[items'[i].purchase] # None
      BY DEF KnownLines
    <2>1. CASE new(i)
      BY <1>1, <1>2, <1>4, <2>1 DEF new
    <2>2. CASE ~new(i)
      <3>1. items'[i] = items[i] /\ items[i].purchase \in Purchases
        BY <1>0, <1>2, <2>2 DEF TypeOK, Item
      <3>2. i \in Nat /\ i <= used /\ purchases[items[i].purchase] # None
        BY <1>0, <3>1 DEF TablesInv, KnownLines, Items
      <3> QED
        BY <1>1, <1>4, <3>1, <3>2
    <2> QED
      BY <2>1, <2>2
  <1>7. Defaults'
    BY <1>0, <1>4 DEF Defaults, TablesInv
  <1>8. SameVendor'
    <2> SUFFICES ASSUME NEW s \in Receipts \ mixed, NEW i \in Items,
                        ReceiptIn(receipts, s).live, receipts[s].lines[i] > 0
                 PROVE  purchases'[items'[i].purchase].vendor = receipts[s].vendor
      BY <1>4 DEF SameVendor, ReceiptIn
    <2>1. ReceiptIn(receipts, s).lines[i] > 0
      BY DEF ReceiptIn, NoReceipt
    <2>2. items[i] # None /\ items[i].purchase \in Purchases
      BY <1>0, <2>1 DEF TypeOK, Item
    <2> QED
      BY <1>0, <1>2, <1>3, <1>4, <2>2 DEF TablesInv, SameVendor
  <1>9. LinesStay({})
    <2>1. \A i \in Items : items[i] = None /\ items'[i] # None => i > used
      BY <1>2 DEF new
    <2>2. \A i \in Items : items[i] # None /\ items'[i] # None =>
            /\ items'[i].purchase = items[i].purchase
            /\ purchases'[items[i].purchase].vendor = purchases[items[i].purchase].vendor
      BY <1>0, <1>2, <1>3, <1>4 DEF TypeOK, Item
    <2>3. ASSUME NEW q \in Purchases, purchases[q] # None PROVE SameLines(q)
      BY <1>0, <1>2, <1>3, <2>3 DEF SameLines, LinesOf
    <2> QED
      BY <1>1, <1>4, <2>1, <2>2, <2>3 DEF LinesStay
  <1>10. ASSUME NEW q \in Requests \ {r} PROVE RowsStay(q, {})
    <2>1. \A i \in Items : items[i] # None => items'[i] = items[i]
      BY <1>2, <1>3
    <2> QED
      BY <1>4, <2>1, TouchesKnown, StoppedKnown DEF RowsStay, Has
  <1>11. ASSUME NewFormsActive
         PROVE  \E k \in Items : items'[k] # None /\ items'[k].purchase = p /\ ~items'[k].stopped
    <2>1. PICK j \in DOMAIN lines : ~lines[j].stopped
      BY <1>11 DEF NewFormsActive
    <2>2. j \in Nat /\ 1 <= j /\ j <= Len(lines)
      BY <1>0, <2>1
    <2>3. used + j \in Items /\ new(used + j) /\ (used + j) - used = j
      BY <1>1, <2>2, BoundsAssumption DEF Items, new
    <2> QED
      BY <1>2, <2>1, <2>3
  <1>12. StatusRight'
    <2>1. \A i \in Items : items'[i] # None /\ items'[i].purchase = p => Of(i, receipts) = 0
      BY <1>0, <1>2, <1>3, UnlinkedZero, OfZero
    <2>2. NewFormsActive => Status(items', p, receipts) = 0
      BY <1>11, <2>1, StatusUnlinked
    <2>3. NewFormsActive => StatusOf(p, receipts)' = 0
      BY <1>4, <2>2 DEF StatusOf, Status, Active, LinesOf
    <2>4. status[p] = 0
      BY <1>0 DEF TablesInv, Defaults
    <2>5. \A q \in Purchases : purchases[q] # None => StatusOf(q, receipts)' = StatusOf(q, receipts)
      BY <1>4, <1>9, StatusKept DEF LinesStay
    <2> QED
      BY <1>0, <1>4, <2>3, <2>4, <2>5 DEF StatusRight, StatusUnlessOutrun, TablesInv, Live
  <1>13. StoppedRight'
    <2>1. /\ NewFormsActive => Active(p)' # {}
          /\ isStopped[p] = FALSE
      BY <1>0, <1>11 DEF Active, LinesOf, TablesInv, Defaults
    <2>2. \A q \in Purchases : purchases[q] # None => Active(q)' = Active(q)
      BY <1>9 DEF LinesStay, SameLines, Active, LinesOf
    <2> QED
      BY <1>0, <1>4, <2>1, <2>2 DEF StoppedRight, StoppedUnlessOutrun, TablesInv, Live
  <1> QED
    BY <1>4, <1>5, <1>6, <1>7, <1>8, <1>9, <1>10, <1>12, <1>13, LoudStep DEF TablesInv

LEMMA DeletePurchaseInv ==
  ASSUME IInv, NEW r \in Requests, NEW p \in Purchases, DeletePurchase(r, p)
  PROVE  IInv'
  <1>0. TypeOK /\ TablesInv
    BY DEF IInv, TablesInv
  <1>1. /\ \A q \in Purchases \ {p} : purchases'[q] = purchases[q]
        /\ purchases[p] # None /\ purchases'[p] # None /\ ~purchases'[p].live
        /\ \A q \in Purchases : purchases[q] # None => purchases'[q].vendor = purchases[q].vendor
        /\ \A q \in Purchases : Live(q)' => q # p /\ Live(q)
        /\ purchases' \in [Purchases -> Purchase \union {None}]
    <2>1. purchases[p] \in Purchase
      BY <1>0 DEF DeletePurchase, Live, TypeOK
    <2>2. \A q \in Purchases \ {p} : purchases'[q] = purchases[q]
      BY <1>0 DEF DeletePurchase, TypeOK
    <2>3. purchases'[p] = [purchases[p] EXCEPT !.live = FALSE]
      BY <1>0 DEF DeletePurchase, TypeOK
    <2>4. purchases'[p] \in Purchase /\ purchases'[p].vendor = purchases[p].vendor /\ ~purchases'[p].live
      BY <2>1, <2>3 DEF Purchase
    <2>5. purchases' = [purchases EXCEPT ![p] = purchases'[p]]
      BY <1>0 DEF DeletePurchase, TypeOK
    <2>6. purchases' \in [Purchases -> Purchase \union {None}]
      BY <1>0, <2>4, <2>5 DEF TypeOK
    <2> QED
      BY <2>1, <2>2, <2>4, <2>6, NoneAssumption DEF Live
  <1>2. /\ UNCHANGED <<status, isStopped, items, used, receipts, lock, stale, staleStop, mixed>>
        /\ End(r, {}) /\ begun' \in 0 .. MaxRequests /\ pc[r] = "idle"
    BY <1>0, BoundsAssumption DEF DeletePurchase, Arrive, TypeOK
  <1>3. TypeOK'
    <2>1. \A q \in Purchases : lock'[q] # None => pc'[lock'[q]] = "status"
      BY <1>0, <1>2, EndLocks
    <2> QED
      BY <1>0, <1>1, <1>2, <2>1, EndStep DEF TypeOK
  <1>4. KnownLines' /\ Defaults' /\ SameVendor'
    BY <1>0, <1>1, <1>2 DEF TablesInv, KnownLines, Defaults, SameVendor, TypeOK, Item, ReceiptIn, NoReceipt, NoLines
  <1>5. LinesStay({})
    <2>1. \A i \in Items : items[i] # None => items[i].purchase \in Purchases
                                            /\ purchases[items[i].purchase] # None
      BY <1>0 DEF TablesInv, KnownLines, TypeOK, Item
    <2>2. used' >= used
      BY <1>0, <1>2, BoundsAssumption DEF TypeOK
    <2> QED
      BY <1>1, <1>2, <2>1, <2>2 DEF LinesStay, SameLines
  <1>6. \A q \in Requests \ {r} : RowsStay(q, {})
    BY <1>2, TouchesKnown DEF RowsStay, Has
  <1>7. StatusRight'
    <2>1. \A q \in Purchases : StatusOf(q, receipts)' = StatusOf(q, receipts)
      BY <1>2, StatusKept DEF SameLines
    <2> QED
      BY <1>0, <1>1, <1>2, <2>1 DEF TablesInv, StatusRight, StatusUnlessOutrun
  <1>8. StoppedRight'
    BY <1>0, <1>1, <1>2 DEF TablesInv, StoppedRight, StoppedUnlessOutrun, Active, LinesOf
  <1> QED
    BY <1>2, <1>3, <1>4, <1>5, <1>6, <1>7, <1>8, LoudStep DEF TablesInv

LEMMA SetStatusStep ==
  ASSUME TypeOK, NEW p \in Purchases, NEW stop \in BOOLEAN, NEW value \in 0 .. 2,
         SetStatus(p, stop, value)
  PROVE  /\ status' \in [Purchases -> 0 .. 2] /\ isStopped' \in [Purchases -> BOOLEAN]
         /\ stale' \in [Purchases -> BOOLEAN]
         /\ ~stale'[p] /\ (Live(p) => status'[p] = value /\ isStopped'[p] = stop)
         /\ ~Live(p) => status'[p] = status[p] /\ isStopped'[p] = isStopped[p]
         /\ \A q \in Purchases \ {p} :
              status'[q] = status[q] /\ isStopped'[q] = isStopped[q] /\ stale'[q] = stale[q]
  <1>1. /\ status' \in [Purchases -> 0 .. 2] /\ isStopped' \in [Purchases -> BOOLEAN]
        /\ stale' \in [Purchases -> BOOLEAN]
    BY DEF SetStatus, TypeOK
  <1> QED
    BY <1>1 DEF SetStatus, TypeOK

LEMMA UpdatePurchaseInv ==
  ASSUME IInv, NEW r \in Requests, NEW p \in Purchases, UpdatePurchase(r, p)
  PROVE  IInv'
  <1> DEFINE lines == form[r].lines
             old == LinesOf(p)
             new(i) == i > used /\ i <= used + Len(lines)
  <1>0. TypeOK /\ TablesInv /\ RequestInv(r)
    BY DEF IInv, TablesInv
  <1>1. /\ pc[r] = "rewrite" /\ doc[r] = {p} /\ purchases[p] # None
        /\ form[r].vendor \in Vendors /\ lines \in Seq(FormLine)
    BY <1>0, FormsAssumption DEF UpdatePurchase, RequestInv, Private
  <1>2. used \in Nat /\ Len(lines) \in Nat /\ used + Len(lines) <= MaxItems /\ used' = used + Len(lines)
    BY <1>0, <1>1, BoundsAssumption DEF TypeOK, UpdatePurchase
  <1>3. ASSUME NEW i \in Items
        PROVE  /\ items[i] # None => ~new(i)
               /\ i \in old => items'[i] = None
               /\ i \notin old /\ new(i) =>
                    items'[i] \in Item /\ items'[i].purchase = p /\ items'[i] # None
               /\ i \notin old /\ ~new(i) => items'[i] = items[i]
    <2>1. i \in Nat /\ (items[i] # None => i <= used)
      BY <1>0 DEF Items, TablesInv, KnownLines
    <2>2. items'[i] = IF i \in old THEN None ELSE Create(p, lines)[i]
      BY DEF UpdatePurchase
    <2>3. items[i] # None => ~new(i)
      BY <1>2, <2>1
    <2>5. \A l \in Seq(FormLine) :
            /\ i > used /\ i <= used + Len(l) =>
                 Create(p, l)[i] \in Item /\ Create(p, l)[i].purchase = p /\ Create(p, l)[i] # None
            /\ ~(i > used /\ i <= used + Len(l)) => Create(p, l)[i] = items[i]
      BY <1>0, NewLines
    <2> HIDE DEF old, lines
    <2>4. /\ new(i) => Create(p, lines)[i] \in Item /\ Create(p, lines)[i].purchase = p
                       /\ Create(p, lines)[i] # None
          /\ ~new(i) => Create(p, lines)[i] = items[i]
      BY <1>1, <2>5
    <2> HIDE DEF new
    <2> QED
      BY <2>2, <2>3, <2>4
  <1>4. \A i \in old : i \in Items /\ items[i] # None /\ items[i].purchase = p
    BY DEF LinesOf
  <1>5. \A i \in Items : items[i] # None /\ items[i].purchase = p => i \in old
    BY DEF LinesOf
  <1> HIDE DEF new, old, lines
  <1>6. /\ \A q \in Purchases \ {p} : purchases'[q] = purchases[q]
        /\ purchases'[p] # None /\ (Live(p)' <=> Live(p))
        /\ purchases' \in [Purchases -> Purchase \union {None}]
    <2>1. purchases[p] \in Purchase
      BY <1>0, <1>1 DEF TypeOK
    <2>2. [purchases[p] EXCEPT !.vendor = form[r].vendor] \in Purchase
      BY <1>1, <2>1 DEF Purchase
    <2>3. [purchases[p] EXCEPT !.vendor = form[r].vendor].live = purchases[p].live
      BY <2>1 DEF Purchase
    <2>4. \/ purchases' = purchases
          \/ purchases' = [purchases EXCEPT ![p] = [purchases[p] EXCEPT !.vendor = form[r].vendor]]
      BY <1>0 DEF UpdatePurchase, TypeOK
    <2>5. purchases' \in [Purchases -> Purchase \union {None}]
      BY <1>0, <2>2, <2>4 DEF TypeOK
    <2>6. purchases'[p] \in Purchase /\ purchases'[p].live = purchases[p].live
      BY <1>0, <2>1, <2>2, <2>3, <2>4 DEF TypeOK
    <2> QED
      BY <1>0, <1>1, <2>4, <2>5, <2>6, NoneAssumption DEF Live, TypeOK
  <1>7. /\ UNCHANGED <<receipts, begun, lock, mixed>>
        /\ staleStop' = [staleStop EXCEPT ![p] = FALSE] /\ End(r, {p})
    BY DEF UpdatePurchase
  <1>8. SetStatus(p, Active(p)' = {}, StatusOf(p, receipts)') /\ StatusOf(p, receipts)' \in 0 .. 2
    BY StatusTypeNext DEF UpdatePurchase
  <1>9. /\ \A i \in old : \A s \in Receipts : i \notin Has(s)
        /\ \A q \in Requests : \A i \in Touches(q) : i \notin old
        /\ \A q \in Requests : pc[q] = "stopped" => \A i \in seen[q] : i \notin old
    <2>1. Deletable(p) /\ ~Stopping(p)
      BY DEF UpdatePurchase
    <2> QED
      BY <2>1 DEF Deletable, Stopping, Has, old
  <1>10. items' \in [Items -> Item \union {None}]
    <2>1. items' = [i \in Items |-> items'[i]]
      BY DEF UpdatePurchase
    <2> QED
      BY <1>0, <1>3, <2>1 DEF TypeOK
  <1>11. TypeOK'
    <2>1. \A s \in Receipts, i \in Items : ReceiptIn(receipts', s).lines[i] > 0 => items'[i] # None
      BY <1>0, <1>3, <1>7, <1>9 DEF TypeOK, Has
    <2>2. \A q \in Purchases : lock'[q] # None => pc'[lock'[q]] = "status"
      BY <1>0, <1>1, <1>7, EndLocks
    <2>3. /\ status' \in [Purchases -> 0 .. 2] /\ isStopped' \in [Purchases -> BOOLEAN]
          /\ stale' \in [Purchases -> BOOLEAN]
      BY <1>0, <1>8, SetStatusStep
    <2>4. staleStop' \in [Purchases -> BOOLEAN] /\ used' \in 0 .. MaxItems
      BY <1>0, <1>2, <1>7, BoundsAssumption DEF TypeOK
    <2> QED
      BY <1>0, <1>6, <1>7, <1>10, <2>1, <2>2, <2>3, <2>4, EndStep DEF TypeOK
  <1>12. KnownLines'
    <2> SUFFICES ASSUME NEW i \in Items, items'[i] # None
                 PROVE  i <= used' /\ purchases'[items'[i].purchase] # None
      BY DEF KnownLines
    <2>1. CASE new(i) /\ i \notin old
      BY <1>2, <1>3, <1>6, <2>1 DEF new
    <2>2. CASE ~new(i) /\ i \notin old
      <3>1. items'[i] = items[i] /\ items[i].purchase \in Purchases
        BY <1>0, <1>3, <2>2 DEF TypeOK, Item
      <3>2. i \in Nat /\ i <= used /\ purchases[items[i].purchase] # None
        BY <1>0, <3>1 DEF TablesInv, KnownLines, Items
      <3> QED
        BY <1>2, <1>6, <3>1, <3>2
    <2> QED
      BY <1>3, <2>1, <2>2
  <1>13. /\ ~stale'[p] /\ (Live(p) => status'[p] = StatusOf(p, receipts)')
         /\ Live(p) => (isStopped'[p] <=> Active(p)' = {})
         /\ \A q \in Purchases \ {p} :
              status'[q] = status[q] /\ isStopped'[q] = isStopped[q] /\ stale'[q] = stale[q]
    BY <1>0, <1>8, SetStatusStep
  <1>14. Defaults'
    BY <1>0, <1>6, <1>13 DEF Defaults, TablesInv
  <1>15. SameVendor'
    <2> SUFFICES ASSUME NEW s \in Receipts \ mixed, NEW i \in Items,
                        ReceiptIn(receipts, s).live, receipts[s].lines[i] > 0
                 PROVE  purchases'[items'[i].purchase].vendor = receipts[s].vendor
      BY <1>7 DEF SameVendor, ReceiptIn
    <2>1. i \in Has(s)
      BY DEF Has, ReceiptIn, NoReceipt
    <2>2. items[i] # None /\ items[i].purchase \in Purchases
      BY <1>0, <2>1 DEF TypeOK, Item, Has
    <2>3. i \notin old /\ items[i].purchase # p /\ items'[i] = items[i]
      BY <1>3, <1>5, <1>9, <2>1, <2>2
    <2> QED
      BY <1>0, <1>6, <2>2, <2>3 DEF TablesInv, SameVendor
  <1>16. LinesStay({p})
    <2>1. \A i \in Items : items[i] = None /\ items'[i] # None => i > used
      BY <1>3, <1>4 DEF new
    <2>2. ASSUME NEW i \in Items, items[i] # None, items'[i] # None
          PROVE  items'[i] = items[i] /\ items[i].purchase # p /\ items[i].purchase \in Purchases
      BY <1>0, <1>3, <1>5, <2>2 DEF TypeOK, Item
    <2>3. ASSUME NEW q \in Purchases \ {p} PROVE SameLines(q)
      BY <1>3, <1>4, <2>3 DEF SameLines, LinesOf
    <2> QED
      BY <1>2, <1>6, <2>1, <2>2, <2>3 DEF LinesStay
  <1>17. ASSUME NEW q \in Requests \ {r} PROVE RowsStay(q, {p})
    <2>1. \A i \in Items : items[i] # None /\ i \notin old => items'[i] = items[i]
      BY <1>3
    <2> QED
      BY <1>7, <1>9, <2>1, TouchesKnown, StoppedKnown DEF RowsStay, Has
  <1>18. StatusRight'
    <2>1. \A q \in Purchases \ {p} : purchases[q] # None => StatusOf(q, receipts)' = StatusOf(q, receipts)
      BY <1>7, <1>16, StatusKept DEF LinesStay
    <2> QED
      BY <1>0, <1>6, <1>13, <2>1 DEF StatusRight, StatusUnlessOutrun, TablesInv, Live
  <1>19. StoppedRight'
    <2>1. \A q \in Purchases \ {p} : purchases[q] # None => Active(q)' = Active(q)
      BY <1>16 DEF LinesStay, SameLines, Active, LinesOf
    <2>2. \A q \in Purchases \ {p} : staleStop'[q] = staleStop[q]
      BY <1>7, <1>0 DEF TypeOK
    <2> QED
      BY <1>0, <1>6, <1>13, <2>1, <2>2 DEF StoppedRight, StoppedUnlessOutrun, TablesInv, Live
  <1> QED
    BY <1>7, <1>11, <1>12, <1>14, <1>15, <1>16, <1>17, <1>18, <1>19, LoudStep DEF TablesInv

LEMMA FinishStopInv ==
  ASSUME IInv, NEW r \in Requests, NEW p \in Purchases, FinishStop(r, p)
  PROVE  IInv'
  <1>0. TypeOK /\ TablesInv /\ RequestInv(r)
    BY DEF IInv, TablesInv
  <1>1. /\ pc[r] = "stopped" /\ doc[r] = {p} /\ purchases[p] # None
        /\ UNCHANGED <<receipts, begun, purchases, used, lock, mixed>>
        /\ staleStop' = [staleStop EXCEPT ![p] = p \in outrun[r]] /\ End(r, {p})
    BY <1>0 DEF FinishStop, RequestInv, Private
  <1>2. /\ \A i \in seen[r] : i \in Items /\ i \in Active(p)
        /\ p \notin outrun[r] => (p \in todo[r] <=> Active(p) \subseteq seen[r])
    BY <1>0, <1>1 DEF RequestInv, Stops, Active, LinesOf
  <1>3. ASSUME NEW i \in Items
        PROVE  /\ i \in seen[r] => /\ items[i] # None /\ items[i].purchase = p
                                   /\ items'[i] \in Item /\ items'[i] # None
                                   /\ items'[i].purchase = p /\ items'[i].stopped
               /\ i \notin seen[r] => items'[i] = items[i]
    <2>1. i \in seen[r] => items[i] \in Item /\ items[i].purchase = p /\ items[i] # None
      BY <1>0, <1>2 DEF TypeOK, Active, LinesOf
    <2>2. items'[i] = IF i \in seen[r] THEN [items[i] EXCEPT !.stopped = TRUE] ELSE items[i]
      BY DEF FinishStop
    <2>3. ASSUME i \in seen[r]
          PROVE  items'[i] \in Item /\ items'[i].purchase = p /\ items'[i].stopped
      BY <2>1, <2>2, <2>3 DEF Item
    <2> QED
      BY <2>1, <2>2, <2>3, NoneAssumption
  <1>4. /\ ~stale'[p] /\ (Live(p) => status'[p] = StatusOf(p, receipts)')
        /\ Live(p) => isStopped'[p] = (p \in todo[r])
        /\ ~Live(p) => isStopped'[p] = isStopped[p] /\ status'[p] = status[p]
        /\ \A q \in Purchases \ {p} :
              status'[q] = status[q] /\ isStopped'[q] = isStopped[q] /\ stale'[q] = stale[q]
        /\ status' \in [Purchases -> 0 .. 2] /\ isStopped' \in [Purchases -> BOOLEAN]
        /\ stale' \in [Purchases -> BOOLEAN]
    <2> DEFINE stop == p \in todo[r]
               value == StatusOf(p, receipts)'
    <2>1. SetStatus(p, stop, value) /\ stop \in BOOLEAN /\ value \in 0 .. 2
      BY StatusTypeNext DEF FinishStop
    <2>2. \A st \in BOOLEAN, vl \in 0 .. 2 : SetStatus(p, st, vl) =>
            /\ ~stale'[p] /\ (Live(p) => status'[p] = vl)
            /\ Live(p) => isStopped'[p] = st
            /\ ~Live(p) => isStopped'[p] = isStopped[p] /\ status'[p] = status[p]
            /\ \A q \in Purchases \ {p} :
                  status'[q] = status[q] /\ isStopped'[q] = isStopped[q] /\ stale'[q] = stale[q]
            /\ status' \in [Purchases -> 0 .. 2] /\ isStopped' \in [Purchases -> BOOLEAN]
            /\ stale' \in [Purchases -> BOOLEAN]
      BY <1>0, SetStatusStep
    <2> HIDE DEF stop, value
    <2>3. /\ Live(p) => status'[p] = value /\ isStopped'[p] = stop
          /\ ~stale'[p]
          /\ ~Live(p) => isStopped'[p] = isStopped[p] /\ status'[p] = status[p]
          /\ \A q \in Purchases \ {p} :
                status'[q] = status[q] /\ isStopped'[q] = isStopped[q] /\ stale'[q] = stale[q]
          /\ status' \in [Purchases -> 0 .. 2] /\ isStopped' \in [Purchases -> BOOLEAN]
          /\ stale' \in [Purchases -> BOOLEAN]
      BY <2>1, <2>2
    <2> QED
      BY <2>3 DEF stop, value
  <1>5. TypeOK'
    <2>1. items' \in [Items -> Item \union {None}]
      <3>1. items' = [i \in Items |-> items'[i]]
        BY DEF FinishStop
      <3> QED
        BY <1>0, <1>3, <3>1 DEF TypeOK
    <2>2. \A s \in Receipts, i \in Items : ReceiptIn(receipts', s).lines[i] > 0 => items'[i] # None
      BY <1>0, <1>1, <1>3 DEF TypeOK
    <2>3. \A q \in Purchases : lock'[q] # None => pc'[lock'[q]] = "status"
      BY <1>0, <1>1, EndLocks
    <2>4. staleStop' \in [Purchases -> BOOLEAN]
      BY <1>0, <1>1 DEF TypeOK
    <2> QED
      BY <1>0, <1>1, <1>4, <2>1, <2>2, <2>3, <2>4, EndStep DEF TypeOK
  <1>6. \A i \in Items : /\ items'[i] # None <=> items[i] # None
                         /\ items'[i].purchase = items[i].purchase
    BY <1>3
  <1>7. KnownLines' /\ Defaults' /\ SameVendor'
    <2>1. KnownLines'
      BY <1>0, <1>1, <1>6 DEF TablesInv, KnownLines
    <2>2. Defaults'
      BY <1>0, <1>1, <1>4 DEF TablesInv, Defaults
    <2>3. SameVendor'
      BY <1>0, <1>1, <1>6 DEF TablesInv, SameVendor, ReceiptIn
    <2> QED
      BY <2>1, <2>2, <2>3
  <1>8. LinesStay({p})
    <2>1. \A q \in Purchases \ {p} : SameLines(q)
      BY <1>3 DEF SameLines, LinesOf
    <2>2. used' >= used
      BY <1>0, <1>1, BoundsAssumption DEF TypeOK
    <2> QED
      BY <1>1, <1>6, <2>1, <2>2 DEF LinesStay
  <1>9. ASSUME NEW q \in Requests \ {r} PROVE RowsStay(q, {p})
    <2>1. pc[q] = "status" => \A i \in Touches(q) : items'[i] # None
      BY <1>6, TouchesKnown
    <2>2. pc[q] = "stopped" => \A i \in seen[q] : i \in Items /\ i \notin seen[r]
      BY <1>1, StoppedKnown DEF IInv, Apart
    <2> QED
      BY <1>1, <1>3, <2>1, <2>2 DEF RowsStay, Has
  <1>10. StatusRight'
    <2>1. \A q \in Purchases \ {p} : purchases[q] # None => StatusOf(q, receipts)' = StatusOf(q, receipts)
      BY <1>1, <1>8, StatusKept DEF LinesStay
    <2> QED
      BY <1>0, <1>1, <1>4, <2>1 DEF StatusRight, StatusUnlessOutrun, TablesInv, Live
  <1>11. StoppedRight'
    <2>1. \A q \in Purchases \ {p} : purchases[q] # None => Active(q)' = Active(q)
      BY <1>8 DEF LinesStay, SameLines, Active, LinesOf
    <2>2. staleStop'[p] = (p \in outrun[r]) /\ \A q \in Purchases \ {p} : staleStop'[q] = staleStop[q]
      BY <1>0, <1>1 DEF TypeOK
    <2>3. Active(p)' = Active(p) \ seen[r]
      BY <1>2, <1>3 DEF Active, LinesOf
    <2>4. Active(p)' = {} <=> Active(p) \subseteq seen[r]
      BY <2>3
    <2>5. Live(p)' /\ ~staleStop'[p] => (isStopped'[p] <=> Active(p)' = {})
      BY <1>1, <1>2, <1>4, <2>2, <2>4 DEF Live
    <2> QED
      BY <1>0, <1>1, <1>4, <2>1, <2>2, <2>5 DEF StoppedRight, StoppedUnlessOutrun, TablesInv, Live
  <1> QED
    BY <1>1, <1>5, <1>7, <1>8, <1>9, <1>10, <1>11, LoudStep DEF TablesInv

(* The receipts as a transaction leaves them.                              *)
LEMMA AfterRows ==
  ASSUME IInv, NEW r \in Requests, pc[r] = "status"
  PROVE  /\ After(r) \in [Receipts -> Receipt \union {None}]
         /\ \A s \in Receipts \ doc[r] : After(r)[s] = receipts[s]
         /\ \A s \in Receipts : receipts[s] # None => After(r)[s] # None
         /\ \A s \in doc[r] :
              /\ s \in Receipts /\ After(r)[s] # None
              /\ form[r] = None => ~After(r)[s].live /\ After(r)[s].lines = receipts[s].lines
              /\ form[r] # None => \A i \in Items : After(r)[s].lines[i] =
                   form[r].receipts[s].lines[i] + (IF blind[r] THEN receipts[s].lines[i] ELSE 0)
              /\ blind[r] => After(r)[s].live = receipts[s].live
              /\ form[r] # None /\ After(r)[s].live =>
                   After(r)[s].vendor = form[r].receipts[s].vendor
  <1>1. TypeOK /\ doc[r] \subseteq Receipts
    BY DEF IInv, TablesInv, RequestInv, Private, Receiving
  <1>2. \A s \in doc[r] : /\ form[r] # None => form[r].receipts[s] \in Receipt
                          /\ form[r] = None => receipts[s] # None
                          /\ receipts[s] # None => receipts[s] \in Receipt
                          /\ blind[r] => form[r] # None /\ receipts[s] # None
    BY <1>1 DEF IInv, TablesInv, RequestInv, Private, Receiving, TypeOK
  <1>3. ASSUME NEW s \in doc[r]
        PROVE  /\ After(r)[s] \in Receipt
               /\ form[r] = None => ~After(r)[s].live /\ After(r)[s].lines = receipts[s].lines
               /\ form[r] # None => \A i \in Items : After(r)[s].lines[i] =
                    form[r].receipts[s].lines[i] + (IF blind[r] THEN receipts[s].lines[i] ELSE 0)
               /\ blind[r] => After(r)[s].live = receipts[s].live
               /\ form[r] # None /\ After(r)[s].live =>
                    After(r)[s].vendor = form[r].receipts[s].vendor
    <2>1. CASE form[r] = None
      <3>1. After(r)[s] = [receipts[s] EXCEPT !.live = FALSE]
        BY <1>1, <2>1 DEF After
      <3> QED
        BY <1>2, <2>1, <3>1 DEF Receipt
    <2>2. CASE form[r] # None /\ receipts[s] = None
      <3>1. After(r)[s] = form[r].receipts[s]
        BY <1>1, <2>2 DEF After
      <3> QED
        BY <1>2, <2>2, <3>1 DEF Receipt, Lines
    <2>3. CASE form[r] # None /\ receipts[s] # None
      <3> DEFINE new == form[r].receipts[s]
                 lines == [i \in Items |-> new.lines[i] + Left(r, s)[i]]
      <3>1. After(r)[s] = [receipts[s] EXCEPT !.lines = lines,
                             !.vendor = IF receipts[s].live THEN new.vendor ELSE @]
        BY <1>1, <2>3 DEF After
      <3>2. receipts[s] \in Receipt /\ new \in Receipt
        BY <1>2, <2>3
      <3>3. \A i \in Items : Left(r, s)[i] = (IF blind[r] THEN receipts[s].lines[i] ELSE 0)
        BY DEF Left, NoLines
      <3>4. \A i \in Items : new.lines[i] \in Nat /\ Left(r, s)[i] \in Nat
        BY <3>2, <3>3 DEF Receipt, Lines
      <3>5. lines \in Lines
        BY <3>4 DEF Lines
      <3>6. \A i \in Items : lines[i] = new.lines[i] + (IF blind[r] THEN receipts[s].lines[i] ELSE 0)
        BY <3>3
      <3> HIDE DEF lines, new
      <3>7. /\ After(r)[s] \in Receipt /\ After(r)[s].lines = lines
            /\ After(r)[s].live = receipts[s].live
            /\ After(r)[s].live => After(r)[s].vendor = new.vendor
        BY <3>1, <3>2, <3>5 DEF Receipt
      <3> QED
        BY <2>3, <3>6, <3>7 DEF new
    <2> QED
      BY <2>1, <2>2, <2>3
  <1>4. \A s \in Receipts \ doc[r] : After(r)[s] = receipts[s]
    BY DEF After
  <1>5. After(r) = [s \in Receipts |-> After(r)[s]]
    BY DEF After
  <1>6. \A s \in Receipts : After(r)[s] \in Receipt \union {None}
    BY <1>1, <1>3, <1>4 DEF TypeOK
  <1>7. \A s \in doc[r] : After(r)[s] # None
    BY <1>3, NoneAssumption
  <1> HIDE DEF After
  <1>8. After(r) \in [Receipts -> Receipt \union {None}]
    BY <1>5, <1>6
  <1> QED
    BY <1>1, <1>3, <1>4, <1>7, <1>8

LEMMA CommitInv ==
  ASSUME IInv, NEW r \in Requests, Commit(r)
  PROVE  IInv'
  <1> DEFINE touched == PurchasesTouched(r)
             done == {p \in Purchases : written[r][p] # None}
  <1>0. TypeOK /\ TablesInv /\ RequestInv(r) /\ touched \in SUBSET Purchases
    BY DEF IInv, TablesInv, PurchasesTouched
  <1>1. /\ pc[r] = "status" /\ todo[r] = {} /\ computed[r] = None /\ receipts' = After(r)
        /\ End(r, touched)
        /\ UNCHANGED <<begun, purchases, isStopped, items, used, staleStop>>
        /\ \A p \in Purchases : status'[p] = IF p \in done /\ Live(p) THEN written[r][p] ELSE status[p]
        /\ \A p \in Purchases : ~stale'[p] =>
             IF p \in done THEN p \notin outrun[r]
             ELSE ~stale[p] /\ p \notin touched \intersect outrun[r]
    <2>1. stale' = [p \in Purchases |->
            IF p \in done THEN p \in outrun[r]
            ELSE stale[p] \/ p \in touched \intersect outrun[r]]
      BY DEF Commit
    <2>2. \A p \in Purchases : ~stale'[p] =>
             IF p \in done THEN p \notin outrun[r]
             ELSE ~stale[p] /\ p \notin touched \intersect outrun[r]
      <3> HIDE DEF touched, done
      <3> QED
        BY <1>0, <2>1 DEF TypeOK
    <2> QED
      BY <2>2 DEF Commit
  <1>2. /\ receipts' \in [Receipts -> Receipt \union {None}]
        /\ \A s \in Receipts \ doc[r] : receipts'[s] = receipts[s]
        /\ \A s \in Receipts : receipts[s] # None => receipts'[s] # None
        /\ \A s \in doc[r] :
              /\ s \in Receipts /\ receipts'[s] # None
              /\ form[r] = None => /\ ~receipts'[s].live /\ receipts[s] # None
                                   /\ receipts'[s].lines = receipts[s].lines
              /\ form[r] # None => \A i \in Items : receipts'[s].lines[i] =
                   form[r].receipts[s].lines[i] + (IF blind[r] THEN receipts[s].lines[i] ELSE 0)
              /\ blind[r] => /\ receipts'[s].live = receipts[s].live
                             /\ form[r] # None /\ receipts[s] # None
              /\ form[r] # None /\ receipts'[s].live =>
                   receipts'[s].vendor = form[r].receipts[s].vendor
    BY <1>0, <1>1, AfterRows DEF RequestInv, Private, Receiving
  <1>13. mixed \subseteq mixed' /\ mixed' \subseteq Receipts
    BY <1>0, <1>2 DEF Commit, TypeOK
  <1>3. ASSUME NEW s \in doc[r], NEW i \in Items
        PROVE  /\ i \in Has(s)' => i \in Has(s) \/ i \in Gets(r, s)
               /\ i \in Gets(r, s) \/ (i \in Has(s) /\ ~blind[r]) => i \in Touches(r)
    <2>1. receipts[s] # None => receipts[s].lines[i] \in Nat
      BY <1>0, <1>2 DEF TypeOK, Receipt, Lines
    <2>2. form[r] # None => form[r].receipts[s].lines[i] \in Nat
      BY <1>0, <1>1 DEF RequestInv, Private, Receiving, Receipt, Lines
    <2> QED
      BY <1>1, <1>2, <2>1, <2>2 DEF Has, Gets, Touches, ReceiptIn
  <1>4. \A i \in Touches(r) : i \in Items /\ items[i] # None /\ items[i].purchase \in touched
    BY <1>0, <1>1, TouchesKnown DEF PurchasesTouched, LinesOf, TypeOK, Item
  <1>5. ASSUME NEW p \in Purchases \ touched, NEW i \in LinesOf(p), NEW s \in Receipts
        PROVE  Part(receipts, s, i) = Part(receipts', s, i)
    <2>1. i \in Items /\ i \notin Touches(r)
      BY <1>4 DEF LinesOf
    <2>2. CASE s \notin doc[r]
      BY <1>2, <2>2 DEF Part, ReceiptIn
    <2>3. CASE s \in doc[r]
      <3>1. CASE blind[r]
        <4>1. /\ receipts[s] # None /\ receipts'[s] # None /\ receipts'[s].live = receipts[s].live
              /\ receipts'[s].lines[i] = form[r].receipts[s].lines[i] + receipts[s].lines[i]
          BY <1>2, <2>1, <2>3, <3>1
        <4>2. receipts[s].lines[i] \in Nat
          BY <1>0, <2>1, <4>1 DEF TypeOK, Receipt, Lines
        <4>3. form[r] # None /\ form[r].receipts[s].lines[i] \in Nat
          BY <1>0, <1>1, <1>2, <2>1, <2>3, <3>1 DEF RequestInv, Private, Receiving, Receipt, Lines
        <4>4. form[r].receipts[s].lines[i] = 0
          BY <1>3, <2>1, <2>3, <4>3 DEF Gets
        <4> QED
          BY <4>1, <4>2, <4>4 DEF Part, ReceiptIn
      <3>2. CASE ~blind[r]
        <4>1. i \notin Has(s) /\ i \notin Has(s)'
          BY <1>3, <2>1, <2>3, <3>2
        <4>2. ReceiptIn(receipts, s).lines[i] = 0
          BY <1>0, <2>1, <4>1 DEF Has, ReceiptIn, NoReceipt, NoLines, TypeOK, Receipt, Lines
        <4>3. ReceiptIn(receipts', s).lines[i] = 0
          BY <1>2, <2>1, <4>1 DEF Has, ReceiptIn, NoReceipt, NoLines, Receipt, Lines
        <4> QED
          BY <4>2, <4>3 DEF Part
      <3> QED
        BY <3>1, <3>2
    <2> QED
      BY <2>2, <2>3
  <1> HIDE DEF touched
  <1>6. TypeOK'
    <2>1. \A s \in Receipts, i \in Items : ReceiptIn(receipts', s).lines[i] > 0 => items'[i] # None
      <3> SUFFICES ASSUME NEW s \in Receipts, NEW i \in Items, i \in Has(s)' PROVE items[i] # None
        BY <1>1 DEF Has
      <3>1. CASE s \notin doc[r]
        BY <1>0, <1>2, <3>1 DEF Has, ReceiptIn, TypeOK
      <3>2. CASE s \in doc[r]
        BY <1>0, <1>3, <1>4, <3>2 DEF TypeOK, Has
      <3> QED
        BY <3>1, <3>2
    <2>2. \A p \in Purchases : written[r][p] \in (0 .. 2) \union {None}
      BY <1>0 DEF TypeOK
    <2>3. status' \in [Purchases -> 0 .. 2]
      <3>1. \A p \in Purchases : status'[p] \in 0 .. 2
        BY <1>0, <1>1, <2>2 DEF TypeOK
      <3>2. status' = [p \in Purchases |-> status'[p]]
        BY DEF Commit
      <3> QED
        BY <3>1, <3>2
    <2>4. stale' \in [Purchases -> BOOLEAN]
      <3>1. \A p \in Purchases : (p \in outrun[r]) \in BOOLEAN
                                 /\ (stale[p] \/ p \in touched \intersect outrun[r]) \in BOOLEAN
        OBVIOUS
      <3>2. stale' = [p \in Purchases |->
              IF p \in done THEN p \in outrun[r]
              ELSE stale[p] \/ p \in touched \intersect outrun[r]]
        BY DEF Commit, touched
      <3> HIDE DEF done
      <3> QED
        BY <3>1, <3>2
    <2>5. /\ lock' \in [Purchases -> Requests \union {None}]
          /\ \A p \in Purchases : lock'[p] # None => pc'[lock'[p]] = "status"
      <3>1. \A q \in Requests \ {r} : pc'[q] = pc[q]
        BY <1>0, <1>1 DEF End, Goto, TypeOK
      <3> QED
        BY <1>0, <3>1, NoneAssumption DEF Commit, TypeOK
    <2> QED
      BY <1>0, <1>1, <1>2, <1>13, <2>1, <2>3, <2>4, <2>5, EndStep DEF TypeOK
  <1>7. KnownLines' /\ Defaults'
    BY <1>0, <1>1 DEF TablesInv, KnownLines, Defaults, Live
  <1>8. SameVendor'
    <2> SUFFICES ASSUME NEW s \in Receipts \ mixed', NEW i \in Items,
                        ReceiptIn(receipts', s).live, receipts'[s].lines[i] > 0
                 PROVE  purchases[items[i].purchase].vendor = receipts'[s].vendor
      BY <1>1 DEF SameVendor
    <2>1. receipts'[s] # None
      BY DEF ReceiptIn, NoReceipt
    <2>2. receipts'[s].live
      BY <2>1 DEF ReceiptIn
    <2>5. s \notin mixed /\ (s \in doc[r] /\ blind[r] => receipts[s].lines = NoLines)
      BY DEF Commit
    <2>3. CASE s \notin doc[r]
      BY <1>0, <1>2, <2>3, <2>5 DEF TablesInv, SameVendor, ReceiptIn
    <2>4. CASE s \in doc[r]
      <3>4. form[r] # None /\ form[r].receipts[s].lines[i] \in Nat
        BY <1>0, <1>1, <1>2, <2>2, <2>4 DEF RequestInv, Private, Receiving, Receipt, Lines
      <3>1. i \in Gets(r, s)
        BY <1>2, <2>2, <2>4, <2>5, <3>4 DEF Gets, NoLines
      <3>2. /\ items[i] # None
            /\ purchases[items[i].purchase].vendor = form[r].receipts[s].vendor
        BY <1>0, <1>1, <2>4, <2>5, <3>1 DEF RequestInv, FormKnown, Receiving
      <3>3. form[r] # None
        BY <3>1 DEF Gets
      <3> QED
        BY <1>2, <2>2, <2>4, <3>2, <3>3
    <2> QED
      BY <2>3, <2>4
  <1>9. LinesStay(touched)
    BY <1>0, <1>1, BoundsAssumption DEF LinesStay, SameLines, TypeOK
  <1>10. ASSUME NEW q \in Requests \ {r} PROVE RowsStay(q, touched)
    <2>1. ASSUME pc[q] = "status" PROVE \A s \in doc[q] : receipts'[s] = receipts[s]
      BY <1>1, <1>2, <2>1 DEF IInv, Apart, RequestInv, Private, Receiving
    <2>2. ASSUME pc[q] = "write", NEW s \in doc[q], NEW i \in Has(s)', i \notin Has(s)
          PROVE  items[i].purchase \in touched
      <3>1. s \in Receipts /\ i \in Items
        BY <2>2 DEF IInv, RequestInv, Private, Receiving, Has
      <3>2. s \in doc[r]
        BY <1>2, <2>2, <3>1 DEF Has, ReceiptIn
      <3> QED
        BY <1>3, <1>4, <2>2, <3>1, <3>2
    <2>3. pc[q] = "status" => \A i \in Touches(q) : items'[i] # None
      BY <1>1, TouchesKnown
    <2> QED
      BY <1>1, <1>2, <1>5, <1>13, <2>1, <2>2, <2>3 DEF RowsStay
  <1>11. StatusRight'
    <2> SUFFICES ASSUME NewFormsActive, NEW p \in Purchases, Live(p), ~stale'[p]
                 PROVE  status'[p] = StatusOf(p, receipts)'
      BY <1>1 DEF StatusRight, StatusUnlessOutrun, Live
    <2>1. CASE p \in done
      <3>1. p \notin outrun[r] /\ status'[p] = written[r][p]
        BY <1>1, <2>1
      <3>2. written[r][p] = StatusOf(p, After(r))
        BY <1>0, <1>1, <2>1, <3>1 DEF RequestInv, Right
      <3>3. StatusOf(p, receipts)' = StatusOf(p, After(r))
        BY <1>1 DEF StatusOf, Active, LinesOf
      <3> QED
        BY <3>1, <3>2, <3>3
    <2>2. CASE p \notin done
      <3>1. ~stale[p] /\ status'[p] = status[p] /\ p \notin touched \intersect outrun[r]
        BY <1>1, <2>2
      <3>2. p \notin touched
        BY <1>0, <1>1, <2>2, <3>1 DEF RequestInv, Covers, touched
      <3>3. StatusOf(p, receipts)' = StatusOf(p, receipts)
        BY <1>1, <1>5, <3>2, StatusKept DEF SameLines
      <3> QED
        BY <1>0, <3>1, <3>3 DEF TablesInv, StatusRight, StatusUnlessOutrun
    <2> QED
      BY <2>1, <2>2
  <1>12. StoppedRight'
    BY <1>0, <1>1 DEF TablesInv, StoppedRight, StoppedUnlessOutrun, Live, Active, LinesOf
  <1> QED
    BY <1>0, <1>1, <1>6, <1>7, <1>8, <1>9, <1>10, <1>11, <1>12, LoudStep DEF TablesInv

(***************************************************************************)
(* The invariant holds, and so do its parts.                               *)
(***************************************************************************)
LEMMA InitInv == Init => IInv
  <1> SUFFICES ASSUME Init PROVE IInv
    OBVIOUS
  <1> USE DEF Init
  <1>1. TypeOK
    BY BoundsAssumption DEF TypeOK, Unwritten, ReceiptIn, NoReceipt, NoLines
  <1>2. KnownLines /\ Defaults /\ StatusRight /\ StoppedRight
    BY DEF KnownLines, Defaults, StatusRight, StoppedRight, StatusUnlessOutrun, StoppedUnlessOutrun, Live
  <1>3. SameVendor
    BY DEF SameVendor, ReceiptIn, NoReceipt
  <1>4. Apart
    BY DEF Apart
  <1>5. \A r \in Requests : RequestInv(r)
    BY DEF RequestInv, Private, FormKnown, Covers, Right, Created, Stops, Receiving
  <1> QED
    BY <1>1, <1>2, <1>3, <1>4, <1>5 DEF IInv, TablesInv

LEMMA StutterInv == IInv /\ UNCHANGED vars => IInv'
  <1> SUFFICES ASSUME IInv, UNCHANGED vars PROVE IInv'
    OBVIOUS
  <1> USE DEF vars, tables, private
  <1>1. TypeOK' /\ KnownLines' /\ Defaults' /\ SameVendor' /\ StoppedRight'
    BY DEF IInv, TablesInv, TypeOK, KnownLines, Defaults, SameVendor, StoppedRight, StoppedUnlessOutrun,
           Live, Active, LinesOf
  <1>2. \A p : StatusOf(p, receipts)' = StatusOf(p, receipts)
    BY StatusKept DEF SameLines
  <1>3. StatusRight'
    BY <1>2 DEF IInv, TablesInv, StatusRight, StatusUnlessOutrun, Live
  <1>4. Apart'
    BY DEF IInv, Apart
  <1>5. ASSUME NEW q \in Requests PROVE RequestInv(q)'
    <2>1. LinesStay({}) /\ RowsStay(q, {})
      BY TouchesKnown DEF LinesStay, RowsStay, SameLines, IInv, TablesInv, TypeOK, Has
    <2>2. Waits(q, {})
      BY DEF Waits
    <2> QED
      BY <1>1, <2>1, <2>2, Bystander
  <1> QED
    BY <1>1, <1>3, <1>4, <1>5 DEF IInv, TablesInv

LEMMA NextInv == IInv /\ [Next]_vars => IInv'
  <1> SUFFICES ASSUME IInv, [Next]_vars PROVE IInv'
    OBVIOUS
  <1>1. ASSUME NEW r \in Requests, NEW p \in Purchases, NEW v \in Vendors,
               \/ \E lines \in NewForms : CreatePurchase(r, p, v, lines)
               \/ \E lines \in EditForms : BeginUpdatePurchase(r, p, v, lines)
        PROVE  IInv'
    BY <1>1, CreatePurchaseInv, BeginUpdatePurchaseInv
  <1>2. ASSUME NEW r \in Requests, NEW p \in Purchases,
               \/ DeletePurchase(r, p) \/ UpdatePurchase(r, p)
               \/ \E products \in (SUBSET Products \ {{}}) \union {None} : BeginStop(r, p, products)
               \/ StopLines(r, p) \/ FinishStop(r, p) \/ Compute(r, p)
        PROVE  IInv'
    BY <1>2, DeletePurchaseInv, UpdatePurchaseInv, BeginStopInv, StopLinesInv, FinishStopInv, ComputeInv
  <1>3. ASSUME NEW r \in Requests,
               \/ \E batch \in SUBSET Receipts \ {{}} : BeginCreate(r, batch)
               \/ \E s \in Receipts : BeginUpdateStock(r, s) \/ BeginDeleteStock(r, s)
               \/ FindNoLines(r) \/ WriteReceipts(r) \/ WriteStatus(r) \/ Commit(r) \/ Fail(r)
        PROVE  IInv'
    BY <1>3, BeginCreateInv, BeginUpdateStockInv, BeginDeleteStockInv, FindNoLinesInv, WriteReceiptsInv,
       WriteStatusInv, CommitInv, FailInv
  <1>4. CASE UNCHANGED vars
    BY <1>4, StutterInv
  <1> QED
    BY <1>1, <1>2, <1>3, <1>4 DEF Next, Finished

LEMMA InvHolds == Spec => []IInv
  BY InitInv, NextInv, PTL DEF Spec

(* Type correctness of the purchases and of every request.                 *)
THEOREM TypeCorrect == Spec => []TypeOK
  <1>1. IInv => TypeOK
    BY DEF IInv, TablesInv
  <1> QED
    BY <1>1, InvHolds, PTL

(* A receipt delivers purchases of its own vendor, although both editors   *)
(* check the links before their transaction; unless two requests edited it *)
(* at once while it had no lines.                                          *)
THEOREM VendorsAgree == Spec => []SameVendor
  <1>1. IInv => SameVendor
    BY DEF IInv, TablesInv
  <1> QED
    BY <1>1, InvHolds, PTL

(* The delivery status of a purchase says what has been received of it,    *)
(* however many requests edit, stop, receive and delete at once, unless    *)
(* the last of them to write or skip it had been outrun.                   *)
THEOREM StatusFollows == ASSUME NewFormsActive PROVE Spec => []StatusUnlessOutrun
  <1>1. IInv => StatusUnlessOutrun
    BY DEF IInv, TablesInv, StatusRight
  <1> QED
    BY <1>1, InvHolds, PTL

(* A purchase is marked stopped when no line is left that is not, unless   *)
(* another request committed to it while the lines left were counted.      *)
THEOREM StoppedFollows == ASSUME NewFormsActive PROVE Spec => []StoppedUnlessOutrun
  <1>1. IInv => StoppedUnlessOutrun
    BY DEF IInv, TablesInv, StoppedRight
  <1> QED
    BY <1>1, InvHolds, PTL

(***************************************************************************)
(* What is outstanding.                                                    *)
(***************************************************************************)
LEMMA DeliveredType ==
  ASSUME TypeOK, NEW i \in Items
  PROVE  Delivered(i) \in Nat
  <1> DEFINE F == [s \in Receipts |-> Part(receipts, s, i)]
  <1>1. \A s \in Receipts : F[s] \in Nat
    <2> SUFFICES ASSUME NEW s \in Receipts PROVE Part(receipts, s, i) \in Nat
      OBVIOUS
    <2>1. receipts[s] # None => receipts[s].lines[i] \in Nat
      BY DEF TypeOK, Receipt, Lines
    <2> QED
      BY <2>1 DEF Part, ReceiptIn, NoReceipt
  <1>2. Delivered(i) = SumFunctionOnSet(F, Receipts)
    BY DEF Delivered, Of, Part
  <1> HIDE DEF F
  <1> QED
    BY <1>1, <1>2, SumNat, BoundsAssumption

LEMMA ShortType ==
  ASSUME TypeOK, NEW i \in Items, items[i] # None
  PROVE  /\ Short(i) \in Nat
         /\ items[i].qty <= Delivered(i) => Short(i) = 0
  <1> DEFINE d == items[i].qty - Delivered(i)
  <1>1. d \in Int /\ (items[i].qty <= Delivered(i) <=> d <= 0)
    <2>1. items[i].qty \in Nat
      BY DEF TypeOK, Item
    <2> QED
      BY <2>1, DeliveredType
  <1>2. Short(i) = Max({0, d})
    BY DEF Short
  <1> HIDE DEF d
  <1>3. Max({0, d}) \in {0, d} /\ \A y \in {0, d} : Max({0, d}) >= y
    <2>1. \E x \in {0, d} : \A y \in {0, d} : x >= y
      BY <1>1
    <2> QED
      BY <2>1 DEF Max
  <1> QED
    BY <1>1, <1>2, <1>3

(* A purchase that is complete lacks nothing of any line that is active.   *)
LEMMA CompleteLacksNothing ==
  ASSUME TypeOK, NEW p \in Purchases, StatusOf(p, receipts) = 2, NEW i \in Active(p)
  PROVE  Short(i) = 0
  <1>1. i \in Items /\ items[i] # None /\ items[i].qty \in Nat /\ Delivered(i) \in Nat
    BY DeliveredType DEF Active, LinesOf, TypeOK, Item
  <1> DEFINE wanted == {j \in Active(p) : items[j].qty > 0}
             any == \E j \in wanted : Of(j, receipts) > 0
             all == \A j \in wanted : Of(j, receipts) >= items[j].qty
  <1>2. StatusOf(p, receipts) = CASE Active(p) = {} \/ (all /\ any) -> 2
                                  [] any /\ ~all -> 1
                                  [] OTHER -> 0
    BY DEF StatusOf
  <1>3. all
    <2> HIDE DEF all, any
    <2> QED
      BY <1>2
  <1>4. items[i].qty > 0 => Of(i, receipts) >= items[i].qty
    BY <1>3
  <1>5. items[i].qty <= Delivered(i)
    BY <1>1, <1>4 DEF Delivered
  <1> QED
    BY <1>1, <1>5, ShortType

(* What the vendor still owes is offered to the form of a receipt: the     *)
(* lines the status hides lack nothing, whatever the size of the purchases *)
(* and however they came to be delivered.                                  *)
THEOREM NothingHidden == ASSUME NewFormsActive PROVE Spec => []OutstandingIsOffered
  <1>1. IInv => OutstandingIsOffered
    <2> SUFFICES ASSUME IInv, NEW v \in Vendors, NEW product \in Products,
                        \A p \in Purchases : ~stale[p]
                 PROVE  VendorOutstanding(v, product)
                          = SumFunctionOnSet([i \in Items |-> Short(i)],
                              {i \in Items : \E p \in Purchases :
                                 /\ Live(p) /\ purchases[p].vendor = v
                                 /\ i \in Active(p) /\ items[i].product = product})
      BY DEF OutstandingIsOffered
    <2> DEFINE F == [i \in Items |-> Short(i)]
               offered == {i \in SearchItems(v) : items[i].product = product}
               owed == {i \in Items : \E p \in Purchases :
                          /\ Live(p) /\ purchases[p].vendor = v
                          /\ i \in Active(p) /\ items[i].product = product}
               hidden == owed \ offered
    <2>1. TypeOK /\ StatusUnlessOutrun
      BY DEF IInv, TablesInv, StatusRight
    <2>2. offered \subseteq owed /\ owed \subseteq Items
      BY DEF SearchItems
    <2>3. \A i \in owed : i \in Items /\ items[i] # None
      BY DEF Active, LinesOf
    <2>4. \A i \in owed : F[i] \in Int
      BY <2>1, <2>3, ShortType
    <2>5. ASSUME NEW i \in hidden PROVE F[i] = 0
      <3>1. PICK p \in Purchases : /\ Live(p) /\ purchases[p].vendor = v
                                   /\ i \in Active(p) /\ items[i].product = product
        OBVIOUS
      <3>2. ~(status[p] < 2)
        BY <3>1 DEF SearchItems
      <3>3. status[p] = 2
        <4>1. status[p] \in 0 .. 2
          BY <2>1 DEF TypeOK
        <4> QED
          BY <3>2, <4>1
      <3>4. StatusOf(p, receipts) = 2
        BY <2>1, <3>1, <3>3 DEF StatusUnlessOutrun
      <3> QED
        BY <2>1, <2>3, <3>1, <3>4, CompleteLacksNothing
    <2>6. IsFiniteSet(Items)
      BY FS_Interval, BoundsAssumption DEF Items
    <2>7. IsFiniteSet(offered) /\ IsFiniteSet(hidden)
      BY <2>2, <2>6, FS_Subset
    <2>8. VendorOutstanding(v, product) = SumFunctionOnSet(F, offered)
      BY DEF VendorOutstanding
    <2>9. owed = offered \union hidden /\ offered \intersect hidden = {}
      BY <2>2
    <2> HIDE DEF F, offered, hidden
    <2>10. SumFunctionOnSet(F, hidden) = 0
      BY <2>5, <2>7, SumZero
    <2>11. \A i \in offered \union hidden : F[i] \in Int
      BY <2>4, <2>9
    <2>12. /\ SumFunctionOnSet(F, offered \union hidden)
                = SumFunctionOnSet(F, offered) + SumFunctionOnSet(F, hidden)
           /\ SumFunctionOnSet(F, offered) \in Int
      BY <2>7, <2>9, <2>11, SumUnion, SumType
    <2>13. SumFunctionOnSet(F, owed) = SumFunctionOnSet(F, offered)
      <3> HIDE DEF owed
      <3> QED
        BY <2>9, <2>10, <2>12
    <2> QED
      BY <2>8, <2>13 DEF F
  <1> QED
    BY <1>1, InvHolds, PTL
=============================================================================
