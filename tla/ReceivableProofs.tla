-------------------------- MODULE ReceivableProofs --------------------------
(***************************************************************************)
(* Theorems about Receivable, for every set of customers, shipments and    *)
(* requests, every finite set of gathers, and all deals and payments.      *)
(***************************************************************************)
EXTENDS Receivable, SumTheorems, SequenceTheorems

(***************************************************************************)
(* The inductive invariant.                                                *)
(***************************************************************************)
Details == Seq(GatherDetail)

Tables ==
  /\ shipments \in [Shipments -> Shipment \union {None}]
  /\ gathers \in [Gathers -> Gather \union {None}]
  /\ pc = [r \in Requests |-> pc[r]]
  /\ target = [r \in Requests |-> target[r]]
  /\ carries = [r \in Requests |-> carries[r]]
  /\ form \in [Requests -> Int]
  /\ existing = [r \in Requests |-> existing[r]]
  /\ oldDetails \in [Requests -> Details]
  /\ overtaken \in BOOLEAN

(* Lines that settle shipments that have been created.                     *)
Settleable(details) == \A i \in DOMAIN details : shipments[details[i].shipment] # None

(* What a request has sent and read, by how far it has come.               *)
Editing(r) ==
  pc[r] \in {"editing", "saving"} => target[r] \in Shipments /\ shipments[target[r]] # None

Saving(r) ==
  pc[r] = "saving" =>
    /\ carries[r] \in Deals
    /\ existing[r] \in [customer : Customers, charge : Int]
    /\ carries[r].customer = existing[r].customer \/ ~(existing[r].charge > 0)

Gathering(r) ==
  /\ pc[r] \in {"update", "delete", "rewrite", "remove"} =>
       target[r] \in Gathers /\ gathers[target[r]] # None
  /\ pc[r] \in {"update", "rewrite"} => carries[r] \in Payments /\ Settleable(carries[r].details)

Works(r) ==
  /\ pc[r] = "admitted" => carries[r] \in Deals
  /\ Editing(r)
  /\ Saving(r)
  /\ Gathering(r)

Working == \A r \in Requests : Works(r)

GathersSettleable == \A g \in LiveGathers : Settleable(gathers[g].details)

(* A deleted gather has no lines, unless an update was late.               *)
DeletedHasNone ==
  ~overtaken => \A g \in Gathers : gathers[g] # None /\ ~gathers[g].live => gathers[g].details = <<>>

IInv == Tables /\ Working /\ GathersSettleable /\ DeletedHasNone /\ ChargesMatchUnlessOvertaken

(***************************************************************************)
(* Amounts.                                                                *)
(***************************************************************************)
(* A gather has finitely many lines.                                       *)
LEMMA DetailsFinite ==
  ASSUME NEW d \in Details, NEW s
  PROVE  /\ IsFiniteSet(Of(d, s))
         /\ Of(d, s) \subseteq DOMAIN d
         /\ \A i \in DOMAIN d : d[i] \in GatherDetail
  <1>1. DOMAIN d = 1 .. Len(d) /\ Len(d) \in Nat /\ \A i \in DOMAIN d : d[i] \in GatherDetail
    BY LenProperties, ElementOfSeq DEF Details
  <1>2. IsFiniteSet(DOMAIN d)
    BY <1>1, FS_Interval
  <1>3. Of(d, s) \in SUBSET DOMAIN d
    BY DEF Of
  <1> QED
    BY <1>1, <1>2, <1>3, FS_Subset

(* What lines write off and deduct are integers.                           *)
LEMMA AmountsAreIntegers ==
  ASSUME NEW d \in Details, NEW s
  PROVE  WriteOff(d, s) \in Int /\ Deduct(d, s) \in Int
  <1> DEFINE w == [i \in DOMAIN d |-> d[i].writeOff]
             e == [i \in DOMAIN d |-> d[i].deduct]
  <1>1. \A i \in Of(d, s) : w[i] \in Int /\ e[i] \in Int
    BY DetailsFinite DEF GatherDetail
  <1> HIDE DEF w, e
  <1>2. SumFunctionOnSet(w, Of(d, s)) \in Int /\ SumFunctionOnSet(e, Of(d, s)) \in Int
    BY <1>1, DetailsFinite, SumType
  <1> QED
    BY <1>2 DEF w, e, WriteOff, Deduct

(* Lines that do not name s write nothing off it.                          *)
LEMMA NothingOff ==
  ASSUME NEW d \in Details, NEW s, \A i \in DOMAIN d : d[i].shipment # s
  PROVE  WriteOff(d, s) = 0
  <1>1. Of(d, s) = {}
    BY DEF Of
  <1> QED
    BY <1>1, SumEmpty DEF WriteOff

(* No lines write nothing off.                                             *)
LEMMA EmptyOff == \A s : WriteOff(<<>>, s) = 0
  <1>1. <<>> \in Details /\ DOMAIN <<>> = {}
    BY DEF Details
  <1> QED
    BY <1>1, NothingOff

(* There are finitely many gathers.                                        *)
LEMMA LiveGathersFinite == IsFiniteSet(LiveGathers)
  <1>1. LiveGathers \in SUBSET Gathers
    BY DEF LiveGathers
  <1> QED
    BY <1>1, FiniteAssumption, FS_Subset

(* A gather that is not deleted has lines.                                 *)
LEMMA LiveDetails ==
  ASSUME Tables, NEW g \in LiveGathers
  PROVE  g \in Gathers /\ gathers[g] \in Gather /\ gathers[g].details \in Details
  BY DEF Tables, LiveGathers, Gather, Details

(* What all gathers write off is an integer.                               *)
LEMMA WrittenOffIsInteger ==
  ASSUME Tables, NEW s
  PROVE  WrittenOff(LiveGathers, s) \in Int
  <1> DEFINE w == [g \in LiveGathers |-> WriteOff(gathers[g].details, s)]
  <1>1. \A g \in LiveGathers : w[g] \in Int
    BY LiveDetails, AmountsAreIntegers
  <1> HIDE DEF w
  <1>2. SumFunctionOnSet(w, LiveGathers) \in Int
    BY <1>1, LiveGathersFinite, SumType
  <1> QED
    BY <1>2 DEF w, WrittenOff

(* What gather g contributes to what is written off s.                     *)
Part(g, s) == IF g \in LiveGathers THEN WriteOff(gathers[g].details, s) ELSE 0

(* So is the part of one gather.                                           *)
LEMMA PartIsInteger ==
  ASSUME Tables, NEW g, NEW s
  PROVE  Part(g, s) \in Int
  BY LiveDetails, AmountsAreIntegers DEF Part

(* The gathers other than g and g make up the total.                       *)
LEMMA WithoutOne ==
  ASSUME Tables, NEW g \in Gathers, NEW s
  PROVE  WrittenOff(LiveGathers, s) = WrittenOff(LiveGathers \ {g}, s) + Part(g, s)
  <1> DEFINE L == LiveGathers
             R == L \ {g}
             w == [x \in L |-> WriteOff(gathers[x].details, s)]
             v == [x \in R |-> WriteOff(gathers[x].details, s)]
  <1>1. IsFiniteSet(L) /\ IsFiniteSet(R)
    BY LiveGathersFinite, FS_RemoveElement
  <1>2. \A x \in L : w[x] \in Int
    BY LiveDetails, AmountsAreIntegers
  <1>3. \A x \in R : w[x] = v[x]
    OBVIOUS
  <1>4. SumFunctionOnSet(w, R) = SumFunctionOnSet(v, R)
    <2> HIDE DEF w, v, R
    <2> QED
      BY <1>1, <1>3, SumEqual
  <1>5. CASE g \in L
    <2>1. w[g] = Part(g, s)
      BY <1>5 DEF Part
    <2>2. SumFunctionOnSet(w, L) = w[g] + SumFunctionOnSet(w, R)
      <3> HIDE DEF w, L
      <3> QED
        BY <1>1, <1>2, <1>5, SumRemove
    <2>3. w[g] \in Int /\ SumFunctionOnSet(w, R) \in Int
      <3>1. \A x \in R : w[x] \in Int
        BY <1>2
      <3> HIDE DEF w, L, R
      <3> QED
        BY <1>1, <1>2, <1>5, <3>1, SumType
    <2>4. SumFunctionOnSet(w, L) = SumFunctionOnSet(v, R) + Part(g, s)
      <3> HIDE DEF w, v, L, R
      <3> QED
        BY <1>4, <2>1, <2>2, <2>3
    <2> QED
      BY <2>4 DEF WrittenOff
  <1>6. CASE g \notin L
    <2>1. R = L
      BY <1>6
    <2>2. Part(g, s) = 0
      BY <1>6 DEF Part
    <2>3. WrittenOff(LiveGathers \ {g}, s) = WrittenOff(LiveGathers, s)
      BY <2>1
    <2> QED
      BY <2>2, <2>3, WrittenOffIsInteger
  <1> QED
    BY <1>5, <1>6

(* What the others write off is an integer.                                *)
LEMMA RestIsInteger ==
  ASSUME Tables, NEW g \in Gathers, NEW s
  PROVE  WrittenOff(LiveGathers \ {g}, s) \in Int
  <1> DEFINE R == LiveGathers \ {g}
             v == [x \in R |-> WriteOff(gathers[x].details, s)]
  <1>1. \A x \in R : v[x] \in Int
    BY LiveDetails, AmountsAreIntegers
  <1>2. IsFiniteSet(R)
    BY LiveGathersFinite, FS_RemoveElement
  <1> HIDE DEF v, R
  <1>3. SumFunctionOnSet(v, R) \in Int
    BY <1>1, <1>2, SumType
  <1> QED
    BY <1>3 DEF v, R, WrittenOff

(* The total is what g contributes and the rest.                           *)
SplitAt(g, s) ==
  /\ WrittenOff(LiveGathers, s) = WrittenOff(LiveGathers \ {g}, s) + Part(g, s)
  /\ Part(g, s) \in Int
  /\ WrittenOff(LiveGathers \ {g}, s) \in Int

LEMMA Split == Tables => \A g \in Gathers : \A s : SplitAt(g, s)
  BY WithoutOne, PartIsInteger, RestIsInteger DEF SplitAt

LEMMA SplitAfter == Tables' => (\A g \in Gathers : \A s : SplitAt(g, s))'
  BY Split, PTL

(* A step that changes gather g alone.                                     *)
LEMMA OneGatherChanges ==
  ASSUME Tables, Tables', NEW g \in Gathers, \A x \in Gathers \ {g} : gathers'[x] = gathers[x], NEW s
  PROVE  WrittenOff(LiveGathers, s)' = WrittenOff(LiveGathers, s) - Part(g, s) + Part(g, s)'
  <1>1. LiveGathers' \ {g} = LiveGathers \ {g}
    BY DEF LiveGathers
  <1>2. WrittenOff(LiveGathers \ {g}, s)' = WrittenOff(LiveGathers \ {g}, s)
    <2>1. \A x \in LiveGathers \ {g} : gathers'[x] = gathers[x]
      BY DEF LiveGathers
    <2>2. [x \in (LiveGathers' \ {g}) |-> WriteOff(gathers'[x].details, s)]
            = [x \in (LiveGathers \ {g}) |-> WriteOff(gathers[x].details, s)]
      BY <1>1, <2>1
    <2> QED
      BY <1>1, <2>2 DEF WrittenOff
  <1>3. SplitAt(g, s) /\ SplitAt(g, s)'
    BY Split, SplitAfter
  <1> QED
    BY <1>2, <1>3 DEF SplitAt

(* No gather settles a shipment that does not exist.                       *)
LEMMA UnknownIsUnsettled ==
  ASSUME Tables, GathersSettleable, NEW s, shipments[s] = None
  PROVE  WrittenOff(LiveGathers, s) = 0
  <1> DEFINE w == [g \in LiveGathers |-> WriteOff(gathers[g].details, s)]
  <1>1. ASSUME NEW g \in LiveGathers PROVE w[g] = 0
    <2>1. \A i \in DOMAIN gathers[g].details : gathers[g].details[i].shipment # s
      BY DEF GathersSettleable, Settleable
    <2> QED
      BY <2>1, LiveDetails, NothingOff
  <1> HIDE DEF w
  <1>2. SumFunctionOnSet(w, LiveGathers) = 0
    BY <1>1, LiveGathersFinite, SumZero
  <1> QED
    BY <1>2 DEF w, WrittenOff

(***************************************************************************)
(* What steps have in common.                                              *)
(***************************************************************************)

(* Nothing that has been created goes away.                                *)
Grows ==
  /\ \A s \in Shipments : shipments[s] # None => shipments'[s] # None
  /\ \A g \in Gathers : gathers[g] # None => gathers'[g] # None

(* Only r goes on.                                                         *)
Alone(r) ==
  \A q \in Requests \ {r} :
    /\ pc'[q] = pc[q] /\ target'[q] = target[q] /\ carries'[q] = carries[q]
    /\ existing'[q] = existing[q]

(* Lines stay settleable.                                                  *)
LEMMA SettleableStays ==
  ASSUME Grows, NEW d, d \in Details, Settleable(d)
  PROVE  \A i \in DOMAIN d : shipments'[d[i].shipment] # None
  <1>1. \A i \in DOMAIN d : d[i].shipment \in Shipments
    BY DetailsFinite DEF GatherDetail
  <1> QED
    BY <1>1 DEF Grows, Settleable

(* The lines of a payment.                                                 *)
LEMMA PaymentDetails == \A p \in Payments : p.details \in Details /\ p.customer \in Customers
  BY PaymentsAssumption DEF Payment, Details

(* The other requests are not disturbed.                                   *)
LEMMA WorkingAfter ==
  ASSUME Working, NEW r \in Requests, Grows, Alone(r), Works(r)'
  PROVE  Working'
  <1> SUFFICES ASSUME NEW q \in Requests, q # r PROVE Works(q)'
    BY DEF Working
  <1>1. Works(q)
    BY DEF Working
  <1>2. /\ pc'[q] = pc[q] /\ target'[q] = target[q] /\ carries'[q] = carries[q]
        /\ existing'[q] = existing[q]
    BY DEF Alone
  <1>3. Editing(q)'
    BY <1>1, <1>2 DEF Works, Editing, Grows
  <1>4. Saving(q)'
    BY <1>1, <1>2 DEF Works, Saving
  <1>5. Gathering(q)'
    <2> DEFINE d == carries[q].details
    <2>1. ASSUME pc[q] \in {"update", "rewrite"} PROVE Settleable(carries[q].details)'
      <3>1. d \in Details /\ Settleable(d)
        BY <1>1, <2>1, PaymentDetails DEF Works, Gathering
      <3>2. \A i \in DOMAIN d : shipments'[d[i].shipment] # None
        BY <3>1, SettleableStays
      <3> QED
        BY <1>2, <3>2 DEF Settleable
    <2> QED
      BY <1>1, <1>2, <2>1 DEF Works, Gathering, Grows
  <1> QED
    BY <1>1, <1>2, <1>3, <1>4, <1>5 DEF Works

(* Steps that leave the tables as they are.                                *)
LEMMA TablesUnchanged ==
  ASSUME IInv, UNCHANGED <<shipments, gathers>>, overtaken' \in BOOLEAN, overtaken => overtaken'
  PROVE  /\ Grows
         /\ GathersSettleable' /\ DeletedHasNone' /\ ChargesMatchUnlessOvertaken'
  <1>1. Grows
    BY DEF Grows
  <1>2. GathersSettleable' /\ DeletedHasNone'
    BY DEF IInv, GathersSettleable, Settleable, DeletedHasNone, LiveGathers
  <1>3. ChargesMatchUnlessOvertaken'
    BY DEF IInv, ChargesMatchUnlessOvertaken, ChargesMatchGathers, WrittenOff, LiveGathers
  <1> QED
    BY <1>1, <1>2, <1>3

(* A request that has ended.                                               *)
LEMMA DoneWorks ==
  ASSUME NEW r, pc'[r] = "done"
  PROVE  Works(r)'
  BY DEF Works, Editing, Saving, Gathering

(***************************************************************************)
(* The steps that change no table.                                         *)
(***************************************************************************)
LEMMA Quiet ==
  ASSUME IInv, NEW r \in Requests, UNCHANGED <<shipments, gathers, overtaken>>, Tables', Alone(r),
         Works(r)'
  PROVE  IInv'
  <1>1. overtaken' \in BOOLEAN /\ (overtaken => overtaken')
    BY DEF Tables
  <1> QED
    BY <1>1, TablesUnchanged, WorkingAfter DEF IInv

LEMMA AdmitStep ==
  ASSUME IInv, NEW r \in Requests, NEW new \in Deals, Admit(r, new) \/ Refuse(r, new)
  PROVE  IInv'
  <1> USE DEF Admit, Refuse, Goto
  <1>1. UNCHANGED <<shipments, gathers, overtaken>>
    OBVIOUS
  <1>2. Tables' /\ Alone(r)
    BY DEF IInv, Tables, Alone
  <1>3. Works(r)'
    BY DEF IInv, Tables, Works, Editing, Saving, Gathering
  <1> QED
    BY <1>1, <1>2, <1>3, Quiet

LEMMA OpenStep ==
  ASSUME IInv, NEW r \in Requests, NEW s \in Shipments, OpenShipment(r, s)
  PROVE  IInv'
  <1> USE DEF OpenShipment, Goto
  <1>1. UNCHANGED <<shipments, gathers, overtaken>>
    OBVIOUS
  <1>2. Tables' /\ Alone(r)
    <2>1. shipments[s].charge \in Int
      BY DEF IInv, Tables, Shipment
    <2> QED
      BY <2>1 DEF IInv, Tables, Alone
  <1>3. Works(r)'
    BY DEF IInv, Tables, Works, Editing, Saving, Gathering
  <1> QED
    BY <1>1, <1>2, <1>3, Quiet

(* What UpdateShipment lets pass keeps the customer or is not settled.     *)
LEMMA SaveStep ==
  ASSUME IInv, NEW r \in Requests, NEW new \in Deals, SaveShipment(r, new)
  PROVE  IInv'
  <1> USE DEF SaveShipment, Goto
  <1>1. UNCHANGED <<shipments, gathers, overtaken>>
    OBVIOUS
  <1>2. Tables' /\ Alone(r)
    BY DEF IInv, Tables, Alone
  <1>3. target[r] \in Shipments /\ shipments[target[r]] \in Shipment
    BY DEF IInv, Working, Works, Editing, Tables
  <1>4. Works(r)'
    <2>1. /\ pc'[r] = "saving" /\ target'[r] = target[r] /\ carries'[r] = new
          /\ existing'[r] = [customer |-> shipments[target[r]].customer,
                             charge |-> shipments[target[r]].charge]
      BY DEF IInv, Tables
    <2>2. Editing(r)'
      BY <1>1, <1>3, <2>1, NoneAssumption DEF Editing
    <2>3. Saving(r)'
      BY <1>3, <2>1 DEF Saving, CustomerMayChange, Shipment
    <2> QED
      BY <2>1, <2>2, <2>3 DEF Works, Gathering
  <1> QED
    BY <1>1, <1>2, <1>4, Quiet

LEMMA BeginStep ==
  ASSUME IInv, NEW r \in Requests, NEW g \in Gathers,
         BeginDeleteGather(r, g) \/ (\E new \in Payments : BeginUpdateGather(r, g, new))
  PROVE  IInv'
  <1> USE DEF BeginDeleteGather, BeginUpdateGather, Goto
  <1>1. UNCHANGED <<shipments, gathers, overtaken>>
    OBVIOUS
  <1>2. Tables' /\ Alone(r)
    BY DEF IInv, Tables, Alone
  <1>3. target'[r] = g /\ gathers'[g] # None /\ pc'[r] \in {"update", "delete"}
    BY DEF IInv, Tables
  <1>4. pc'[r] = "update" => carries'[r] \in Payments /\ Settleable(carries[r].details)'
    <2>1. CASE BeginDeleteGather(r, g)
      BY <2>1 DEF IInv, Tables
    <2>2. ASSUME NEW new \in Payments, BeginUpdateGather(r, g, new)
          PROVE  carries'[r] \in Payments /\ Settleable(carries[r].details)'
      <3>1. carries'[r] = new
        BY <2>2 DEF IInv, Tables
      <3>2. \A i \in DOMAIN new.details : shipments[new.details[i].shipment] # None
        BY <2>2 DEF Offered, LiveShipments
      <3> QED
        BY <1>1, <3>1, <3>2 DEF Settleable
    <2> QED
      BY <2>1, <2>2
  <1>5. Works(r)'
    BY <1>3, <1>4 DEF Works, Editing, Saving, Gathering
  <1> QED
    BY <1>1, <1>2, <1>5, Quiet

LEMMA LoadStep ==
  ASSUME IInv, NEW r \in Requests, LoadDetails(r)
  PROVE  IInv'
  <1> USE DEF LoadDetails, Goto
  <1>1. UNCHANGED <<shipments, gathers, overtaken>>
    OBVIOUS
  <1>2. target[r] \in Gathers /\ gathers[target[r]] # None
    BY DEF IInv, Working, Works, Gathering
  <1>3. gathers[target[r]].details \in Details
    BY <1>2 DEF IInv, Tables, Gather, Details
  <1>4. Tables' /\ Alone(r)
    BY <1>3 DEF IInv, Tables, Alone
  <1>5. /\ target' = target /\ carries' = carries
        /\ pc'[r] = IF pc[r] = "update" THEN "rewrite" ELSE "remove"
    BY DEF IInv, Tables
  <1>6. pc[r] = "update" => carries[r] \in Payments /\ Settleable(carries[r].details)
    BY DEF IInv, Working, Works, Gathering
  <1>7. Works(r)'
    BY <1>1, <1>2, <1>5, <1>6 DEF Works, Editing, Saving, Gathering, Settleable
  <1> QED
    BY <1>1, <1>4, <1>7, Quiet

LEMMA FailStep ==
  ASSUME IInv, NEW r \in Requests, Fail(r)
  PROVE  IInv'
  <1> USE DEF Fail, Goto
  <1>1. UNCHANGED <<shipments, gathers, overtaken>>
    OBVIOUS
  <1>2. Tables' /\ Alone(r) /\ pc'[r] = "done"
    BY DEF IInv, Tables, Alone
  <1> QED
    BY <1>1, <1>2, DoneWorks, Quiet

(***************************************************************************)
(* Shipments.                                                              *)
(***************************************************************************)
(* The totals depend on the gathers alone.                                 *)
LEMMA SameGathers ==
  ASSUME gathers' = gathers
  PROVE  LiveGathers' = LiveGathers /\ \A s : WrittenOff(LiveGathers, s)' = WrittenOff(LiveGathers, s)
  BY DEF LiveGathers, WrittenOff

(* A step on shipment s that leaves the gathers alone.                     *)
LEMMA ShipmentStep ==
  ASSUME IInv, NEW r \in Requests, NEW s \in Shipments, gathers' = gathers, Tables', Alone(r),
         pc'[r] = "done", overtaken => overtaken',
         \A x \in Shipments \ {s} : shipments'[x] = shipments[x],
         shipments'[s] # None,
         ~overtaken' => (shipments'[s].live => shipments'[s].charge = WrittenOff(LiveGathers, s))
  PROVE  IInv'
  <1>1. Grows
    BY DEF Grows
  <1>2. Working'
    BY <1>1, DoneWorks, WorkingAfter DEF IInv
  <1>3. GathersSettleable'
    <2> SUFFICES ASSUME NEW g \in LiveGathers' PROVE Settleable(gathers[g].details)'
      BY DEF GathersSettleable
    <2>1. g \in LiveGathers /\ gathers[g].details \in Details /\ Settleable(gathers[g].details)
      BY SameGathers, LiveDetails DEF IInv, GathersSettleable
    <2>2. \A i \in DOMAIN gathers[g].details : shipments'[gathers[g].details[i].shipment] # None
      BY <1>1, <2>1, SettleableStays
    <2> QED
      BY <2>2 DEF Settleable
  <1>4. DeletedHasNone'
    BY DEF IInv, DeletedHasNone
  <1>5. ChargesMatchUnlessOvertaken'
    <2> SUFFICES ASSUME ~overtaken', NEW x \in Shipments, shipments'[x] # None, shipments'[x].live
                 PROVE  shipments'[x].charge = WrittenOff(LiveGathers, x)
      BY SameGathers DEF ChargesMatchUnlessOvertaken, ChargesMatchGathers
    <2>1. CASE x = s
      BY <2>1
    <2>2. CASE x # s
      BY <2>2 DEF IInv, ChargesMatchUnlessOvertaken, ChargesMatchGathers
    <2> QED
      BY <2>1, <2>2
  <1> QED
    BY <1>2, <1>3, <1>4, <1>5 DEF IInv

(* What UpdateShipment stores is a shipment.                               *)
LEMMA StoredIsShipment ==
  ASSUME NEW new \in Deals, NEW charge \in Int
  PROVE  /\ Stored(new, charge) \in Shipment
         /\ Stored(new, charge).charge = charge /\ Stored(new, charge).live
         /\ Stored(new, charge).customer = new.customer
  BY DealsAssumption DEF Stored, Shipment, Deal

(* Nothing has been written off a shipment that was not there.             *)
LEMMA CreateShipmentStep ==
  ASSUME IInv, NEW r \in Requests, NEW s \in Shipments, CreateShipment(r, s)
  PROVE  IInv'
  <1> USE DEF CreateShipment, Goto
  <1>1. carries[r] \in Deals
    BY DEF IInv, Working, Works
  <1> DEFINE new == Stored(carries[r], 0)
  <1>2. new \in Shipment /\ new.charge = 0 /\ new # None
    BY <1>1, StoredIsShipment, NoneAssumption
  <1>3. shipments' = [shipments EXCEPT ![s] = new]
    OBVIOUS
  <1> HIDE DEF new
  <1>4. Tables' /\ Alone(r)
    BY <1>2, <1>3 DEF IInv, Tables, Alone
  <1>5. shipments'[s] = new /\ \A x \in Shipments \ {s} : shipments'[x] = shipments[x]
    BY <1>3 DEF IInv, Tables
  <1>6. WrittenOff(LiveGathers, s) = 0
    BY UnknownIsUnsettled DEF IInv
  <1>7. /\ gathers' = gathers /\ pc'[r] = "done" /\ (overtaken => overtaken')
        /\ shipments'[s] # None
        /\ ~overtaken' => (shipments'[s].live => shipments'[s].charge = WrittenOff(LiveGathers, s))
    BY <1>2, <1>5, <1>6 DEF IInv, Tables
  <1> QED
    BY <1>4, <1>5, <1>7, ShipmentStep

(* What is stored is the charge the form was opened with: that of the row, *)
(* or the request is late.                                                 *)
LEMMA UpdateShipmentStep ==
  ASSUME IInv, NEW r \in Requests, UpdateShipment(r)
  PROVE  IInv'
  <1> DEFINE s == target[r]
             new == IF shipments[s].live THEN Stored(carries[r], form[r]) ELSE shipments[s]
  <1>1. s \in Shipments /\ shipments[s] \in Shipment /\ carries[r] \in Deals /\ form[r] \in Int
    BY DEF UpdateShipment, IInv, Working, Works, Editing, Saving, Tables
  <1>2. new \in Shipment /\ new # None
    BY <1>1, StoredIsShipment, NoneAssumption
  <1>3. shipments' = [shipments EXCEPT ![s] = new]
    BY <1>1 DEF UpdateShipment, IInv, Tables
  <1>4. /\ UNCHANGED <<gathers, target, carries, form, existing, oldDetails>>
        /\ pc' = [pc EXCEPT ![r] = "done"]
        /\ overtaken' = (overtaken \/ (shipments[s].live
                                       /\ {form[r], existing[r].charge} # {shipments[s].charge}))
    BY DEF UpdateShipment, Goto
  <1>5. new.live => shipments[s].live /\ new.charge = form[r]
    BY <1>1, StoredIsShipment
  <1> HIDE DEF new, s
  <1>6. overtaken' \in BOOLEAN
    BY <1>1, <1>4 DEF IInv, Tables
  <1>7. Tables' /\ Alone(r)
    BY <1>1, <1>2, <1>3, <1>4, <1>6 DEF IInv, Tables, Alone
  <1>8. shipments'[s] = new /\ \A x \in Shipments \ {s} : shipments'[x] = shipments[x]
    BY <1>1, <1>3 DEF IInv, Tables
  <1>9. ASSUME ~overtaken', new.live PROVE new.charge = WrittenOff(LiveGathers, s)
    <2>1. form[r] = shipments[s].charge /\ ~overtaken
      BY <1>4, <1>5, <1>9
    <2>2. shipments[s] # None
      BY <1>1, NoneAssumption
    <2> QED
      BY <1>1, <1>5, <1>9, <2>1, <2>2 DEF IInv, ChargesMatchUnlessOvertaken, ChargesMatchGathers
  <1>10. pc'[r] = "done" /\ (overtaken => overtaken')
    BY <1>4 DEF IInv, Tables
  <1> QED
    BY <1>1, <1>2, <1>4, <1>7, <1>8, <1>9, <1>10, ShipmentStep

LEMMA DeleteShipmentStep ==
  ASSUME IInv, NEW r \in Requests, NEW s \in Shipments, DeleteShipment(r, s)
  PROVE  IInv'
  <1> USE DEF DeleteShipment, Goto
  <1> DEFINE new == [shipments[s] EXCEPT !.live = FALSE]
  <1>1. shipments[s] \in Shipment
    BY DEF IInv, Tables
  <1>2. new \in Shipment /\ new # None /\ ~new.live
    BY <1>1, NoneAssumption DEF Shipment
  <1>3. shipments' = [shipments EXCEPT ![s] = new]
    OBVIOUS
  <1> HIDE DEF new
  <1>4. Tables' /\ Alone(r)
    BY <1>2, <1>3 DEF IInv, Tables, Alone
  <1>5. shipments'[s] = new /\ \A x \in Shipments \ {s} : shipments'[x] = shipments[x]
    BY <1>3 DEF IInv, Tables
  <1>6. gathers' = gathers /\ pc'[r] = "done" /\ (overtaken => overtaken')
    BY DEF IInv, Tables
  <1> QED
    BY <1>2, <1>4, <1>5, <1>6, ShipmentStep

(***************************************************************************)
(* Gathers.                                                                *)
(***************************************************************************)

(* A step that settles new lines in place of old ones: those of gather g,  *)
(* or the step is late.                                                    *)
LEMMA GatherStep ==
  ASSUME IInv, NEW r \in Requests, NEW g \in Gathers, NEW old, old \in Details, NEW new, new \in Details,
         Tables', Alone(r), pc'[r] = "done", overtaken => overtaken',
         Settle(old, new),
         \A x \in Gathers \ {g} : gathers'[x] = gathers[x],
         gathers'[g] # None,
         Settleable(new),
         gathers'[g].details = new,
         ~gathers'[g].live => new = <<>> \/ overtaken',
         ~overtaken' => \A s : /\ Part(g, s) = WriteOff(old, s)
                               /\ Part(g, s)' = WriteOff(new, s)
  PROVE  IInv'
  <1>1. \A s \in Shipments :
          /\ shipments[s] = None => shipments'[s] = None
          /\ shipments[s] # None => shipments'[s] # None /\ shipments'[s].live = shipments[s].live
          /\ shipments[s] # None /\ shipments[s].live =>
               shipments'[s].charge = shipments[s].charge - WriteOff(old, s) + WriteOff(new, s)
    <2> SUFFICES ASSUME NEW s \in Shipments
                 PROVE  /\ shipments[s] = None => shipments'[s] = None
                        /\ shipments[s] # None => shipments'[s] # None /\ shipments'[s].live = shipments[s].live
                        /\ shipments[s] # None /\ shipments[s].live =>
                             shipments'[s].charge = shipments[s].charge - WriteOff(old, s) + WriteOff(new, s)
      OBVIOUS
    <2>1. shipments[s] \in Shipment \union {None} /\ None \notin Shipment
      BY NoneAssumption DEF IInv, Tables
    <2>2. WriteOff(old, s) \in Int /\ WriteOff(new, s) \in Int
      BY AmountsAreIntegers
    <2> DEFINE charge == shipments[s].charge - WriteOff(old, s) + WriteOff(new, s)
    <2>3. shipments'[s] = IF shipments[s] # None /\ shipments[s].live
                          THEN [shipments[s] EXCEPT !.charge = charge]
                          ELSE shipments[s]
      BY DEF Settle
    <2>4. shipments[s] \in Shipment => charge \in Int
      BY <2>2 DEF Shipment
    <2> HIDE DEF charge
    <2>5. CASE shipments[s] # None /\ shipments[s].live
      <3>1. /\ shipments'[s] \in Shipment
            /\ shipments'[s].live = shipments[s].live
            /\ shipments'[s].charge = charge
        BY <2>1, <2>3, <2>4, <2>5 DEF Shipment
      <3> QED
        BY <2>1, <2>5, <3>1 DEF charge
    <2>6. CASE ~(shipments[s] # None /\ shipments[s].live)
      BY <2>3, <2>6
    <2> QED
      BY <2>5, <2>6
  <1>2. Grows
    BY <1>1 DEF Grows
  <1>3. Working'
    BY <1>2, DoneWorks, WorkingAfter DEF IInv
  <1>4. GathersSettleable'
    <2> SUFFICES ASSUME NEW x \in LiveGathers' PROVE Settleable(gathers[x].details)'
      BY DEF GathersSettleable
    <2>1. CASE x = g
      <3>1. \A i \in DOMAIN new : shipments'[new[i].shipment] # None
        BY <1>2, SettleableStays
      <3> QED
        BY <2>1, <3>1 DEF Settleable
    <2>2. CASE x # g
      <3>1. x \in LiveGathers /\ gathers'[x] = gathers[x]
        BY <2>2 DEF LiveGathers
      <3>2. gathers[x].details \in Details /\ Settleable(gathers[x].details)
        BY <3>1, LiveDetails DEF IInv, GathersSettleable
      <3>3. \A i \in DOMAIN gathers[x].details : shipments'[gathers[x].details[i].shipment] # None
        BY <1>2, <3>2, SettleableStays
      <3> QED
        BY <3>1, <3>3 DEF Settleable
    <2> QED
      BY <2>1, <2>2
  <1>5. DeletedHasNone'
    BY DEF IInv, DeletedHasNone
  <1>6. ChargesMatchUnlessOvertaken'
    <2> SUFFICES ASSUME ~overtaken', NEW s \in Shipments, shipments'[s] # None, shipments'[s].live
                 PROVE  shipments'[s].charge = WrittenOff(LiveGathers, s)'
      BY DEF ChargesMatchUnlessOvertaken, ChargesMatchGathers
    <2>1. shipments[s] # None /\ shipments[s].live
      BY <1>1
    <2>2. shipments[s].charge = WrittenOff(LiveGathers, s)
      BY <2>1 DEF IInv, ChargesMatchUnlessOvertaken, ChargesMatchGathers
    <2>3. WrittenOff(LiveGathers, s)' = WrittenOff(LiveGathers, s) - Part(g, s) + Part(g, s)'
      BY OneGatherChanges DEF IInv
    <2>4. Part(g, s) = WriteOff(old, s) /\ Part(g, s)' = WriteOff(new, s)
      OBVIOUS
    <2> QED
      BY <1>1, <2>1, <2>2, <2>3, <2>4
  <1> QED
    BY <1>3, <1>4, <1>5, <1>6 DEF IInv

(* Settling keeps the table of shipments well typed.                       *)
LEMMA SettledTables ==
  ASSUME Tables, NEW old \in Details, NEW new \in Details, Settle(old, new)
  PROVE  shipments' \in [Shipments -> Shipment \union {None}]
  <1> DEFINE row(s) == IF shipments[s] # None /\ shipments[s].live
                       THEN [shipments[s] EXCEPT !.charge = @ - WriteOff(old, s) + WriteOff(new, s)]
                       ELSE shipments[s]
  <1>1. ASSUME NEW s \in Shipments PROVE row(s) \in Shipment \union {None}
    <2>1. WriteOff(old, s) \in Int /\ WriteOff(new, s) \in Int
      BY AmountsAreIntegers
    <2>2. shipments[s] \in Shipment \union {None}
      BY DEF Tables
    <2> QED
      BY <2>1, <2>2 DEF Shipment
  <1>2. shipments' = [s \in Shipments |-> row(s)]
    BY DEF Settle
  <1> HIDE DEF row
  <1> QED
    BY <1>1, <1>2

(* What a form offers has been created.                                    *)
LEMMA OfferedIsSettleable ==
  ASSUME NEW new, Offered(new)
  PROVE  Settleable(new.details)
  BY DEF Offered, LiveShipments, Settleable

LEMMA CreateGatherStep ==
  ASSUME IInv, NEW r \in Requests, NEW g \in Gathers, NEW p \in Payments, CreateGather(r, g, p)
  PROVE  IInv'
  <1> DEFINE row == [customer |-> p.customer, details |-> p.details, live |-> TRUE]
  <1>1. p.details \in Details /\ p.customer \in Customers /\ Settleable(p.details)
    BY PaymentDetails, OfferedIsSettleable DEF CreateGather
  <1>2. row \in Gather /\ row # None /\ row.details = p.details /\ row.live
    <2>1. row \in Gather
      BY <1>1 DEF Gather, Details
    <2> QED
      BY <2>1, NoneAssumption
  <1>3. gathers' = [gathers EXCEPT ![g] = row] /\ gathers[g] = None
    BY DEF CreateGather
  <1> HIDE DEF row
  <1>4. gathers'[g] = row /\ \A x \in Gathers \ {g} : gathers'[x] = gathers[x]
    BY <1>3 DEF IInv, Tables
  <1>5. /\ <<>> \in Details /\ Settle(<<>>, p.details)
        /\ shipments' \in [Shipments -> Shipment \union {None}]
    <2>1. <<>> \in Details
      BY DEF Details
    <2>2. Settle(<<>>, p.details)
      BY DEF CreateGather
    <2> QED
      BY <1>1, <2>1, <2>2, SettledTables DEF IInv
  <1>6. /\ UNCHANGED <<target, carries, form, existing, oldDetails, overtaken>>
        /\ pc' = [pc EXCEPT ![r] = "done"]
    BY DEF CreateGather, Goto
  <1>7. Tables' /\ Alone(r) /\ pc'[r] = "done" /\ (overtaken => overtaken')
    BY <1>2, <1>3, <1>5, <1>6 DEF IInv, Tables, Alone
  <1>8. ASSUME NEW s PROVE Part(g, s) = WriteOff(<<>>, s) /\ Part(g, s)' = WriteOff(p.details, s)
    <2>1. g \notin LiveGathers /\ g \in LiveGathers'
      BY <1>2, <1>3, <1>4 DEF LiveGathers
    <2> QED
      BY <1>2, <1>4, <2>1, EmptyOff DEF Part
  <1> QED
    BY <1>1, <1>2, <1>4, <1>5, <1>7, <1>8, GatherStep

(* The step is late, or what it takes back is what the gather holds.       *)
LEMMA UpdateGatherStep ==
  ASSUME IInv, NEW r \in Requests, UpdateGather(r)
  PROVE  IInv'
  <1>0. /\ target[r] \in Gathers /\ gathers[target[r]] \in Gather
        /\ carries[r] \in Payments /\ Settleable(carries[r].details)
        /\ oldDetails[r] \in Details
    BY DEF UpdateGather, IInv, Working, Works, Gathering, Tables
  <1> PICK g \in Gathers : g = target[r]
    BY <1>0
  <1> PICK p \in Payments : p = carries[r]
    BY <1>0
  <1> PICK old \in Details : old = oldDetails[r]
    BY <1>0
  <1> DEFINE row == [gathers[g] EXCEPT !.details = p.details,
                                       !.customer = IF gathers[g].live THEN p.customer ELSE @]
  <1>1. /\ gathers[g] \in Gather
        /\ p.details \in Details /\ p.customer \in Customers /\ Settleable(p.details)
    BY <1>0, PaymentDetails
  <1>2. row \in Gather /\ row # None /\ row.details = p.details /\ row.live = gathers[g].live
    BY <1>1, NoneAssumption DEF Gather, Details
  <1>3. gathers' = [gathers EXCEPT ![g] = row]
    BY <1>1 DEF UpdateGather, IInv, Tables
  <1>4. /\ UNCHANGED <<target, carries, form, existing, oldDetails>>
        /\ pc' = [pc EXCEPT ![r] = "done"]
        /\ overtaken' = (overtaken \/ gathers[g].details # old \/ ~gathers[g].live)
    BY DEF UpdateGather, EndGather, Goto
  <1>5. Settle(old, p.details)
    BY DEF UpdateGather
  <1> HIDE DEF row
  <1>6. gathers'[g] = row /\ \A x \in Gathers \ {g} : gathers'[x] = gathers[x]
    BY <1>1, <1>3 DEF IInv, Tables
  <1>7. shipments' \in [Shipments -> Shipment \union {None}]
    BY <1>1, <1>5, SettledTables DEF IInv
  <1>8. overtaken' \in BOOLEAN /\ (overtaken => overtaken')
    BY <1>1, <1>4 DEF IInv, Tables, Gather
  <1>9. Tables' /\ Alone(r) /\ pc'[r] = "done"
    BY <1>1, <1>2, <1>3, <1>4, <1>7, <1>8 DEF IInv, Tables, Alone
  <1>10. ASSUME ~overtaken', NEW s
         PROVE  Part(g, s) = WriteOff(old, s) /\ Part(g, s)' = WriteOff(p.details, s)
    <2>1. gathers[g].details = old /\ gathers[g].live
      BY <1>4, <1>10
    <2>2. g \in LiveGathers /\ g \in LiveGathers'
      BY <1>1, <1>2, <1>6, <2>1, NoneAssumption DEF LiveGathers
    <2> QED
      BY <1>2, <1>6, <2>1, <2>2 DEF Part
  <1>11. ~gathers'[g].live => overtaken'
    BY <1>2, <1>4, <1>6
  <1> QED
    BY <1>1, <1>2, <1>5, <1>6, <1>8, <1>9, <1>10, <1>11, GatherStep

LEMMA DeleteGatherStep ==
  ASSUME IInv, NEW r \in Requests, DeleteGather(r)
  PROVE  IInv'
  <1>0. target[r] \in Gathers /\ gathers[target[r]] \in Gather /\ oldDetails[r] \in Details
    BY DEF DeleteGather, IInv, Working, Works, Gathering, Tables
  <1> PICK g \in Gathers : g = target[r]
    BY <1>0
  <1> PICK old \in Details : old = oldDetails[r]
    BY <1>0
  <1> DEFINE row == [gathers[g] EXCEPT !.details = <<>>, !.live = FALSE]
  <1>1. gathers[g] \in Gather /\ <<>> \in Details /\ Settleable(<<>>)
    BY <1>0 DEF Details, Settleable
  <1>2. row \in Gather /\ row # None /\ row.details = <<>> /\ ~row.live
    BY <1>1, NoneAssumption DEF Gather, Details
  <1>3. gathers' = [gathers EXCEPT ![g] = row]
    BY <1>1 DEF DeleteGather, IInv, Tables
  <1>4. /\ UNCHANGED <<target, carries, form, existing, oldDetails>>
        /\ pc' = [pc EXCEPT ![r] = "done"]
        /\ overtaken' = (overtaken \/ gathers[g].details # old)
    BY DEF DeleteGather, EndGather, Goto
  <1>5. Settle(old, <<>>)
    BY DEF DeleteGather
  <1> HIDE DEF row
  <1>6. gathers'[g] = row /\ \A x \in Gathers \ {g} : gathers'[x] = gathers[x]
    BY <1>1, <1>3 DEF IInv, Tables
  <1>7. shipments' \in [Shipments -> Shipment \union {None}]
    BY <1>1, <1>5, SettledTables DEF IInv
  <1>8. overtaken' \in BOOLEAN /\ (overtaken => overtaken')
    BY <1>4 DEF IInv, Tables
  <1>9. Tables' /\ Alone(r) /\ pc'[r] = "done"
    BY <1>1, <1>2, <1>3, <1>4, <1>7, <1>8 DEF IInv, Tables, Alone
  <1>10. ASSUME ~overtaken', NEW s
         PROVE  Part(g, s) = WriteOff(old, s) /\ Part(g, s)' = WriteOff(<<>>, s)
    <2>1. gathers[g].details = old /\ ~overtaken
      BY <1>4, <1>10
    <2>2. g \notin LiveGathers'
      BY <1>2, <1>6 DEF LiveGathers
    <2>3. Part(g, s)' = WriteOff(<<>>, s)
      BY <2>2, EmptyOff DEF Part
    <2>4. CASE gathers[g].live
      <3>1. g \in LiveGathers
        BY <1>1, <2>4, NoneAssumption DEF LiveGathers
      <3> QED
        BY <2>1, <2>3, <3>1 DEF Part
    <2>5. CASE ~gathers[g].live
      <3>1. g \notin LiveGathers /\ old = <<>>
        BY <1>1, <2>1, <2>5, NoneAssumption DEF LiveGathers, IInv, DeletedHasNone
      <3> QED
        BY <2>3, <3>1, EmptyOff DEF Part
    <2> QED
      BY <2>4, <2>5
  <1> QED
    BY <1>1, <1>2, <1>5, <1>6, <1>8, <1>9, <1>10, GatherStep

(***************************************************************************)
(* The invariant holds.                                                    *)
(***************************************************************************)
LEMMA InitInv == Init => IInv
  <1> SUFFICES ASSUME Init PROVE IInv
    OBVIOUS
  <1> USE DEF Init
  <1>1. Tables
    <2>1. <<>> \in Details
      BY DEF Details
    <2>2. oldDetails \in [Requests -> Details] /\ form \in [Requests -> Int]
      BY <2>1
    <2>3. overtaken \in BOOLEAN
      OBVIOUS
    <2>4. /\ shipments \in [Shipments -> Shipment \union {None}]
          /\ gathers \in [Gathers -> Gather \union {None}]
      OBVIOUS
    <2>5. /\ pc = [r \in Requests |-> pc[r]] /\ target = [r \in Requests |-> target[r]]
          /\ carries = [r \in Requests |-> carries[r]]
          /\ existing = [r \in Requests |-> existing[r]]
      OBVIOUS
    <2> HIDE DEF Init
    <2> QED
      BY <2>2, <2>3, <2>4, <2>5 DEF Tables
  <1>2. Working
    BY DEF Working, Works, Editing, Saving, Gathering
  <1>3. LiveGathers = {}
    BY DEF LiveGathers
  <1> QED
    BY <1>1, <1>2, <1>3
       DEF IInv, GathersSettleable, DeletedHasNone, ChargesMatchUnlessOvertaken, ChargesMatchGathers

LEMMA UnchangedInv ==
  ASSUME IInv, UNCHANGED vars
  PROVE  IInv'
  <1> USE DEF vars
  <1>1. Tables'
    BY DEF IInv, Tables
  <1>2. Working'
    BY DEF IInv, Working, Works, Editing, Saving, Gathering, Settleable
  <1>3. GathersSettleable' /\ DeletedHasNone'
    BY DEF IInv, GathersSettleable, Settleable, LiveGathers, DeletedHasNone
  <1>4. ChargesMatchUnlessOvertaken'
    BY SameGathers DEF IInv, ChargesMatchUnlessOvertaken, ChargesMatchGathers
  <1> QED
    BY <1>1, <1>2, <1>3, <1>4 DEF IInv

LEMMA NextInv == IInv /\ [Next]_vars => IInv'
  <1> SUFFICES ASSUME IInv, [Next]_vars PROVE IInv'
    OBVIOUS
  <1>1. ASSUME NEW r \in Requests, NEW new \in Deals,
               Admit(r, new) \/ Refuse(r, new) \/ SaveShipment(r, new)
        PROVE  IInv'
    BY <1>1, AdmitStep, SaveStep
  <1>2. ASSUME NEW r \in Requests, NEW s \in Shipments,
               CreateShipment(r, s) \/ OpenShipment(r, s) \/ DeleteShipment(r, s)
        PROVE  IInv'
    BY <1>2, CreateShipmentStep, OpenStep, DeleteShipmentStep
  <1>3. ASSUME NEW r \in Requests, NEW g \in Gathers,
               \/ BeginDeleteGather(r, g)
               \/ \E new \in Payments : CreateGather(r, g, new) \/ BeginUpdateGather(r, g, new)
        PROVE  IInv'
    BY <1>3, BeginStep, CreateGatherStep
  <1>4. ASSUME NEW r \in Requests,
               UpdateShipment(r) \/ LoadDetails(r) \/ UpdateGather(r) \/ DeleteGather(r) \/ Fail(r)
        PROVE  IInv'
    BY <1>4, UpdateShipmentStep, LoadStep, UpdateGatherStep, DeleteGatherStep, FailStep
  <1>5. CASE Finished \/ UNCHANGED vars
    BY <1>5, UnchangedInv DEF Finished
  <1> QED
    BY <1>1, <1>2, <1>3, <1>4, <1>5 DEF Next

LEMMA Invariance == Spec => []IInv
  BY InitInv, NextInv, PTL DEF Spec

(* The charge of a shipment is what the gathers that are not deleted have  *)
(* written off, unless a request has committed on outdated reads: whatever *)
(* users create, edit, delete and give up, in any order.                   *)
THEOREM ChargesMatch == Spec => []ChargesMatchUnlessOvertaken
  <1>1. IInv => ChargesMatchUnlessOvertaken
    BY DEF IInv
  <1> QED
    BY <1>1, Invariance, PTL

(***************************************************************************)
(* The two ways to compute what is left of a shipment.                     *)
(***************************************************************************)
(* The same split for what is deducted.                                    *)
LEMMA DeductedWithoutOne ==
  ASSUME Tables, NEW g \in LiveGathers, NEW s
  PROVE  /\ Deducted(LiveGathers, s) = Deducted(LiveGathers \ {g}, s) + Deduct(gathers[g].details, s)
         /\ Deducted(LiveGathers \ {g}, s) \in Int
  <1> DEFINE L == LiveGathers
             R == L \ {g}
             w == [x \in L |-> Deduct(gathers[x].details, s)]
             v == [x \in R |-> Deduct(gathers[x].details, s)]
  <1>1. IsFiniteSet(L) /\ IsFiniteSet(R)
    BY LiveGathersFinite, FS_RemoveElement
  <1>2. \A x \in L : w[x] \in Int
    BY LiveDetails, AmountsAreIntegers
  <1>3. \A x \in R : w[x] = v[x] /\ v[x] \in Int
    BY <1>2
  <1>4. SumFunctionOnSet(w, R) = SumFunctionOnSet(v, R) /\ SumFunctionOnSet(v, R) \in Int
    <2> HIDE DEF w, v, R
    <2> QED
      BY <1>1, <1>3, SumEqual, SumType
  <1>5. w[g] = Deduct(gathers[g].details, s) /\ w[g] \in Int
    BY <1>2
  <1>6. SumFunctionOnSet(w, L) = w[g] + SumFunctionOnSet(w, R)
    <2> HIDE DEF w, L
    <2> QED
      BY <1>1, <1>2, SumRemove DEF L
  <1>7. SumFunctionOnSet(w, L) = SumFunctionOnSet(v, R) + Deduct(gathers[g].details, s)
    <2> HIDE DEF w, v, L, R
    <2> QED
      BY <1>4, <1>5, <1>6
  <1> QED
    BY <1>4, <1>7 DEF Deducted

(* The editor of a gather and the form of a new one agree on what is left  *)
(* of a shipment, up to what the gather itself has settled.                *)
THEOREM UnclearedAgree == Spec => []UnclearedAgrees
  <1>1. IInv => UnclearedAgrees
    <2> SUFFICES ASSUME IInv, ~overtaken, NEW g \in LiveGathers,
                        NEW c \in Customers, NEW s \in LiveShipments(c)
                 PROVE  UnclearedExcluding(s, g) =
                          Uncleared(s) + WriteOff(gathers[g].details, s)
                                       + Deduct(gathers[g].details, s)
      BY DEF UnclearedAgrees
    <2>1. Tables /\ g \in Gathers /\ s \in Shipments
      BY DEF IInv, LiveGathers, LiveShipments
    <2>2. shipments[s].charge = WrittenOff(LiveGathers, s)
      BY DEF IInv, LiveShipments, ChargesMatchUnlessOvertaken, ChargesMatchGathers
    <2>3. SplitAt(g, s) /\ Part(g, s) = WriteOff(gathers[g].details, s)
      BY <2>1, Split DEF Part
    <2>4. Deduct(gathers[g].details, s) \in Int
      BY <2>1, LiveDetails, AmountsAreIntegers
    <2>5. shipments[s].deal \in Int
      BY <2>1, NoneAssumption DEF Tables, Shipment, LiveShipments
    <2>6. /\ Deducted(LiveGathers, s)
               = Deducted(LiveGathers \ {g}, s) + Deduct(gathers[g].details, s)
          /\ Deducted(LiveGathers \ {g}, s) \in Int
      BY <2>1, DeductedWithoutOne
    <2> QED
      BY <2>2, <2>3, <2>4, <2>5, <2>6 DEF SplitAt, UnclearedExcluding, Uncleared
  <1> QED
    BY <1>1, Invariance, PTL

(***************************************************************************)
(* Customers.                                                              *)
(***************************************************************************)
KeepsCustomers ==
  \A s \in Shipments :
    /\ shipments[s] # None
    /\ shipments[s].charge > 0
    /\ shipments'[s].customer # shipments[s].customer
    => overtaken' \/ \E r \in Requests : HandedOn(r, s)

(* A change of charge leaves the customer as it is.                        *)
LEMMA SettleKeepsCustomers ==
  ASSUME Tables, NEW old \in Details, NEW new \in Details, Settle(old, new)
  PROVE  \A s \in Shipments : shipments[s] # None => shipments'[s].customer = shipments[s].customer
  <1> SUFFICES ASSUME NEW s \in Shipments, shipments[s] # None
               PROVE  shipments'[s].customer = shipments[s].customer
    OBVIOUS
  <1> DEFINE charge == shipments[s].charge - WriteOff(old, s) + WriteOff(new, s)
  <1>1. shipments[s] \in Shipment
    BY DEF Tables
  <1>2. shipments'[s] = IF shipments[s].live THEN [shipments[s] EXCEPT !.charge = charge]
                        ELSE shipments[s]
    BY DEF Settle
  <1> HIDE DEF charge
  <1> QED
    BY <1>1, <1>2 DEF Shipment

LEMMA UpdateKeepsCustomers ==
  ASSUME IInv, NEW r \in Requests, UpdateShipment(r)
  PROVE  KeepsCustomers
  <1> SUFFICES ASSUME NEW s \in Shipments, shipments[s] # None, shipments[s].charge > 0,
                      shipments'[s].customer # shipments[s].customer, ~HandedOn(r, s)
               PROVE  overtaken'
    BY DEF KeepsCustomers
  <1>1. /\ target[r] \in Shipments /\ carries[r] \in Deals /\ form[r] \in Int
        /\ existing[r] \in [customer : Customers, charge : Int]
        /\ carries[r].customer = existing[r].customer \/ ~(existing[r].charge > 0)
    BY DEF UpdateShipment, IInv, Working, Works, Editing, Saving, Tables
  <1>2. target[r] = s /\ shipments[s].live
    BY <1>1 DEF UpdateShipment, IInv, Tables
  <1>3. shipments'[s].customer = carries[r].customer
    BY <1>1, <1>2, StoredIsShipment DEF UpdateShipment, IInv, Tables
  <1>4. existing[r].customer = shipments[s].customer
    BY <1>2 DEF HandedOn, UpdateShipment
  <1>5. existing[r].charge # shipments[s].charge
    BY <1>1, <1>3, <1>4
  <1> QED
    BY <1>2, <1>5 DEF UpdateShipment

LEMMA CustomersKept == IInv /\ [Next]_vars => [KeepsCustomers]_vars
  <1> SUFFICES ASSUME IInv, Next PROVE KeepsCustomers
    OBVIOUS
  <1>1. CASE shipments' = shipments
    BY <1>1 DEF KeepsCustomers
  <1>2. ASSUME NEW r \in Requests, NEW s \in Shipments, CreateShipment(r, s) PROVE KeepsCustomers
    BY <1>2 DEF CreateShipment, KeepsCustomers, IInv, Tables
  <1>3. ASSUME NEW r \in Requests, NEW s \in Shipments, DeleteShipment(r, s) PROVE KeepsCustomers
    <2>1. shipments[s] \in Shipment
      BY <1>3 DEF DeleteShipment, IInv, Tables
    <2>2. \A x \in Shipments : shipments[x] # None => shipments'[x].customer = shipments[x].customer
      BY <1>3, <2>1 DEF DeleteShipment, IInv, Tables, Shipment
    <2> QED
      BY <2>2 DEF KeepsCustomers
  <1>4. ASSUME NEW old \in Details, NEW new \in Details, Settle(old, new) PROVE KeepsCustomers
    BY <1>4, SettleKeepsCustomers DEF KeepsCustomers, IInv
  <1>5. ASSUME NEW r \in Requests, NEW g \in Gathers, NEW p \in Payments, CreateGather(r, g, p)
        PROVE  KeepsCustomers
    <2>1. <<>> \in Details /\ p.details \in Details
      BY PaymentDetails DEF Details
    <2> QED
      BY <1>4, <1>5, <2>1 DEF CreateGather
  <1>6. ASSUME NEW r \in Requests, UpdateGather(r) \/ DeleteGather(r) PROVE KeepsCustomers
    <2>1. <<>> \in Details
      BY DEF Details
    <2>2. oldDetails[r] \in Details
      BY DEF IInv, Tables
    <2>3. CASE UpdateGather(r)
      <3>1. carries[r].details \in Details
        BY <2>3, PaymentDetails DEF UpdateGather, IInv, Working, Works, Gathering
      <3>2. Settle(oldDetails[r], carries[r].details)
        BY <2>3 DEF UpdateGather
      <3> QED
        BY <2>2, <3>1, <3>2, <1>4
    <2>4. CASE DeleteGather(r)
      BY <1>4, <2>1, <2>2, <2>4 DEF DeleteGather
    <2> QED
      BY <1>6, <2>3, <2>4
  <1>7. ASSUME NEW r \in Requests, UpdateShipment(r) PROVE KeepsCustomers
    BY <1>7, UpdateKeepsCustomers
  <1>8. CASE Finished
    BY <1>1, <1>8 DEF Finished, vars
  <1> QED
    BY <1>1, <1>2, <1>3, <1>5, <1>6, <1>7, <1>8
       DEF Next, Admit, Refuse, SaveShipment, OpenShipment, BeginDeleteGather, BeginUpdateGather,
           LoadDetails, Fail

(* A settled shipment changes hands only if UpdateShipment has looked at a *)
(* charge, or a customer, that is no longer the shipment's.                *)
THEOREM CustomerKept == Spec => SettledKeepsCustomer
  <1>1. [KeepsCustomers]_vars => [\A s \in Shipments :
                                    /\ shipments[s] # None
                                    /\ shipments[s].charge > 0
                                    /\ shipments'[s].customer # shipments[s].customer
                                    => overtaken' \/ \E r \in Requests : HandedOn(r, s)]_vars
    BY DEF KeepsCustomers
  <1> QED
    BY <1>1, Invariance, CustomersKept, PTL DEF Spec, SettledKeepsCustomer

(***************************************************************************)
(* Types.                                                                  *)
(***************************************************************************)
Labels == {"idle", "admitted", "editing", "saving", "update", "delete", "rewrite", "remove",
           "done"}

Ranges ==
  /\ pc \in [Requests -> Labels]
  /\ target \in [Requests -> Shipments \union Gathers \union {None}]
  /\ carries \in [Requests -> Deals \union Payments \union {None}]
  /\ existing \in [Requests -> [customer : Customers, charge : Int] \union {None}]

LEMMA RangesStep == IInv /\ Ranges /\ [Next]_vars => Ranges'
  <1> SUFFICES ASSUME IInv, Ranges, [Next]_vars PROVE Ranges'
    OBVIOUS
  <1> USE DEF Ranges, Labels, Goto
  <1>1. ASSUME NEW r \in Requests, NEW new \in Deals, Admit(r, new) \/ Refuse(r, new)
        PROVE  Ranges'
    BY <1>1 DEF Admit, Refuse
  <1>2. ASSUME NEW r \in Requests, NEW new \in Deals, SaveShipment(r, new) PROVE Ranges'
    <2>1. shipments[target[r]] \in Shipment
      BY <1>2 DEF SaveShipment, IInv, Working, Works, Editing, Tables
    <2> QED
      BY <1>2, <2>1 DEF SaveShipment, Shipment
  <1>3. ASSUME NEW r \in Requests, NEW s \in Shipments,
               CreateShipment(r, s) \/ OpenShipment(r, s) \/ DeleteShipment(r, s)
        PROVE  Ranges'
    BY <1>3 DEF CreateShipment, OpenShipment, DeleteShipment
  <1>4. ASSUME NEW r \in Requests, NEW g \in Gathers, BeginDeleteGather(r, g) PROVE Ranges'
    BY <1>4 DEF BeginDeleteGather
  <1>5. ASSUME NEW r \in Requests, NEW g \in Gathers, NEW new \in Payments,
               CreateGather(r, g, new) \/ BeginUpdateGather(r, g, new)
        PROVE  Ranges'
    BY <1>5 DEF CreateGather, BeginUpdateGather
  <1>6. ASSUME NEW r \in Requests,
               UpdateShipment(r) \/ LoadDetails(r) \/ UpdateGather(r) \/ DeleteGather(r) \/ Fail(r)
        PROVE  Ranges'
    BY <1>6 DEF UpdateShipment, LoadDetails, UpdateGather, DeleteGather, EndGather, Fail
  <1>7. CASE Finished \/ UNCHANGED vars
    BY <1>7 DEF Finished, vars
  <1> QED
    BY <1>1, <1>2, <1>3, <1>4, <1>5, <1>6, <1>7 DEF Next

(* Every table and every request holds what its type says: a charge stays  *)
(* an integer and a row a shipment or a gather, whatever is written.       *)
THEOREM TypeCorrect == Spec => []TypeOK
  <1>1. Init => Ranges
    BY DEF Init, Ranges, Labels
  <1>2. IInv /\ Ranges => TypeOK
    BY DEF IInv, Tables, Details, Ranges, Labels, TypeOK
  <1> QED
    BY <1>1, <1>2, RangesStep, Invariance, PTL DEF Spec
=============================================================================
