----------------------------- MODULE Receivable -----------------------------
(***************************************************************************)
(* What customers owe: shipments, with the amount of the deal and the      *)
(* charge already settled, and gathers (payments), whose lines settle      *)
(* shipments.                                                              *)
(*                                                                         *)
(* The charge of a shipment is a counter kept by two controllers.  Gathers *)
(* add to it and take back from it; the shipment's own editor writes back  *)
(* the value its form was opened with.  A new shipment passes a credit and *)
(* an overdue check, both made before its transaction.                     *)
(*                                                                         *)
(* Each transaction is one action from its first write on: its UPDATEs of  *)
(* charge_amount add to the current row, so their order does not matter.   *)
(* Reads from a lagging replica need no variable: a request reads first    *)
(* and commits later, and an older read is a read made earlier.            *)
(***************************************************************************)
EXTENDS Integers, Sequences, FiniteSets, Functions

CONSTANTS
  Customers,
  Shipments,    \* ids
  Gathers,      \* ids
  Requests,     \* users at work, each on one document
  Deals,        \* what a shipment may say: [customer, mode, month, deal]
  Payments,     \* what a gather may say: [customer, details]
  CreditLimit,  \* retail_customers.credit_limit; 0 for none
  Months,       \* retail_customers.month: months to pay in; 0 for no check
  None          \* no such document

(* mode: 3 is a shipment, 4 a return, whose deal is negative.              *)
(* month: the close month, counted in months.                              *)
Deal == [customer : Customers, mode : {3, 4}, month : Int, deal : Int]

(* deduct: discount_amount and other_deduct.                               *)
GatherDetail == [shipment : Shipments, writeOff : Int, deduct : Int]

Payment == [customer : Customers, details : Seq(GatherDetail)]

Shipment ==
  [customer : Customers, mode : {3, 4}, month : Int, deal : Int, charge : Int,
   live : BOOLEAN]

Gather == [customer : Customers, details : Seq(GatherDetail), live : BOOLEAN]

ASSUME DealsAssumption == Deals \subseteq Deal

ASSUME PaymentsAssumption == Payments \subseteq Payment

ASSUME FiniteAssumption == IsFiniteSet(Gathers)

ASSUME LimitsAssumption ==
  CreditLimit \in [Customers -> Nat] /\ Months \in [Customers -> Nat]

ASSUME NoneAssumption ==
  None \notin Shipment \union Gather \union Shipments \union Gathers
            \union [customer : Customers, charge : Int]

VARIABLES
  shipments,  \* the table shipments
  gathers,    \* the tables gathers and gather_details
  pc,         \* how far a request has come
  target,     \* the document it works on
  carries,    \* what it will write
  form,       \* the charge its form was opened with
  existing,   \* the shipment it has read: [customer, charge]
  oldDetails, \* the details it has read
  overtaken   \* history: a request has committed on reads that were outdated

vars == <<shipments, gathers, pc, target, carries, form, existing, oldDetails,
          overtaken>>

-----------------------------------------------------------------------------
(* Amounts *)

LiveShipments(c) ==
  {s \in Shipments :
     shipments[s] # None /\ shipments[s].live /\ shipments[s].customer = c}

LiveGathers == {g \in Gathers : gathers[g] # None /\ gathers[g].live}

Of(details, s) == {i \in DOMAIN details : details[i].shipment = s}

WriteOff(details, s) ==
  SumFunctionOnSet([i \in DOMAIN details |-> details[i].writeOff], Of(details, s))

Deduct(details, s) ==
  SumFunctionOnSet([i \in DOMAIN details |-> details[i].deduct], Of(details, s))

WrittenOff(gs, s) == SumFunctionOnSet([g \in gs |-> WriteOff(gathers[g].details, s)], gs)

Deducted(gs, s) == SumFunctionOnSet([g \in gs |-> Deduct(gathers[g].details, s)], gs)

(* receivable.OutstandingRoundedExpr                                       *)
Outstanding(s) == shipments[s].deal - shipments[s].charge - Deducted(LiveGathers, s)

(* What GetUnclearedShipments says is left of s, for a new gather and for  *)
(* the editor of gather g, which does not count g itself.                  *)
Uncleared(s) == shipments[s].deal - shipments[s].charge - Deducted(LiveGathers, s)

(* Mutation of UnclearedExcluding: the charge is taken as it stands.       *)
ExcludingDeductsOnly(s, g) ==
  shipments[s].deal - shipments[s].charge - Deducted(LiveGathers \ {g}, s)

UnclearedExcluding(s, g) ==
  shipments[s].deal - WrittenOff(LiveGathers \ {g}, s)
                    - Deducted(LiveGathers \ {g}, s)

(* The balance the credit check compares with the limit.                   *)
Balance(c) ==
  SumFunctionOnSet([s \in LiveShipments(c) |-> shipments[s].deal - shipments[s].charge],
                   LiveShipments(c))

(* Returns are not checked.                                                *)
OverLimit(new) ==
  /\ new.mode # 4
  /\ CreditLimit[new.customer] > 0
  /\ Balance(new.customer) >= CreditLimit[new.customer]

(* A shipment too many months old that is not paid, seen from month m.     *)
Overdue(c, m) ==
  /\ Months[c] > 0
  /\ \E s \in LiveShipments(c) :
       /\ shipments[s].mode = 3
       /\ shipments[s].month <= m - Months[c]
       /\ Outstanding(s) > 0

-----------------------------------------------------------------------------
(* Shipments *)

Init ==
  /\ shipments = [s \in Shipments |-> None]
  /\ gathers = [g \in Gathers |-> None]
  /\ pc = [r \in Requests |-> "idle"]
  /\ target = [r \in Requests |-> None]
  /\ carries = [r \in Requests |-> None]
  /\ form = [r \in Requests |-> 0]
  /\ existing = [r \in Requests |-> None]
  /\ oldDetails = [r \in Requests |-> <<>>]
  /\ overtaken = FALSE

Goto(r, label) == pc' = [pc EXCEPT ![r] = label]

(* CreateShipment: the checks on the read database.                        *)
Admit(r, new) ==
  /\ pc[r] = "idle"
  /\ ~OverLimit(new)
  /\ ~Overdue(new.customer, new.month)
  /\ carries' = [carries EXCEPT ![r] = new]
  /\ Goto(r, "admitted")
  /\ UNCHANGED <<shipments, gathers, target, form, existing, oldDetails, overtaken>>

Refuse(r, new) ==
  /\ pc[r] = "idle"
  /\ OverLimit(new) \/ Overdue(new.customer, new.month)
  /\ Goto(r, "done")
  /\ UNCHANGED <<shipments, gathers, target, carries, form, existing, oldDetails,
                 overtaken>>

(* Mutation of Stored: shipment_mode is left out.                          *)
StoredWithoutMode(new, charge) ==
  [customer |-> new.customer, mode |-> 0, month |-> new.month,
   deal |-> new.deal, charge |-> charge, live |-> TRUE]

Stored(new, charge) ==
  [customer |-> new.customer, mode |-> new.mode, month |-> new.month,
   deal |-> new.deal, charge |-> charge, live |-> TRUE]

(* CreateShipment: the transaction.  The form of a new shipment carries no *)
(* charge.                                                                 *)
CreateShipment(r, s) ==
  /\ pc[r] = "admitted"
  /\ shipments[s] = None
  /\ shipments' = [shipments EXCEPT ![s] = Stored(carries[r], 0)]
  /\ Goto(r, "done")
  /\ UNCHANGED <<gathers, target, carries, form, existing, oldDetails, overtaken>>

(* GetShipment: the editor opens.                                          *)
OpenShipment(r, s) ==
  /\ pc[r] = "idle"
  /\ shipments[s] # None /\ shipments[s].live
  /\ target' = [target EXCEPT ![r] = s]
  /\ form' = [form EXCEPT ![r] = shipments[s].charge]
  /\ Goto(r, "editing")
  /\ UNCHANGED <<shipments, gathers, carries, existing, oldDetails, overtaken>>

(* Mutation of CustomerMayChange: anybody may change it.                   *)
CustomerAlwaysMayChange(now, new) == TRUE

(* A shipment that has been settled keeps its customer.                    *)
CustomerMayChange(now, new) ==
  \/ new.customer = now.customer
  \/ ~(now.charge > 0)

(* UpdateShipment, up to its transaction.                                  *)
SaveShipment(r, new) ==
  LET now == shipments[target[r]]
  IN /\ pc[r] = "editing"
     /\ now.live
     /\ CustomerMayChange(now, new)
     /\ carries' = [carries EXCEPT ![r] = new]
     /\ existing' = [existing EXCEPT ![r] = [customer |-> now.customer, charge |-> now.charge]]
     /\ Goto(r, "saving")
     /\ UNCHANGED <<shipments, gathers, target, form, oldDetails, overtaken>>

(* UpdateShipment, the transaction: charge_amount is what the form carries.*)
(* No row matches if the shipment has been deleted, which is no error.     *)
UpdateShipment(r) ==
  LET s == target[r]
      now == shipments[s]
  IN /\ pc[r] = "saving"
     /\ shipments' =
          IF now.live
          THEN [shipments EXCEPT ![s] = Stored(carries[r], form[r])]
          ELSE shipments
     /\ overtaken' = (overtaken \/ (now.live /\ {form[r], existing[r].charge} # {now.charge}))
     /\ Goto(r, "done")
     /\ UNCHANGED <<gathers, target, carries, form, existing, oldDetails>>

(* DeleteShipment does not look at charge_amount or the gathers.           *)
DeleteShipment(r, s) ==
  /\ pc[r] = "idle"
  /\ shipments[s] # None /\ shipments[s].live
  /\ shipments' = [shipments EXCEPT ![s].live = FALSE]
  /\ Goto(r, "done")
  /\ UNCHANGED <<gathers, target, carries, form, existing, oldDetails, overtaken>>

-----------------------------------------------------------------------------
(* Gathers *)

(* The shipments a user can pick: those of the customer, not deleted.      *)
Offered(new) ==
  \A i \in DOMAIN new.details : new.details[i].shipment \in LiveShipments(new.customer)

(* Mutation of Settle: an update does not take back the old details.       *)
SettleWithoutRestore(old, new) ==
  shipments' = [s \in Shipments |->
    IF shipments[s] # None /\ shipments[s].live
    THEN [shipments[s] EXCEPT !.charge = @ + WriteOff(new, s)]
    ELSE shipments[s]]

(* UPDATE shipments SET charge_amount = charge_amount +/- writeOff, for    *)
(* every detail; GORM leaves out deleted shipments.                        *)
Settle(old, new) ==
  shipments' = [s \in Shipments |->
    IF shipments[s] # None /\ shipments[s].live
    THEN [shipments[s] EXCEPT !.charge = @ - WriteOff(old, s) + WriteOff(new, s)]
    ELSE shipments[s]]

CreateGather(r, g, new) ==
  /\ pc[r] = "idle"
  /\ gathers[g] = None
  /\ Offered(new)
  /\ gathers' = [gathers EXCEPT ![g] =
       [customer |-> new.customer, details |-> new.details, live |-> TRUE]]
  /\ Settle(<<>>, new.details)
  /\ Goto(r, "done")
  /\ UNCHANGED <<target, carries, form, existing, oldDetails, overtaken>>

BeginUpdateGather(r, g, new) ==
  /\ pc[r] = "idle"
  /\ gathers[g] # None /\ gathers[g].live
  /\ Offered(new)
  /\ target' = [target EXCEPT ![r] = g]
  /\ carries' = [carries EXCEPT ![r] = new]
  /\ Goto(r, "update")
  /\ UNCHANGED <<shipments, gathers, form, existing, oldDetails, overtaken>>

(* DeleteGather does not look for the gather.                              *)
BeginDeleteGather(r, g) ==
  /\ pc[r] = "idle"
  /\ gathers[g] # None
  /\ target' = [target EXCEPT ![r] = g]
  /\ Goto(r, "delete")
  /\ UNCHANGED <<shipments, gathers, carries, form, existing, oldDetails, overtaken>>

(* tx.Where("gather_id = ?", gatherID).Find(&oldDetails), without a lock.  *)
LoadDetails(r) ==
  /\ pc[r] \in {"update", "delete"}
  /\ oldDetails' = [oldDetails EXCEPT ![r] = gathers[target[r]].details]
  /\ Goto(r, IF pc[r] = "update" THEN "rewrite" ELSE "remove")
  /\ UNCHANGED <<shipments, gathers, target, carries, form, existing, overtaken>>

EndGather(r) ==
  /\ overtaken' = (overtaken \/ gathers[target[r]].details # oldDetails[r]
                   \/ (pc[r] = "rewrite" /\ ~gathers[target[r]].live))
  /\ Goto(r, "done")
  /\ UNCHANGED <<target, carries, form, existing, oldDetails>>

(* The header of a deleted gather is not updated, its details are stored.  *)
UpdateGather(r) ==
  LET g == target[r]
      new == carries[r]
  IN /\ pc[r] = "rewrite"
     /\ Settle(oldDetails[r], new.details)
     /\ gathers' = [gathers EXCEPT
          ![g].details = new.details,
          ![g].customer = IF gathers[g].live THEN new.customer ELSE @]
     /\ EndGather(r)

DeleteGather(r) ==
  LET g == target[r]
  IN /\ pc[r] = "remove"
     /\ Settle(oldDetails[r], <<>>)
     /\ gathers' = [gathers EXCEPT ![g].details = <<>>, ![g].live = FALSE]
     /\ EndGather(r)

(* A user who gives up, an error reply, a rollback.                        *)
Fail(r) ==
  /\ pc[r] \notin {"idle", "done"}
  /\ Goto(r, "done")
  /\ UNCHANGED <<shipments, gathers, target, carries, form, existing, oldDetails,
                 overtaken>>

(* Every user has finished. *)
Finished ==
  /\ \A r \in Requests : pc[r] = "done"
  /\ UNCHANGED vars

Next ==
  \/ \E r \in Requests :
       \/ \E new \in Deals : Admit(r, new) \/ Refuse(r, new) \/ SaveShipment(r, new)
       \/ \E s \in Shipments :
            CreateShipment(r, s) \/ OpenShipment(r, s) \/ DeleteShipment(r, s)
       \/ \E g \in Gathers :
            \/ BeginDeleteGather(r, g)
            \/ \E new \in Payments : CreateGather(r, g, new) \/ BeginUpdateGather(r, g, new)
       \/ UpdateShipment(r)
       \/ LoadDetails(r)
       \/ UpdateGather(r)
       \/ DeleteGather(r)
       \/ Fail(r)
  \/ Finished

Spec == Init /\ [][Next]_vars

-----------------------------------------------------------------------------
(* Properties *)

(* Type correctness of the tables and of the requests: a shipment is a     *)
(* shipment or a return, and what a request writes is of the kind it says. *)
TypeOK ==
  /\ shipments \in [Shipments -> Shipment \union {None}]
  /\ gathers \in [Gathers -> Gather \union {None}]
  /\ pc \in [Requests -> {"idle", "admitted", "editing", "saving", "update", "delete",
                         "rewrite", "remove", "done"}]
  /\ target \in [Requests -> Shipments \union Gathers \union {None}]
  /\ carries \in [Requests -> Deals \union Payments \union {None}]
  /\ form \in [Requests -> Int]
  /\ existing \in [Requests -> [customer : Customers, charge : Int] \union {None}]
  /\ oldDetails \in [Requests -> Seq(GatherDetail)]
  /\ overtaken \in BOOLEAN

(* The charge of a shipment is what the gathers that are not deleted have  *)
(* written off (models/shipment.go: charge_amount is written by gathers).  *)
ChargesMatchGathers ==
  \A s \in Shipments :
    shipments[s] # None /\ shipments[s].live
      => shipments[s].charge = WrittenOff(LiveGathers, s)

(* It goes wrong only if a request commits on outdated reads: no order of  *)
(* creations, edits, deletions and failures of both documents does.        *)
ChargesMatchUnlessOvertaken == ~overtaken => ChargesMatchGathers

(* The editor of a gather and the form of a new one compute what is left   *)
(* of a shipment from different columns (gather_details and charge_amount).*)
(* They differ by what that gather itself has settled.                     *)
UnclearedAgrees ==
  ~overtaken =>
    \A g \in LiveGathers, s \in UNION {LiveShipments(c) : c \in Customers} :
      UnclearedExcluding(s, g) =
        Uncleared(s) + WriteOff(gathers[g].details, s) + Deduct(gathers[g].details, s)

(* r has read s, and found a customer it no longer has.                    *)
HandedOn(r, s) ==
  pc[r] = "saving" /\ target[r] = s /\ existing[r].customer # shipments[s].customer

(* A settled shipment changes hands only if its charge, or its customer,   *)
(* changed after UpdateShipment had looked.                                *)
SettledKeepsCustomer ==
  [][\A s \in Shipments :
       /\ shipments[s] # None
       /\ shipments[s].charge > 0
       /\ shipments'[s].customer # shipments[s].customer
       => overtaken' \/ \E r \in Requests : HandedOn(r, s)]_vars

(* What a gather settles belongs to its own customer (UpdateShipment: a    *)
(* shipment that has been reconciled cannot change its customer).          *)
GatheredKeepsCustomer ==
  ~overtaken =>
    \A g \in LiveGathers : \A i \in DOMAIN gathers[g].details :
      LET s == gathers[g].details[i].shipment
      IN shipments[s].live => shipments[s].customer = gathers[g].customer
=============================================================================
