------------------------------- MODULE Ledger -------------------------------
(***************************************************************************)
(* What services/inventory promises its callers: a business document       *)
(* either posts all of its quantity changes to the stock balances, at one  *)
(* instant, or posts nothing.  This module knows no rows, no locks and no  *)
(* SQL; Inventory.tla is the code, and implements this when every document *)
(* is booked with ApplyStockDeltas.                                        *)
(***************************************************************************)
EXTENDS Integers

CONSTANTS
  Keys,        \* stock rows: (product_id, customer_id, size_option_id)
  Docs,        \* business documents, each booked at most once
  Changes      \* the quantity changes a document may ask for: [Keys -> Int]s

VARIABLES
  balance,     \* balance[k]: the stock of k
  posted       \* the documents booked so far

vars == <<balance, posted>>

Init ==
  /\ balance \in [Keys -> Int]
  /\ posted = {}

(* Booking d changes every balance by exactly what d asked for. *)
Post(d, change) ==
  /\ d \notin posted
  /\ posted' = posted \union {d}
  /\ balance' = [k \in Keys |-> balance[k] + change[k]]

Next == \E d \in Docs, change \in Changes : Post(d, change)

Spec == Init /\ [][Next]_vars
=============================================================================
