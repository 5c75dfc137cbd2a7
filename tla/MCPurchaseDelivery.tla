------------------------ MODULE MCPurchaseDelivery ------------------------
(***************************************************************************)
(* A small instance of PurchaseDelivery: two purchases of up to two        *)
(* products, two receipts, two vendors, and two requests at a time.        *)
(***************************************************************************)
EXTENDS PurchaseDelivery, TLC

CONSTANTS p1, p2, s1, s2, r1, r2, v1, v2

MCPurchases == {p1, p2}
MCReceipts == {s1, s2}
MCVendors == {v1, v2}
TwoAtATime == {r1, r2}
MCProducts == {1, 2}

Symmetry ==
  Permutations(Requests) \union Permutations(Receipts) \union Permutations(Purchases)
    \union Permutations(Vendors)

line(p, q) == [product |-> p, qty |-> q, stopped |-> FALSE]
cleared(p, q) == [product |-> p, qty |-> q, stopped |-> TRUE]

(* A line that takes two receipts, and two products.                       *)
MCNewForms == { <<line(1, 2)>>, <<line(1, 1), line(2, 1)>> }

(* The editor may clear the only line.                                     *)
MCEditForms == { <<line(2, 1)>>, <<cleared(1, 2)>> }
=============================================================================
