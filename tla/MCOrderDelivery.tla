-------------------------- MODULE MCOrderDelivery --------------------------
(***************************************************************************)
(* A small instance of OrderDelivery: two orders of up to two products,    *)
(* two shipments, and two requests at a time.                              *)
(***************************************************************************)
EXTENDS OrderDelivery, TLC

CONSTANTS o1, o2, s1, s2, r1, r2

MCOrders == {o1, o2}
MCShipments == {s1, s2}
TwoAtATime == {r1, r2}
MCProducts == {1, 2}

Symmetry ==
  Permutations(Requests) \union Permutations(Shipments) \union Permutations(Orders)

line(p, q) == [product |-> p, qty |-> q, stopped |-> FALSE]
cleared(p, q) == [product |-> p, qty |-> q, stopped |-> TRUE]

(* A line that takes two shipments, and two products.                      *)
MCNewForms == { <<line(1, 2)>>, <<line(1, 1), line(2, 1)>> }

(* The editor may clear the only line, or the last of two of a product.    *)
MCEditForms == { <<line(1, 2)>>, <<cleared(1, 2)>>, <<line(1, 1), cleared(1, 1)>> }
=============================================================================
