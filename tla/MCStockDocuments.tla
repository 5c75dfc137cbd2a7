-------------------------- MODULE MCStockDocuments --------------------------
(***************************************************************************)
(* Small instances of StockDocuments: two stores, one product, or two      *)
(* where the order of the lines matters.                                   *)
(***************************************************************************)
EXTENDS StockDocuments, TLC

CONSTANTS s1, s2, d1, d2, r1, r2, r3, r4

MCStores == {s1, s2}
TwoDocs == {d1, d2}
ThreeRequests == {r1, r2, r3}
FourRequests == {r1, r2, r3, r4}
OneProduct == {1}
TwoProducts == {1, 2}

Symmetry == Permutations(Requests)

header(s, m, l) == [store |-> s, mode |-> m, linked |-> l]
item(p, t, m, q) == [product |-> p, dest |-> t, sell |-> m, qty |-> q]
doc(k, h, items) == [kind |-> k, header |-> h, items |-> items]

(* Receipts and returns, linked to a purchase or not, moving store. *)
Receipts ==
  { doc("stock", header(s1, 1, FALSE), <<item(1, s1, 0, 2)>>),
    doc("stock", header(s1, 2, TRUE), <<item(1, s1, 0, 1)>>),
    doc("stock", header(s2, 1, FALSE), <<item(1, s1, 0, 1), item(1, s1, 0, 0)>>) }

Shipments ==
  { doc("shipment", header(s1, 3, TRUE), <<item(1, s1, 0, 1)>>),
    doc("shipment", header(s1, 3, FALSE), <<item(1, s1, 0, 1)>>),
    doc("shipment", header(s2, 4, FALSE), <<item(1, s1, 0, 1)>>) }

Adjustments ==
  { doc("modify", header(s1, 0, FALSE), <<item(1, s1, 0, -1)>>),
    doc("modify", header(s2, 0, FALSE), <<item(1, s1, 0, 2)>>) }

Transfers ==
  { doc("transfer", header(s1, 0, FALSE), <<item(1, s2, 0, 1)>>),
    doc("transfer", header(s2, 0, FALSE), <<item(1, s1, 0, 1)>>) }

Sales ==
  { doc("retail", header(s1, 0, FALSE), <<item(1, s1, 1, 1), item(1, s1, 2, 2)>>),
    doc("retail", header(s2, 0, FALSE), <<item(1, s1, 7, 1)>>) }

AllKinds == Receipts \union Shipments \union Adjustments \union Transfers \union Sales
KindsRebuilt == Receipts \union Shipments \union Adjustments \union Transfers

(* Two lines sent in the opposite order of their model codes. *)
TwoLineTransfers ==
  { doc("stock", header(s1, 1, FALSE), <<item(1, s1, 0, 3), item(2, s1, 0, 3)>>),
    doc("transfer", header(s1, 0, FALSE), <<item(2, s2, 0, 1), item(1, s2, 0, 2)>>) }
=============================================================================
