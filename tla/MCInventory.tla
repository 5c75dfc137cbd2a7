---------------------------- MODULE MCInventory -----------------------------
(***************************************************************************)
(* Small instances of Inventory: one product in one size, stocked at two   *)
(* stores, so a stock row is a store.                                      *)
(***************************************************************************)
EXTENDS Inventory, TLC

CONSTANTS a, b, t1, t2, t3

MCKeys == {a, b}
MCTwoTxns == {t1, t2}
MCThreeTxns == {t1, t2, t3}

Symmetry == Permutations(Txns)

line(k, q) == [key |-> k, qty |-> q]
Adjust(lines) == [kind |-> "adjust", lines |-> lines]
Transfer(k, l, n) == [kind |-> "transfer", lines |-> <<line(k, -n), line(l, n)>>]

(* A receipt with the same size on two lines, a delivery with a zero line, *)
(* two documents that lock the rows in opposite orders.                    *)
AdjustRequests ==
  { Adjust(<<line(a, 1), line(a, 1)>>),
    Adjust(<<line(b, 0), line(b, -1)>>),
    Adjust(<<line(a, 1), line(b, -1)>>),
    Adjust(<<line(b, 2), line(a, -1)>>) }

TwoLineTransfer ==
  [kind |-> "transfer",
   lines |-> <<line(a, -1), line(b, 1), line(a, -1), line(b, 1)>>]

(* Transfers both ways, one with the same size on two lines, and an update *)
(* that moves one piece less.                                              *)
TransferRequests ==
  { Transfer(a, b, 1),
    TwoLineTransfer,
    Transfer(b, a, 1),
    [kind |-> "retransfer",
     lines |-> <<line(a, 2), line(b, -2), line(a, -1), line(b, 1)>>] }

MixedRequests == AdjustRequests \union TransferRequests

(* One store holds the product; the other has no row for it, or an empty one. *)
MCInitialRows == { (a :> 2) @@ (b :> NoRow), (a :> 1) @@ (b :> 0) }
=============================================================================
