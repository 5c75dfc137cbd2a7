---------------------------- MODULE MCReceivable ----------------------------
(***************************************************************************)
(* Small instances of Receivable: one or two customers, shipments and      *)
(* gathers.                                                                *)
(***************************************************************************)
EXTENDS Receivable, TLC

CONSTANTS c1, c2, s1, s2, g1, g2, r1, r2, r3, r4, r5

MCCustomers == {c1, c2}
OneShipment == {s1}
TwoShipments == {s1, s2}
OneGather == {g1}
TwoGathers == {g1, g2}
ThreeRequests == {r1, r2, r3}
FiveRequests == {r1, r2, r3, r4, r5}

Symmetry == Permutations(Requests) \union Permutations(Gathers)

deal(c, m, t, d) == [customer |-> c, mode |-> m, month |-> t, deal |-> d]
settle(s, w, d) == [shipment |-> s, writeOff |-> w, deduct |-> d]
pay(c, details) == [customer |-> c, details |-> details]

(* A shipment of each customer and a return, made late enough to be held   *)
(* up by an older shipment that is not paid.                               *)
MCDeals == {deal(c1, 3, 1, 3), deal(c2, 3, 1, 2), deal(c1, 4, 3, -2)}

(* Two lines on one shipment, one of them with a deduction, and a line on  *)
(* the other; a line on that one alone; a gather of the other customer.    *)
MCPayments ==
  { pay(c1, <<settle(s1, 1, 1), settle(s1, 1, 0), settle(s2, -2, 0)>>),
    pay(c1, <<settle(s2, 1, 1)>>),
    pay(c2, <<settle(s1, 2, 0)>>) }

(* Returns of two customers, and a settlement.                             *)
Returns == {deal(c1, 4, 1, -2), deal(c2, 4, 1, -2)}
ReturnPayments == {pay(c1, <<settle(s1, -2, 0)>>)}

NoLimit == [c \in Customers |-> 0]
LimitOf3 == [c \in Customers |-> 3]
TwoMonths == [c \in Customers |-> 2]
=============================================================================
