------------------------ MODULE StockDocumentsProofs ------------------------
(***************************************************************************)
(* Theorems about StockDocuments, for every set of stores, products,       *)
(* requests and payloads, every finite set of documents, batches of any    *)
(* size, and a replica that lags or none.                                  *)
(***************************************************************************)
EXTENDS StockDocuments, SumTheorems, SequenceTheorems

Lines == Seq(Item)

(***************************************************************************)
(* The order of lines.                                                     *)
(***************************************************************************)

(* R orders S strictly and totally.                                        *)
Orders(R, S) ==
  /\ \A x \in S : <<x, x>> \notin R
  /\ \A x, y, z \in S : <<x, y>> \in R /\ <<y, z>> \in R => <<x, z>> \in R
  /\ \A x, y \in S : x # y => <<x, y>> \in R \/ <<y, x>> \in R

(* p lists the elements of S in the order R.                               *)
Lists(p, n, R, S) ==
  /\ p \in [1..n -> S]
  /\ \A x \in S : \E i \in 1..n : p[i] = x
  /\ \A i, j \in 1..n : i < j => <<p[i], p[j]>> \in R

(* A finite set has a last element.                                        *)
LEMMA LastElement ==
  ASSUME NEW R, NEW S, IsFiniteSet(S), Orders(R, S), S # {}
  PROVE  \E m \in S : \A x \in S \ {m} : <<x, m>> \in R
  <1> DEFINE B == {T \in SUBSET S : T # {} /\ ~\E m \in T : \A x \in T \ {m} : <<x, m>> \in R}
  <1> SUFFICES ASSUME S \in B PROVE FALSE
    OBVIOUS
  <1>1. B \in SUBSET SUBSET S
    OBVIOUS
  <1>2. PICK T \in B : \A U \in B : U \subseteq T => U = T
    <2> HIDE DEF B
    <2> QED
      BY <1>1, MinimalSubset
  <1>3. PICK x \in T : TRUE
    OBVIOUS
  <1>4. T \ {x} # {}
    BY <1>3
  <1>5. T \ {x} \notin B
    <2> HIDE DEF B
    <2> QED
      BY <1>2, <1>3
  <1>6. PICK m \in T \ {x} : \A y \in (T \ {x}) \ {m} : <<y, m>> \in R
    BY <1>4, <1>5
  <1>7. CASE <<x, m>> \in R
    BY <1>6, <1>7
  <1>8. CASE <<m, x>> \in R
    <2>1. \A y \in T \ {x} : <<y, x>> \in R
      BY <1>3, <1>6, <1>8 DEF Orders
    <2> QED
      BY <1>3, <2>1
  <1> QED
    BY <1>3, <1>6, <1>7, <1>8 DEF Orders

(* Every finite set can be sorted.                                         *)
LEMMA SortingExists ==
  ASSUME NEW R, NEW S, IsFiniteSet(S), Orders(R, S)
  PROVE  \E n \in Nat : \E p : Lists(p, n, R, S)
  <1> DEFINE B == {T \in SUBSET S : ~\E n \in Nat : \E p : Lists(p, n, R, T)}
  <1> SUFFICES ASSUME S \in B PROVE FALSE
    OBVIOUS
  <1>1. B \in SUBSET SUBSET S
    OBVIOUS
  <1>2. PICK T \in B : \A U \in B : U \subseteq T => U = T
    <2> HIDE DEF B
    <2> QED
      BY <1>1, MinimalSubset
  <1>3. T # {}
    <2> SUFFICES ASSUME T = {} PROVE FALSE
      OBVIOUS
    <2>1. Lists([i \in 1..0 |-> i], 0, R, T)
      BY DEF Lists
    <2> QED
      BY <1>2, <2>1
  <1>4. IsFiniteSet(T) /\ Orders(R, T)
    BY FS_Subset DEF Orders
  <1>5. PICK m \in T : \A x \in T \ {m} : <<x, m>> \in R
    BY <1>3, <1>4, LastElement
  <1>6. T \ {m} \notin B
    BY <1>2
  <1>6a. PICK n \in Nat : \E q : Lists(q, n, R, T \ {m})
    BY <1>6
  <1>7. PICK q : Lists(q, n, R, T \ {m})
    BY <1>6a
  <1> DEFINE p == [i \in 1..(n + 1) |-> IF i = n + 1 THEN m ELSE q[i]]
  <1>8. Lists(p, n + 1, R, T)
    <2>1. p \in [1..(n + 1) -> T]
      BY <1>7 DEF Lists
    <2>2. \A x \in T : \E i \in 1..(n + 1) : p[i] = x
      BY <1>7 DEF Lists
    <2>3. \A i, j \in 1..(n + 1) : i < j => <<p[i], p[j]>> \in R
      BY <1>5, <1>7 DEF Lists
    <2> QED
      BY <2>1, <2>2, <2>3 DEF Lists
  <1> QED
    BY <1>2, <1>8

(* The lines are reordered by a permutation: by model code, and as sent    *)
(* where the codes are equal.                                              *)
InOrder(items, p) ==
  \A i, j \in DOMAIN items : i < j =>
    \/ items[p[i]].product < items[p[j]].product
    \/ items[p[i]].product = items[p[j]].product /\ p[i] < p[j]

LEMMA LineOfLines ==
  ASSUME NEW items \in Lines
  PROVE  /\ Len(items) \in Nat
         /\ DOMAIN items = 1..Len(items)
         /\ IsFiniteSet(DOMAIN items)
         /\ \A i \in DOMAIN items : items[i] \in Item
  BY LenProperties, ElementOfSeq, FS_Interval DEF Lines

(* ReorderItemsByModelCode finds an order, whatever the lines: there is a  *)
(* stable sort of them.                                                    *)
LEMMA ReorderSorts ==
  ASSUME NEW items \in Lines
  PROVE  /\ ReorderItemsByModelCode(items) \in Bijection(DOMAIN items, DOMAIN items)
         /\ InOrder(items, ReorderItemsByModelCode(items))
  <1> DEFINE D == DOMAIN items
             before(i, j) == \/ items[i].product < items[j].product
                             \/ items[i].product = items[j].product /\ i < j
             R == {d \in D \X D : before(d[1], d[2])}
  <1>1. Len(items) \in Nat /\ D = 1..Len(items) /\ IsFiniteSet(D)
    BY LineOfLines
  <1>2. \A i \in D : items[i].product \in Int
    BY LineOfLines, ProductsAssumption DEF Item
  <1>3. Orders(R, D)
    <2>1. \A x \in D : <<x, x>> \notin R
      BY <1>1, <1>2
    <2>2. \A x, y, z \in D : <<x, y>> \in R /\ <<y, z>> \in R => <<x, z>> \in R
      BY <1>1, <1>2
    <2>3. \A x, y \in D : x # y => <<x, y>> \in R \/ <<y, x>> \in R
      BY <1>1, <1>2
    <2> QED
      BY <2>1, <2>2, <2>3 DEF Orders
  <1>3a. PICK n \in Nat : \E q : Lists(q, n, R, D)
    <2> HIDE DEF R, D
    <2> QED
      BY <1>1, <1>3, SortingExists
  <1>4. PICK q : Lists(q, n, R, D)
    BY <1>3a
  <1>5. q \in Bijection(1..n, D)
    <2>1. \A i, j \in 1..n : q[i] = q[j] => i = j
      <3> SUFFICES ASSUME NEW i \in 1..n, NEW j \in 1..n, q[i] = q[j], i < j PROVE FALSE
        OBVIOUS
      <3> HIDE DEF R, D
      <3> QED
        BY <1>3, <1>4 DEF Lists, Orders
    <2> QED
      BY <1>4, <2>1 DEF Lists, Bijection, Injection, IsInjective, Surjection
  <1>6. 1..n = D
    <2>1. \A k \in Nat : IsFiniteSet(1..k) /\ Cardinality(1..k) = k
      BY FS_Interval
    <2>2. Cardinality(1..n) = Cardinality(D)
      <3> HIDE DEF D
      <3> QED
        BY <1>5, <2>1, FS_Bijection DEF ExistsBijection
    <2> QED
      BY <1>1, <2>1, <2>2
  <1>7. q \in [D -> D] /\ InOrder(items, q)
    BY <1>4, <1>6 DEF Lists, InOrder
  <1> DEFINE p == ReorderItemsByModelCode(items)
  <1>8. p \in [D -> D] /\ InOrder(items, p)
    BY <1>7 DEF ReorderItemsByModelCode, InOrder
  <1> HIDE DEF p
  <1>9. \A i, j \in D : p[i] = p[j] => i = j
    <2> SUFFICES ASSUME NEW i \in D, NEW j \in D, i < j PROVE p[i] # p[j]
      BY <1>1
    <2>1. \/ items[p[i]].product < items[p[j]].product
          \/ items[p[i]].product = items[p[j]].product /\ p[i] < p[j]
      BY <1>8 DEF InOrder
    <2>2. p[i] \in 1..Len(items) /\ items[p[i]].product \in Int
      BY <1>1, <1>2, <1>8
    <2> QED
      BY <1>1, <2>1, <2>2
  <1>10. p \in Injection(D, D)
    BY <1>8, <1>9 DEF Injection, IsInjective
  <1>11. p \in Surjection(D, D)
    BY <1>1, <1>10, FS_Injection
  <1> QED
    BY <1>8, <1>10, <1>11 DEF Bijection, p

(***************************************************************************)
(* Effects.                                                                *)
(***************************************************************************)
LEMMA ItemEffectType ==
  ASSUME NEW kind \in Kinds, NEW header, NEW item \in Item, NEW k
  PROVE  ItemEffect(kind, header, item, k) \in Int
  BY DEF ItemEffect, Kinds, Item, StockEffect, ShipmentEffect, ModifyEffect, TransferEffect,
         RetailEffect, At, Positive

LEMMA EffectType ==
  ASSUME NEW kind \in Kinds, NEW header, NEW items \in Lines, NEW k
  PROVE  Effect(kind, header, items, k) \in Int
  <1> DEFINE e == [i \in DOMAIN items |-> ItemEffect(kind, header, items[i], k)]
  <1>1. \A i \in DOMAIN items : e[i] \in Int
    BY LineOfLines, ItemEffectType
  <1> HIDE DEF e
  <1>2. SumFunctionOnSet(e, DOMAIN items) \in Int
    BY <1>1, LineOfLines, SumType
  <1> QED
    BY <1>2 DEF e, Effect

(* Lines that book the same one by one book the same together.             *)
LEMMA SameEffect ==
  ASSUME NEW kind, NEW h1, NEW h2, NEW one \in Lines, NEW two \in Lines, NEW k,
         DOMAIN one = DOMAIN two,
         \A i \in DOMAIN one : ItemEffect(kind, h1, one[i], k) = ItemEffect(kind, h2, two[i], k)
  PROVE  Effect(kind, h1, one, k) = Effect(kind, h2, two, k)
  <1> [i \in DOMAIN one |-> ItemEffect(kind, h1, one[i], k)]
        = [i \in DOMAIN two |-> ItemEffect(kind, h2, two[i], k)]
    OBVIOUS
  <1> QED
    BY DEF Effect

LEMMA FunctionIsLines ==
  ASSUME NEW n \in Nat, NEW f \in [1..n -> Item]
  PROVE  f \in Lines
  BY SeqDef DEF Lines

LEMMA SortedLines ==
  ASSUME NEW items \in Lines
  PROVE  Sorted(items) \in Lines /\ DOMAIN Sorted(items) = DOMAIN items
  <1> DEFINE p == ReorderItemsByModelCode(items)
  <1>1. \A i \in DOMAIN items : p[i] \in DOMAIN items
    BY ReorderSorts DEF Bijection, Injection
  <1>2. Sorted(items) = [i \in DOMAIN items |-> items[p[i]]]
    BY DEF Sorted
  <1> HIDE DEF p
  <1>3. Sorted(items) \in [1..Len(items) -> Item] /\ Len(items) \in Nat
    BY <1>1, <1>2, LineOfLines
  <1> QED
    BY <1>2, <1>3, FunctionIsLines

(* The order of the lines makes no difference to what they book.           *)
LEMMA SortedEffect ==
  ASSUME NEW kind \in Kinds, NEW header, NEW items \in Lines, NEW k
  PROVE  Effect(kind, header, Sorted(items), k) = Effect(kind, header, items, k)
  <1> DEFINE D == DOMAIN items
             p == ReorderItemsByModelCode(items)
             F == [i \in D |-> ItemEffect(kind, header, items[i], k)]
             G == [i \in D |-> ItemEffect(kind, header, Sorted(items)[i], k)]
  <1>1. p \in Bijection(D, D) /\ \A i \in D : p[i] \in D
    BY ReorderSorts DEF Bijection, Injection
  <1>2. \A i \in D : Sorted(items)[i] = items[p[i]]
    BY DEF Sorted
  <1>3. (\A i \in D : F[i] \in Int) /\ IsFiniteSet(D)
    BY LineOfLines, ItemEffectType
  <1>4. \A i \in D : G[i] = F[p[i]]
    BY <1>1, <1>2
  <1>5. SumFunctionOnSet(G, D) = SumFunctionOnSet(F, D)
    <2> HIDE DEF D, F, G, p
    <2> QED
      BY <1>1, <1>3, <1>4, SumRenumbered
  <1> QED
    BY <1>5, SortedLines DEF Effect

LEMMA StoredLines ==
  ASSUME NEW kind, NEW items \in Lines
  PROVE  StoredItems(kind, items) \in Lines
  <1>1. CASE kind = "retail"
    <2> DEFINE f == [i \in DOMAIN items |->
                       [items[i] EXCEPT !.qty = IF items[i].qty < 0 THEN -items[i].qty
                                                ELSE items[i].qty]]
    <2>1. \A i \in DOMAIN items : f[i] \in Item
      BY LineOfLines DEF Item
    <2>2. StoredItems(kind, items) = f
      BY <1>1 DEF StoredItems
    <2>3. f = [i \in DOMAIN items |-> f[i]] /\ DOMAIN items = 1..Len(items) /\ Len(items) \in Nat
      BY LineOfLines
    <2> HIDE DEF f
    <2>4. f \in [1..Len(items) -> Item]
      BY <2>1, <2>3
    <2> QED
      BY <2>2, <2>3, <2>4, FunctionIsLines
  <1>2. CASE kind # "retail"
    BY <1>2, SortedLines DEF StoredItems
  <1> QED
    BY <1>1, <1>2

LEMMA CreatedLines ==
  ASSUME NEW kind, NEW items \in Lines
  PROVE  CreatedItems(kind, items) \in Lines
  <1>1. CASE kind = "transfer"
    <2> DEFINE f == [i \in DOMAIN items |-> [Sorted(items)[i] EXCEPT !.qty = items[i].qty]]
    <2>1. \A i \in DOMAIN items : Sorted(items)[i] \in Item /\ items[i] \in Item
      BY SortedLines, LineOfLines
    <2>2. \A i \in DOMAIN items : f[i] \in Item
      BY <2>1 DEF Item
    <2>3. CreatedItems(kind, items) = f
      BY <1>1 DEF CreatedItems
    <2>4. f = [i \in DOMAIN items |-> f[i]] /\ DOMAIN items = 1..Len(items) /\ Len(items) \in Nat
      BY LineOfLines
    <2> HIDE DEF f
    <2>5. f \in [1..Len(items) -> Item]
      BY <2>2, <2>4
    <2> QED
      BY <2>3, <2>4, <2>5, FunctionIsLines
  <1>2. CASE kind # "transfer"
    BY <1>2, StoredLines DEF CreatedItems
  <1> QED
    BY <1>1, <1>2

(* Quantities that are not negative, where a document must not have any.   *)
NoNegative(items) == \A i \in DOMAIN items : items[i].qty >= 0

(* What is stored books what was sent.                                     *)
LEMMA StoredEffect ==
  ASSUME NEW kind \in Kinds, NEW header, NEW items \in Lines, NEW k,
         kind = "retail" => NoNegative(items)
  PROVE  Effect(kind, header, StoredItems(kind, items), k) = Effect(kind, header, items, k)
  <1>1. CASE kind = "retail"
    <2> DEFINE f == [i \in DOMAIN items |->
                       [items[i] EXCEPT !.qty = IF items[i].qty < 0 THEN -items[i].qty
                                                ELSE items[i].qty]]
    <2>1. StoredItems(kind, items) = f
      BY <1>1 DEF StoredItems
    <2>2. ASSUME NEW i \in DOMAIN items
          PROVE  ItemEffect(kind, header, f[i], k) = ItemEffect(kind, header, items[i], k)
      <3>1. items[i] \in Item /\ items[i].qty >= 0
        BY <1>1, LineOfLines DEF NoNegative
      <3>2. /\ f[i].product = items[i].product /\ f[i].sell = items[i].sell
            /\ f[i].qty = items[i].qty
        BY <3>1 DEF Item
      <3> HIDE DEF f
      <3> QED
        BY <1>1, <3>2 DEF ItemEffect, RetailEffect
    <2>3. DOMAIN f = DOMAIN items
      OBVIOUS
    <2> HIDE DEF f
    <2> QED
      BY <2>1, <2>2, <2>3, SameEffect, StoredLines
  <1>2. CASE kind # "retail"
    BY <1>2, SortedEffect DEF StoredItems
  <1> QED
    BY <1>1, <1>2

(* The mode a creation stores books as the one it was sent.                *)
LEMMA CreatedHeaderEffect ==
  ASSUME NEW new \in Payload, NEW items \in Lines, NEW k
  PROVE  Effect(new.kind, CreatedHeader(new), items, k) = Effect(new.kind, new.header, items, k)
  <1> DEFINE h == CreatedHeader(new)
  <1>1. new.header \in Header /\ new.kind \in Kinds
    BY DEF Payload
  <1>2. /\ h.store = new.header.store
        /\ new.kind = "stock" => (h.mode = 2 <=> new.header.mode = 2)
        /\ new.kind = "shipment" => (h.mode = 4 <=> new.header.mode = 4)
    BY <1>1 DEF CreatedHeader, Header
  <1> HIDE DEF h
  <1>3. ASSUME NEW i \in DOMAIN items
        PROVE  ItemEffect(new.kind, h, items[i], k) = ItemEffect(new.kind, new.header, items[i], k)
    BY <1>1, <1>2 DEF ItemEffect, Kinds, StockEffect, ShipmentEffect, ModifyEffect,
                      TransferEffect, RetailEffect
  <1>4. Effect(new.kind, h, items, k) = Effect(new.kind, new.header, items, k)
    BY <1>3, SameEffect
  <1> QED
    BY <1>4 DEF h

(* What MigrateAll and the handlers book alike.                            *)
Rebuildable(kind, header, items) ==
  /\ kind # "retail"
  /\ kind = "stock" => header.mode \in {1, 2}
  /\ kind = "shipment" => header.mode \in {3, 4}
  /\ kind # "modify" => NoNegative(items)

(* The payloads for which what is stored is what was booked: retail lines  *)
(* have no negative quantities, the lines of a transfer are sent in the    *)
(* order they are stored in and, if MigrateAll runs, it knows the document.*)
Faithful(p) ==
  /\ p.kind = "retail" => NoNegative(p.items)
  /\ p.kind = "transfer" => Sorted(p.items) = p.items
  /\ MaxRebuilds > 0 => Rebuildable(p.kind, p.header, p.items)

LEMMA CreatedEffect ==
  ASSUME NEW new \in Payload, NEW k, Faithful(new)
  PROVE  Effect(new.kind, CreatedHeader(new), CreatedItems(new.kind, new.items), k)
           = Effect(new.kind, new.header, new.items, k)
  <1>1. new.items \in Lines /\ new.kind \in Kinds
    BY DEF Payload, Lines
  <1>2. Effect(new.kind, CreatedHeader(new), CreatedItems(new.kind, new.items), k)
          = Effect(new.kind, new.header, CreatedItems(new.kind, new.items), k)
    BY <1>1, CreatedHeaderEffect, CreatedLines
  <1>3. CASE new.kind = "transfer"
    <2> DEFINE items == new.items
               f == [i \in DOMAIN items |-> [items[i] EXCEPT !.qty = items[i].qty]]
    <2>1. CreatedItems(new.kind, items) = f
      BY <1>3 DEF CreatedItems, Faithful
    <2>2. ASSUME NEW i \in DOMAIN items
          PROVE  ItemEffect(new.kind, new.header, f[i], k)
                   = ItemEffect(new.kind, new.header, items[i], k)
      <3>1. items[i] \in Item
        BY <1>1, LineOfLines
      <3>2. /\ f[i].product = items[i].product /\ f[i].dest = items[i].dest
            /\ f[i].qty = items[i].qty
        BY <3>1 DEF Item
      <3> HIDE DEF f, items
      <3> QED
        BY <1>3, <3>2 DEF ItemEffect, TransferEffect
    <2>3. DOMAIN f = DOMAIN items
      OBVIOUS
    <2> HIDE DEF f
    <2>4. Effect(new.kind, new.header, f, k) = Effect(new.kind, new.header, items, k)
      BY <1>1, <2>1, <2>2, <2>3, SameEffect, CreatedLines
    <2> QED
      BY <1>2, <2>1, <2>4
  <1>4. CASE new.kind # "transfer"
    <2>1. Effect(new.kind, new.header, StoredItems(new.kind, new.items), k)
            = Effect(new.kind, new.header, new.items, k)
      BY <1>1, StoredEffect DEF Faithful
    <2> QED
      BY <1>2, <1>4, <2>1 DEF CreatedItems
  <1> QED
    BY <1>3, <1>4

LEMMA BatchCreatedEffect ==
  ASSUME NEW new \in Payload, NEW k, Faithful(new)
  PROVE  Effect(new.kind, CreatedHeader(new), StoredItems(new.kind, new.items), k)
           = Effect(new.kind, new.header, new.items, k)
  <1>1. new.items \in Lines /\ new.kind \in Kinds
    BY DEF Payload, Lines
  <1>2. Effect(new.kind, CreatedHeader(new), StoredItems(new.kind, new.items), k)
          = Effect(new.kind, new.header, StoredItems(new.kind, new.items), k)
    BY <1>1, CreatedHeaderEffect, StoredLines
  <1>3. Effect(new.kind, new.header, StoredItems(new.kind, new.items), k)
          = Effect(new.kind, new.header, new.items, k)
    BY <1>1, StoredEffect DEF Faithful
  <1> QED
    BY <1>2, <1>3

(* MigrateAll books such a document as its handler did.                    *)
LEMMA RebuiltEffect ==
  ASSUME NEW doc \in Document, Rebuildable(doc.kind, doc.header, doc.items), NEW k
  PROVE  Rebuilt(doc.kind, doc.header, doc.items, k) = Effect(doc.kind, doc.header, doc.items, k)
  <1>1. doc.kind \in Kinds /\ doc.items \in Lines
    BY DEF Document, Lines
  <1>2. ASSUME NEW i \in DOMAIN doc.items
        PROVE  RebuiltItem(doc.kind, doc.header, doc.items[i], k)
                 = ItemEffect(doc.kind, doc.header, doc.items[i], k)
    <2>1. doc.items[i] \in Item
      BY <1>1, LineOfLines
    <2>2. doc.items[i].qty \in Int /\ (doc.kind # "modify" => doc.items[i].qty >= 0)
      BY <2>1 DEF Rebuildable, NoNegative, Item
    <2> QED
      BY <1>1, <2>2 DEF Rebuildable, RebuiltItem, ItemEffect, Kinds, StockEffect, ShipmentEffect,
                        ModifyEffect, TransferEffect, At, Positive
  <1> [i \in DOMAIN doc.items |-> RebuiltItem(doc.kind, doc.header, doc.items[i], k)]
        = [i \in DOMAIN doc.items |-> ItemEffect(doc.kind, doc.header, doc.items[i], k)]
    BY <1>2
  <1> QED
    BY DEF Rebuilt, Effect

(***************************************************************************)
(* Types, and what a request has read.                                     *)
(***************************************************************************)

(* The replica has no document, and no kind, that the database has not.    *)
Older ==
  \A d \in Docs : replica[d] # NoDoc =>
    documents[d] # NoDoc /\ documents[d].kind = replica[d].kind

Works(r) ==
  pc[r] \in {"update", "rewrite", "delete", "remove"} =>
    /\ existing[r] # NoDoc
    /\ documents[target[r]] # NoDoc
    /\ documents[target[r]].kind = existing[r].kind
    /\ pc[r] \in {"update", "rewrite"} =>
         /\ payload[r] \in Payloads
         /\ payload[r].kind = existing[r].kind
         /\ StoreMayChange(existing[r], payload[r])

Working == \A r \in Requests : Works(r)

TypeInv == TypeOK /\ Older /\ Working

(* No document goes away, or becomes one of another kind.                  *)
Grows ==
  \A d \in Docs : documents[d] # NoDoc =>
    documents'[d] # NoDoc /\ documents'[d].kind = documents[d].kind

(* Only r goes on.                                                         *)
Alone(r) ==
  \A q \in Requests \ {r} :
    /\ pc'[q] = pc[q] /\ target'[q] = target[q]
    /\ payload'[q] = payload[q] /\ existing'[q] = existing[q]

LEMMA TypeStep ==
  ASSUME TypeInv, NEW r \in Requests, TypeOK', Grows, Alone(r), Works(r)', replica' = replica
  PROVE  TypeInv'
  <1>1. Older'
    BY DEF TypeInv, Older, Grows
  <1>2. Working'
    <2> SUFFICES ASSUME NEW q \in Requests, q # r PROVE Works(q)'
      BY DEF Working
    <2>1. /\ pc'[q] = pc[q] /\ target'[q] = target[q]
          /\ payload'[q] = payload[q] /\ existing'[q] = existing[q]
      BY DEF Alone
    <2>2. Works(q) /\ target[q] \in Docs
      BY DEF TypeInv, Working, TypeOK
    <2> QED
      BY <2>1, <2>2 DEF Works, Grows
  <1> QED
    BY <1>1, <1>2 DEF TypeInv

LEMMA PayloadType ==
  ASSUME NEW new \in Payloads
  PROVE  /\ new \in Payload /\ new.kind \in Kinds /\ new.header \in Header /\ new.items \in Lines
         /\ CreatedHeader(new) \in Header
  <1>1. new \in Payload
    BY PayloadsAssumption
  <1>2. new.kind \in Kinds /\ new.header \in Header /\ new.items \in Lines
    BY <1>1 DEF Payload, Lines
  <1>3. CreatedHeader(new) \in Header
    BY <1>2 DEF CreatedHeader, Header
  <1> QED
    BY <1>1, <1>2, <1>3

(* The rows a creation writes.                                             *)
LEMMA RowType ==
  ASSUME NEW kind \in Kinds, NEW header \in Header, NEW items \in Lines, NEW live \in BOOLEAN
  PROVE  [kind |-> kind, header |-> header, items |-> items, live |-> live] \in Document
  BY DEF Document, Lines

LEMMA BookedType ==
  ASSUME TypeOK, NEW change, \A k \in Keys : change[k] \in Int, Book(change)
  PROVE  stock' \in [Keys -> Int]
  BY DEF TypeOK, Book

LEMMA CreateTypes ==
  ASSUME TypeInv, NEW r \in Requests, NEW new \in Payloads, Create(r, new)
  PROVE  TypeInv'
  <1> DEFINE row == [kind |-> new.kind, header |-> CreatedHeader(new),
                     items |-> CreatedItems(new.kind, new.items), live |-> TRUE]
             change == [k \in Keys |-> Effect(new.kind, new.header, new.items, k)]
  <1>1. row \in Document /\ row # NoDoc
    <2>1. row \in Document
      BY PayloadType, CreatedLines, RowType
    <2> HIDE DEF row
    <2> QED
      BY <2>1, NoDocAssumption
  <1>2. \A k \in Keys : change[k] \in Int
    BY PayloadType, EffectType
  <1>3. Book(change) /\ documents' = [documents EXCEPT ![target[r]] = row]
    BY DEF Create
  <1> HIDE DEF row, change
  <1>4. stock' \in [Keys -> Int]
    BY <1>2, <1>3, BookedType DEF TypeInv
  <1>5. documents[target[r]] = NoDoc /\ target[r] \in Docs
    BY DEF Create, TypeInv, TypeOK
  <1>6. /\ UNCHANGED <<replica, target, payload, existing, oldItems, overtaken, rebuilds>>
        /\ pc' = [pc EXCEPT ![r] = "done"]
    BY DEF Create
  <1>7. TypeOK'
    BY <1>1, <1>3, <1>4, <1>6 DEF TypeInv, TypeOK
  <1>8. Grows /\ Alone(r) /\ Works(r)'
    BY <1>1, <1>3, <1>5, <1>6 DEF TypeInv, TypeOK, Grows, Alone, Works
  <1> QED
    BY <1>6, <1>7, <1>8, TypeStep

LEMMA BatchEffectType ==
  ASSUME NEW D \in SUBSET Docs, NEW new \in [D -> Payloads], NEW k
  PROVE  BatchEffect(new, k) \in Int
  <1> DEFINE e == [d \in D |-> Effect(new[d].kind, new[d].header, new[d].items, k)]
  <1>1. \A d \in D : e[d] \in Int
    BY PayloadType, EffectType
  <1>2. IsFiniteSet(D)
    BY DocsAssumption, FS_Subset
  <1>3. BatchEffect(new, k) = SumFunctionOnSet(e, D)
    BY DEF BatchEffect
  <1> HIDE DEF e
  <1> QED
    BY <1>1, <1>2, <1>3, SumType

LEMMA BatchTypes ==
  ASSUME TypeInv, NEW r \in Requests, NEW D \in SUBSET Unused, NEW new \in [D -> Payloads],
         CreateBatch(r, new)
  PROVE  TypeInv'
  <1> DEFINE row(d) == [kind |-> new[d].kind, header |-> CreatedHeader(new[d]),
                        items |-> StoredItems(new[d].kind, new[d].items), live |-> TRUE]
             change == [k \in Keys |-> BatchEffect(new, k)]
  <1>1. \A d \in D : row(d) \in Document /\ row(d) # NoDoc
    <2> SUFFICES ASSUME NEW d \in D PROVE row(d) \in Document /\ row(d) # NoDoc
      OBVIOUS
    <2>1. row(d) \in Document
      BY PayloadType, StoredLines, RowType
    <2> HIDE DEF row
    <2> QED
      BY <2>1, NoDocAssumption
  <1>2. D \in SUBSET Docs /\ \A d \in D : documents[d] = NoDoc
    BY DEF Unused
  <1>3. \A k \in Keys : change[k] \in Int
    BY <1>2, BatchEffectType
  <1>4. \/ Book(change) /\ documents' = [d \in Docs |-> IF d \in D THEN row(d) ELSE documents[d]]
        \/ UNCHANGED <<documents, stock>>
    BY DEF CreateBatch
  <1>5. /\ UNCHANGED <<replica, target, payload, existing, oldItems, overtaken, rebuilds>>
        /\ pc' = [pc EXCEPT ![r] = "done"]
    BY DEF CreateBatch
  <1> HIDE DEF row, change
  <1>6. stock' \in [Keys -> Int]
    BY <1>3, <1>4, BookedType DEF TypeInv, TypeOK
  <1>7. documents' \in [Docs -> Document \union {NoDoc}]
    <2>1. documents \in [Docs -> Document \union {NoDoc}]
      BY DEF TypeInv, TypeOK
    <2>2. CASE UNCHANGED documents
      BY <2>1, <2>2
    <2>3. CASE documents' = [d \in Docs |-> IF d \in D THEN row(d) ELSE documents[d]]
      <3>1. \A d \in Docs : (IF d \in D THEN row(d) ELSE documents[d]) \in Document \union {NoDoc}
        BY <1>1, <2>1, Zenon
      <3> QED
        BY <2>3, <3>1, Zenon
    <2> QED
      BY <1>4, <2>2, <2>3
  <1>8. TypeOK'
    BY <1>5, <1>6, <1>7 DEF TypeInv, TypeOK
  <1>9. Grows
    BY <1>2, <1>4 DEF TypeInv, TypeOK, Grows
  <1>10. Alone(r) /\ Works(r)'
    BY <1>5 DEF TypeInv, TypeOK, Alone, Works
  <1> QED
    BY <1>5, <1>8, <1>9, <1>10, TypeStep

(* What a request has read of a document that is there.                    *)
LEMMA HeaderReadType ==
  ASSUME TypeInv, NEW r \in Requests, Found(r)
  PROVE  /\ HeaderRead(r) \in [kind : Kinds, header : Header, items : Seq(Item), live : {TRUE}]
         /\ HeaderRead(r) # NoDoc
         /\ documents[target[r]] # NoDoc
         /\ documents[target[r]].kind = HeaderRead(r).kind
  <1>1. target[r] \in Docs
    BY DEF TypeInv, TypeOK
  <1>2. HeaderRead(r) \in {documents[target[r]], replica[target[r]]}
    BY DEF HeaderRead, Read
  <1>3. HeaderRead(r) \in Document
    BY <1>1, <1>2 DEF TypeInv, TypeOK, Found
  <1>4. HeaderRead(r) \in [kind : Kinds, header : Header, items : Seq(Item), live : {TRUE}]
    BY <1>3 DEF Found, Document
  <1> QED
    BY <1>1, <1>2, <1>4 DEF TypeInv, Older, Found

LEMMA BeginTypes ==
  ASSUME TypeInv, NEW r \in Requests,
         BeginDelete(r) \/ \E new \in Payloads : BeginUpdate(r, new)
  PROVE  TypeInv'
  <1>1. Found(r) /\ existing' = [existing EXCEPT ![r] = HeaderRead(r)]
    BY DEF BeginDelete, BeginUpdate
  <1> DEFINE now == HeaderRead(r)
  <1>2. /\ now \in [kind : Kinds, header : Header, items : Seq(Item), live : {TRUE}]
        /\ now # NoDoc
        /\ documents[target[r]] # NoDoc
        /\ documents[target[r]].kind = now.kind
    BY <1>1, HeaderReadType
  <1>3. UNCHANGED <<documents, replica, stock, target, oldItems, overtaken, rebuilds>>
    BY DEF BeginDelete, BeginUpdate
  <1>4. \/ payload' = payload /\ pc' = [pc EXCEPT ![r] = "delete"]
        \/ \E new \in Payloads :
             /\ payload' = [payload EXCEPT ![r] = new] /\ pc' = [pc EXCEPT ![r] = "update"]
             /\ new.kind = now.kind /\ StoreMayChange(now, new)
    BY DEF BeginDelete, BeginUpdate
  <1> HIDE DEF now
  <1>5. existing' = [existing EXCEPT ![r] = now]
    BY <1>1 DEF now
  <1>6. TypeOK'
    BY <1>2, <1>3, <1>4, <1>5 DEF TypeInv, TypeOK
  <1>7. Works(r)'
    BY <1>2, <1>3, <1>4, <1>5 DEF TypeInv, TypeOK, Works
  <1>8. Grows /\ Alone(r)
    BY <1>3, <1>4, <1>5 DEF TypeInv, TypeOK, Grows, Alone
  <1> QED
    BY <1>3, <1>6, <1>7, <1>8, TypeStep

LEMMA LoadTypes ==
  ASSUME TypeInv, NEW r \in Requests, LoadItems(r)
  PROVE  TypeInv'
  <1> USE DEF LoadItems
  <1>1. target[r] \in Docs /\ documents[target[r]].items \in Seq(Item)
    BY DEF TypeInv, TypeOK, Working, Works, Document
  <1>2. TypeOK'
    BY <1>1 DEF TypeInv, TypeOK
  <1>3. Works(r)'
    BY DEF TypeInv, TypeOK, Working, Works
  <1>4. Grows /\ Alone(r)
    BY DEF TypeInv, TypeOK, Grows, Alone
  <1> QED
    BY <1>2, <1>3, <1>4, TypeStep

(* Steps that only end a request.                                          *)
LEMMA EndTypes ==
  ASSUME TypeInv, NEW r \in Requests,
         Fail(r) \/ NotFound(r) \/ \E new \in Payloads : RefuseTransfer(r, new)
  PROVE  TypeInv'
  <1>1. /\ UNCHANGED <<documents, replica, stock, target, payload, existing, oldItems, overtaken,
                       rebuilds>>
        /\ pc' = [pc EXCEPT ![r] = "done"]
    BY DEF Fail, NotFound, RefuseTransfer
  <1>2. TypeOK' /\ Works(r)' /\ Grows /\ Alone(r)
    BY <1>1 DEF TypeInv, TypeOK, Works, Grows, Alone
  <1> QED
    BY <1>1, <1>2, TypeStep

LEMMA RevertedType ==
  ASSUME TypeInv, NEW r \in Requests, pc[r] \in {"rewrite", "remove"}, NEW k
  PROVE  Reverted(r, k) \in Int
  <1>1. existing[r].kind \in Kinds /\ oldItems[r] \in Lines
    BY DEF TypeInv, TypeOK, Working, Works, Lines
  <1>2. Effect(existing[r].kind, existing[r].header, oldItems[r], k) \in Int
    BY <1>1, EffectType
  <1> QED
    BY <1>2 DEF Reverted

LEMMA EndFacts ==
  ASSUME TypeInv, NEW r \in Requests, End(r)
  PROVE  /\ UNCHANGED <<replica, target, payload, existing, oldItems, rebuilds>>
         /\ pc' = [pc EXCEPT ![r] = "done"] /\ Alone(r)
         /\ overtaken' \in BOOLEAN
  <1>1. \A d \in Docs : documents[d] \in Document => documents[d].live \in BOOLEAN
    BY DEF Document
  <1>2. documents[target[r]] \in Document => Outdated(r) \in BOOLEAN
    BY <1>1 DEF Outdated
  <1> QED
    BY <1>2 DEF End, TypeInv, TypeOK, Alone

(* The row an update leaves behind.                                        *)
Rewritten(d, new) ==
  [documents[d] EXCEPT !.items = StoredItems(new.kind, new.items),
                       !.header = IF documents[d].live THEN new.header ELSE documents[d].header]

LEMMA RewrittenType ==
  ASSUME TypeInv, NEW d \in Docs, documents[d] # NoDoc, NEW new \in Payloads
  PROVE  /\ Rewritten(d, new) \in Document
         /\ Rewritten(d, new) # NoDoc
         /\ Rewritten(d, new).kind = documents[d].kind
         /\ Rewritten(d, new).live = documents[d].live
         /\ Rewritten(d, new).items = StoredItems(new.kind, new.items)
         /\ documents[d].live => Rewritten(d, new).header = new.header
         /\ ~documents[d].live => Rewritten(d, new).header = documents[d].header
  <1> DEFINE items == StoredItems(new.kind, new.items)
  <1>1. documents[d] \in Document
    BY DEF TypeInv, TypeOK
  <1>2. items \in Seq(Item) /\ new.header \in Header
    BY PayloadType, StoredLines DEF Lines
  <1> HIDE DEF items
  <1>3. /\ Rewritten(d, new) \in Document
        /\ Rewritten(d, new).kind = documents[d].kind
        /\ Rewritten(d, new).live = documents[d].live
        /\ Rewritten(d, new).items = items
        /\ documents[d].live => Rewritten(d, new).header = new.header
        /\ ~documents[d].live => Rewritten(d, new).header = documents[d].header
    BY <1>1, <1>2 DEF Document, Rewritten, items
  <1> QED
    BY <1>3, NoDocAssumption DEF items

LEMMA RewriteFacts ==
  ASSUME TypeInv, NEW r \in Requests, Rewrite(r)
  PROVE  /\ target[r] \in Docs /\ documents[target[r]] # NoDoc /\ payload[r] \in Payloads
         /\ documents' = [documents EXCEPT ![target[r]] = Rewritten(target[r], payload[r])]
  <1>1. target[r] \in Docs /\ documents[target[r]] # NoDoc /\ payload[r] \in Payloads
    BY DEF TypeInv, TypeOK, Working, Works, Rewrite
  <1>2. documents[target[r]] \in Document
    BY <1>1 DEF TypeInv, TypeOK
  <1> QED
    BY <1>1, <1>2 DEF Rewrite, Rewritten

LEMMA RewriteTypes ==
  ASSUME TypeInv, NEW r \in Requests, Rewrite(r)
  PROVE  TypeInv'
  <1> DEFINE d == target[r]
             new == payload[r]
             row == Rewritten(d, new)
             change == [k \in Keys |-> Reverted(r, k) + Effect(new.kind, new.header, new.items, k)]
  <1>1. d \in Docs /\ documents[d] # NoDoc /\ new \in Payloads
        /\ documents' = [documents EXCEPT ![d] = row]
    BY RewriteFacts
  <1>2. row \in Document /\ row # NoDoc /\ row.kind = documents[d].kind
    BY <1>1, RewrittenType
  <1>3. \A k \in Keys : change[k] \in Int
    <2> SUFFICES ASSUME NEW k \in Keys
                 PROVE  Reverted(r, k) \in Int /\ Effect(new.kind, new.header, new.items, k) \in Int
      OBVIOUS
    <2>1. Reverted(r, k) \in Int
      BY RevertedType DEF Rewrite
    <2>2. Effect(new.kind, new.header, new.items, k) \in Int
      BY <1>1, PayloadType, EffectType
    <2> QED
      BY <2>1, <2>2
  <1>4. Book(change) /\ End(r)
    BY DEF Rewrite
  <1> HIDE DEF change, row
  <1>5. stock' \in [Keys -> Int]
    BY <1>3, <1>4, BookedType DEF TypeInv
  <1>6. /\ UNCHANGED <<replica, target, payload, existing, oldItems, rebuilds>>
        /\ pc' = [pc EXCEPT ![r] = "done"] /\ Alone(r)
        /\ overtaken' \in BOOLEAN
    BY <1>4, EndFacts
  <1>7. TypeOK'
    BY <1>1, <1>2, <1>5, <1>6 DEF TypeInv, TypeOK
  <1>8. Grows /\ Works(r)'
    BY <1>1, <1>2, <1>6 DEF TypeInv, TypeOK, Grows, Works
  <1> QED
    BY <1>6, <1>7, <1>8, TypeStep

LEMMA RemoveFacts ==
  ASSUME TypeInv, NEW r \in Requests, Remove(r)
  PROVE  /\ target[r] \in Docs /\ documents[target[r]] \in Document
         /\ [documents[target[r]] EXCEPT !.live = FALSE] \in Document \ {NoDoc}
         /\ documents' = [documents EXCEPT ![target[r]] =
                            [documents[target[r]] EXCEPT !.live = FALSE]]
  <1>1. target[r] \in Docs /\ documents[target[r]] \in Document
    BY DEF TypeInv, TypeOK, Working, Works, Remove
  <1>2. [documents[target[r]] EXCEPT !.live = FALSE] \in Document
    BY <1>1 DEF Document
  <1> QED
    BY <1>1, <1>2, NoDocAssumption DEF Remove

LEMMA RemoveTypes ==
  ASSUME TypeInv, NEW r \in Requests, Remove(r)
  PROVE  TypeInv'
  <1> DEFINE d == target[r]
             row == [documents[d] EXCEPT !.live = FALSE]
             change == [k \in Keys |-> Reverted(r, k)]
  <1>1. d \in Docs /\ documents[d] \in Document /\ row \in Document /\ row # NoDoc
        /\ documents' = [documents EXCEPT ![d] = row]
    BY RemoveFacts
  <1>2. row.kind = documents[d].kind
    BY <1>1 DEF Document
  <1>3. \A k \in Keys : change[k] \in Int
    BY RevertedType DEF Remove
  <1>4. Book(change) /\ End(r)
    BY DEF Remove
  <1> HIDE DEF change, row
  <1>5. stock' \in [Keys -> Int]
    BY <1>3, <1>4, BookedType DEF TypeInv
  <1>6. /\ UNCHANGED <<replica, target, payload, existing, oldItems, rebuilds>>
        /\ pc' = [pc EXCEPT ![r] = "done"] /\ Alone(r)
        /\ overtaken' \in BOOLEAN
    BY <1>4, EndFacts
  <1>7. TypeOK'
    BY <1>1, <1>5, <1>6 DEF TypeInv, TypeOK
  <1>8. Grows /\ Works(r)'
    BY <1>1, <1>2, <1>6 DEF TypeInv, TypeOK, Grows, Works
  <1> QED
    BY <1>6, <1>7, <1>8, TypeStep

LEMMA RebuiltType ==
  ASSUME NEW kind \in Kinds, NEW header, NEW items \in Lines, NEW k
  PROVE  Rebuilt(kind, header, items, k) \in Int
  <1> DEFINE e == [i \in DOMAIN items |-> RebuiltItem(kind, header, items[i], k)]
  <1>1. ASSUME NEW i \in DOMAIN items PROVE e[i] \in Int
    <2>1. items[i].qty \in Int
      BY LineOfLines DEF Item
    <2> QED
      BY <2>1 DEF RebuiltItem, Kinds, At
  <1> HIDE DEF e
  <1>2. SumFunctionOnSet(e, DOMAIN items) \in Int
    BY <1>1, LineOfLines, SumType
  <1> QED
    BY <1>2 DEF e, Rebuilt

LEMMA LiveDocsFinite == IsFiniteSet(LiveDocs)
  <1>1. LiveDocs \in SUBSET Docs
    BY DEF LiveDocs
  <1> QED
    BY <1>1, DocsAssumption, FS_Subset

LEMMA LiveDocument ==
  ASSUME TypeOK, NEW d \in LiveDocs
  PROVE  /\ d \in Docs /\ documents[d] \in Document /\ documents[d].kind \in Kinds
         /\ documents[d].items \in Lines
  BY DEF TypeOK, LiveDocs, Document, Lines

LEMMA MigrateTypes ==
  ASSUME TypeInv, MigrateAll
  PROVE  TypeInv'
  <1> DEFINE whole(k) == SumFunctionOnSet(
                           [d \in LiveDocs |-> Rebuilt(documents[d].kind, documents[d].header,
                                                       documents[d].items, k)],
                           LiveDocs)
  <1>1. ASSUME NEW k PROVE whole(k) \in Int
    <2> DEFINE e == [d \in LiveDocs |-> Rebuilt(documents[d].kind, documents[d].header,
                                                documents[d].items, k)]
    <2>1. \A d \in LiveDocs : e[d] \in Int
      BY LiveDocument, RebuiltType DEF TypeInv
    <2> HIDE DEF e
    <2>2. SumFunctionOnSet(e, LiveDocs) \in Int
      BY <2>1, LiveDocsFinite, SumType
    <2> QED
      BY <2>2 DEF e
  <1>2. stock' = [k \in Keys |-> whole(k)]
    BY DEF MigrateAll
  <1> HIDE DEF whole
  <1>3. stock' \in [Keys -> Int]
    BY <1>1, <1>2
  <1>4. /\ UNCHANGED <<documents, replica, pc, target, payload, existing, oldItems>>
        /\ rebuilds' = rebuilds + 1 /\ rebuilds < MaxRebuilds /\ overtaken' = FALSE
    BY DEF MigrateAll
  <1>5. TypeOK'
    <2>1. rebuilds' \in 0..MaxRebuilds
      BY <1>4, BoundsAssumption DEF TypeInv, TypeOK
    <2>2. overtaken' \in BOOLEAN
      BY <1>4
    <2> QED
      BY <1>3, <1>4, <2>1, <2>2 DEF TypeInv, TypeOK
  <1>6. Older' /\ Working'
    BY <1>4 DEF TypeInv, Older, Working, Works
  <1> QED
    BY <1>5, <1>6 DEF TypeInv

LEMMA ReplicateTypes ==
  ASSUME TypeInv, Replicate
  PROVE  TypeInv'
  BY DEF Replicate, TypeInv, TypeOK, Older, Working, Works

LEMMA UnchangedTypes ==
  ASSUME TypeInv, UNCHANGED vars
  PROVE  TypeInv'
  <1> USE DEF vars
  <1>1. TypeOK'
    BY DEF TypeInv, TypeOK
  <1>2. Older' /\ Working'
    BY DEF TypeInv, Older, Working, Works
  <1> QED
    BY <1>1, <1>2 DEF TypeInv

(* Every step is one of these.                                             *)
LEMMA Steps ==
  ASSUME [Next]_vars
  PROVE  \/ \E r \in Requests : \E new \in Payloads : Create(r, new)
         \/ \E r \in Requests : \E D \in SUBSET Unused : \E new \in [D -> Payloads] :
              CreateBatch(r, new)
         \/ \E r \in Requests : BeginDelete(r) \/ \E new \in Payloads : BeginUpdate(r, new)
         \/ \E r \in Requests : LoadItems(r)
         \/ \E r \in Requests : Fail(r) \/ NotFound(r) \/ \E new \in Payloads : RefuseTransfer(r, new)
         \/ \E r \in Requests : Rewrite(r)
         \/ \E r \in Requests : Remove(r)
         \/ MigrateAll
         \/ Replicate
         \/ UNCHANGED vars
  BY DEF Next, Handler, Finished,
         CreateStock, CreateShipment, CreateModify, CreateTransfer, CreateRetailSell,
         UpdateStock, UpdateShipment, UpdateModify, UpdateTransfer, UpdateRetailSell,
         DeleteStock, DeleteShipment, DeleteModify, DeleteTransfer, DeleteRetailSell

LEMMA TypesStep == TypeInv /\ [Next]_vars => TypeInv'
  BY Steps, CreateTypes, BatchTypes, BeginTypes, LoadTypes, EndTypes, RewriteTypes, RemoveTypes,
     MigrateTypes, ReplicateTypes, UnchangedTypes

LEMMA InitTypes == Init => TypeInv
  <1> SUFFICES ASSUME Init PROVE TypeInv
    OBVIOUS
  <1> USE DEF Init
  <1>1. TypeOK
    <2>1. <<>> \in Seq(Item)
      OBVIOUS
    <2>2. oldItems \in [Requests -> Seq(Item)]
      BY <2>1
    <2>3. rebuilds \in 0..MaxRebuilds
      BY BoundsAssumption
    <2>4. overtaken \in BOOLEAN
      OBVIOUS
    <2>5. /\ documents \in [Docs -> Document \union {NoDoc}]
          /\ replica \in [Docs -> Document \union {NoDoc}]
          /\ stock \in [Keys -> Int]
          /\ pc \in [Requests -> {"idle", "update", "delete", "rewrite", "remove", "done"}]
          /\ target \in [Requests -> Docs]
          /\ payload \in [Requests -> Payloads \union {NoDoc}]
      OBVIOUS
    <2>6. existing \in [Requests -> [kind : Kinds, header : Header, items : Seq(Item),
                                     live : {TRUE}] \union {NoDoc}]
      OBVIOUS
    <2> HIDE DEF Init
    <2> QED
      BY <2>2, <2>3, <2>4, <2>5, <2>6 DEF TypeOK
  <1> QED
    BY <1>1 DEF TypeInv, Older, Working, Works

LEMMA Types == Spec => []TypeInv
  BY InitTypes, TypesStep, PTL DEF Spec

(* Whatever the payloads, the tables and requests are well typed: what is  *)
(* taken back is a document that was not deleted when it was read.         *)
THEOREM DocumentTypes == Spec => []TypeOK
  <1>1. TypeInv => TypeOK
    BY DEF TypeInv
  <1> QED
    BY <1>1, Types, PTL

(***************************************************************************)
(* Stores.                                                                 *)
(***************************************************************************)
KeepsStore ==
  \A d \in Docs :
    /\ documents[d] # NoDoc
    /\ documents[d].kind \in {"stock", "shipment"}
    /\ documents[d].header.linked
    /\ documents'[d].header.store # documents[d].header.store
    => overtaken'

LEMMA RewriteKeepsStore ==
  ASSUME TypeInv, NEW r \in Requests, Rewrite(r)
  PROVE  KeepsStore
  <1> DEFINE d == target[r]
             new == payload[r]
  <1>1. /\ d \in Docs /\ documents[d] # NoDoc /\ new \in Payloads
        /\ documents' = [documents EXCEPT ![d] = Rewritten(d, new)]
    BY RewriteFacts
  <1>2. /\ documents[d].kind = existing[r].kind /\ StoreMayChange(existing[r], new)
    BY DEF Rewrite, TypeInv, Working, Works
  <1>3. overtaken' = (overtaken \/ Outdated(r))
    BY DEF Rewrite, End
  <1>4. ASSUME documents[d].kind \in {"stock", "shipment"}, documents[d].header.linked,
               documents'[d].header.store # documents[d].header.store
        PROVE  Outdated(r)
    <2>1. documents'[d] = Rewritten(d, new)
      BY <1>1 DEF TypeInv, TypeOK
    <2>2. documents[d].live /\ documents'[d].header = new.header
      BY <1>1, <1>4, <2>1, RewrittenType
    <2>3. ~existing[r].header.linked \/ new.header.store = existing[r].header.store
      BY <1>2, <1>4 DEF StoreMayChange
    <2>4. documents[d].header # existing[r].header
      BY <1>4, <2>2, <2>3
    <2> QED
      BY <2>4 DEF Outdated
  <1>5. \A x \in Docs \ {d} : documents'[x] = documents[x]
    BY <1>1 DEF TypeInv, TypeOK
  <1> HIDE DEF d
  <1> QED
    BY <1>3, <1>4, <1>5 DEF KeepsStore

LEMMA StoresKept == TypeInv /\ [Next]_vars => [KeepsStore]_vars
  <1> SUFFICES ASSUME TypeInv, [Next]_vars PROVE KeepsStore
    OBVIOUS
  <1>1. CASE documents' = documents
    BY <1>1 DEF KeepsStore
  <1>2. ASSUME NEW r \in Requests, NEW new \in Payloads, Create(r, new) PROVE KeepsStore
    BY <1>2 DEF Create, KeepsStore, TypeInv, TypeOK
  <1>3. ASSUME NEW r \in Requests, NEW D \in SUBSET Unused, NEW new \in [D -> Payloads],
               CreateBatch(r, new)
        PROVE  KeepsStore
    <2>1. \A d \in Docs : documents[d] # NoDoc => documents'[d] = documents[d]
      BY <1>3 DEF CreateBatch, Unused
    <2> QED
      BY <2>1 DEF KeepsStore
  <1>4. ASSUME NEW r \in Requests, Remove(r) PROVE KeepsStore
    <2> DEFINE row == [documents[target[r]] EXCEPT !.live = FALSE]
    <2>1. /\ target[r] \in Docs /\ documents[target[r]] \in Document
          /\ documents' = [documents EXCEPT ![target[r]] = row]
      BY <1>4, RemoveFacts
    <2>2. row.header = documents[target[r]].header
      BY <2>1 DEF Document
    <2> HIDE DEF row
    <2>3. \A d \in Docs : documents'[d].header = documents[d].header
      BY <2>1, <2>2 DEF TypeInv, TypeOK
    <2> QED
      BY <2>3 DEF KeepsStore
  <1>5. ASSUME NEW r \in Requests, Rewrite(r) PROVE KeepsStore
    BY <1>5, RewriteKeepsStore
  <1> QED
    BY <1>1, <1>2, <1>3, <1>4, <1>5, Steps
       DEF BeginDelete, BeginUpdate, LoadItems, Fail, NotFound, RefuseTransfer, MigrateAll,
           Replicate, vars

(* A settled or linked receipt or shipment changes its store only if it    *)
(* became so, or its store was changed, after the update had checked it,   *)
(* whether the check was made on the database or a lagging replica.        *)
THEOREM StoreKept == Spec => LinkedKeepsStore
  <1>1. [KeepsStore]_vars => [\A d \in Docs :
                                /\ documents[d] # NoDoc
                                /\ documents[d].kind \in {"stock", "shipment"}
                                /\ documents[d].header.linked
                                /\ documents'[d].header.store # documents[d].header.store
                                => overtaken']_vars
    BY DEF KeepsStore
  <1> QED
    BY <1>1, Types, StoresKept, PTL DEF Spec, LinkedKeepsStore

(***************************************************************************)
(* The stock as a sum over all documents.                                  *)
(***************************************************************************)

(* What document d has booked.                                             *)
Part(d, k) ==
  IF d \in LiveDocs
  THEN Effect(documents[d].kind, documents[d].header, documents[d].items, k)
  ELSE 0

Parts(k) == [d \in Docs |-> Part(d, k)]

Total(k) == SumFunctionOnSet(Parts(k), Docs)

LEMMA PartType == TypeOK => \A d, k : Part(d, k) \in Int
  BY LiveDocument, EffectType DEF Part

LEMMA PartTypeAfter == TypeOK' => (\A d, k : Part(d, k) \in Int)'
  BY PartType, PTL

LEMMA TotalIsSum ==
  ASSUME TypeOK, NEW k
  PROVE  Total(k) = SumFunctionOnSet([d \in LiveDocs |-> Effect(documents[d].kind,
                                        documents[d].header, documents[d].items, k)], LiveDocs)
  <1> DEFINE F == Parts(k)
             E == [d \in LiveDocs |-> Effect(documents[d].kind, documents[d].header,
                                             documents[d].items, k)]
             L == LiveDocs
             R == Docs \ LiveDocs
  <1>1. /\ IsFiniteSet(L) /\ IsFiniteSet(R) /\ L \intersect R = {} /\ L \union R = Docs
        /\ IsFiniteSet(Docs)
    BY DocsAssumption, LiveDocsFinite, FS_Difference DEF LiveDocs
  <1>2. \A d \in Docs : F[d] \in Int
    BY PartType DEF Parts
  <1>3. \A d \in R : F[d] = 0
    BY DEF Part, Parts
  <1>4. \A d \in L : F[d] = E[d]
    BY <1>1 DEF Part, Parts
  <1> HIDE DEF F, E, L, R
  <1>5. SumFunctionOnSet(F, L \union R) = SumFunctionOnSet(F, L) + SumFunctionOnSet(F, R)
    BY <1>1, <1>2, SumUnion
  <1>6. SumFunctionOnSet(F, R) = 0
    BY <1>1, <1>3, SumZero
  <1>7. SumFunctionOnSet(F, L) = SumFunctionOnSet(E, L)
    BY <1>1, <1>4, SumEqual
  <1>8. SumFunctionOnSet(F, L) \in Int
    <2>1. \A d \in L : F[d] \in Int
      BY <1>1, <1>2
    <2> QED
      BY <1>1, <2>1, SumType
  <1>9. SumFunctionOnSet(F, Docs) = SumFunctionOnSet(E, L)
    <2>1. SumFunctionOnSet(F, Docs) = SumFunctionOnSet(F, L \union R)
      BY <1>1
    <2> QED
      BY <1>5, <1>6, <1>7, <1>8, <2>1
  <1> QED
    BY <1>9 DEF Total, F, E, L

LEMMA MatchIsTotal == TypeOK => (StockMatchesDocuments <=> \A k \in Keys : stock[k] = Total(k))
  BY TotalIsSum DEF StockMatchesDocuments

LEMMA MatchAfter ==
  TypeOK' => (StockMatchesDocuments <=> \A k \in Keys : stock[k] = Total(k))'
  BY MatchIsTotal, PTL

LEMMA TotalType ==
  ASSUME TypeOK, NEW k
  PROVE  Total(k) \in Int
  <1> DEFINE F == Parts(k)
  <1>1. \A d \in Docs : F[d] \in Int
    BY PartType DEF Parts
  <1> HIDE DEF F
  <1>2. SumFunctionOnSet(F, Docs) \in Int
    BY <1>1, DocsAssumption, SumType
  <1> QED
    BY <1>2 DEF F, Total

(* A step that changes document d alone.                                   *)
LEMMA OneChanges ==
  ASSUME TypeOK, TypeOK', NEW d \in Docs,
         \A x \in Docs \ {d} : documents'[x] = documents[x], NEW k
  PROVE  Total(k)' = Total(k) - Part(d, k) + Part(d, k)'
  <1> DEFINE F == Parts(k)
             G == Parts(k)'
  <1>1. \A x \in Docs : F[x] \in Int /\ G[x] \in Int
    BY PartType, PartTypeAfter DEF Parts
  <1>2. \A x \in Docs \ {d} : F[x] = G[x]
    <2>1. \A x \in Docs \ {d} : x \in LiveDocs <=> x \in LiveDocs'
      BY DEF LiveDocs
    <2> QED
      BY <2>1 DEF Part, Parts
  <1>3. F[d] = Part(d, k) /\ G[d] = Part(d, k)'
    BY DEF Parts
  <1>4. Total(k) = SumFunctionOnSet(F, Docs) /\ Total(k)' = SumFunctionOnSet(G, Docs)
    BY DEF Total
  <1> HIDE DEF F, G
  <1>5. SumFunctionOnSet(G, Docs) = SumFunctionOnSet(F, Docs) - F[d] + G[d]
    BY <1>1, <1>2, DocsAssumption, SumExcept
  <1> QED
    BY <1>3, <1>4, <1>5

(* It books the difference.                                                *)
LEMMA BookedStep ==
  ASSUME TypeOK, TypeOK', StockMatchesDocuments, NEW d \in Docs,
         \A x \in Docs \ {d} : documents'[x] = documents[x],
         NEW change, Book(change),
         \A k \in Keys : change[k] = Part(d, k)' - Part(d, k)
  PROVE  StockMatchesDocuments'
  <1>1. \A k \in Keys : stock'[k] = stock[k] + change[k]
    BY DEF Book
  <1>2. ASSUME NEW k \in Keys PROVE stock'[k] = Total(k)'
    <2>1. stock[k] = Total(k)
      BY MatchIsTotal
    <2>2. Total(k)' = Total(k) - Part(d, k) + Part(d, k)'
      BY OneChanges
    <2>3. Total(k) \in Int /\ Part(d, k) \in Int /\ Part(d, k)' \in Int
      BY TotalType, PartType, PartTypeAfter
    <2> QED
      BY <1>1, <2>1, <2>2, <2>3
  <1> QED
    BY <1>2, MatchAfter

(***************************************************************************)
(* The stock is what the documents book.                                   *)
(***************************************************************************)
AllFaithful == \A p \in Payloads : Faithful(p)

Kept ==
  MaxRebuilds > 0 => \A d \in Docs : documents[d] # NoDoc =>
    Rebuildable(documents[d].kind, documents[d].header, documents[d].items)

IInv == TypeInv /\ Kept /\ MatchesUnlessOvertaken

LEMMA StoredRebuildable ==
  ASSUME NEW new \in Payloads, Faithful(new), MaxRebuilds > 0
  PROVE  /\ Rebuildable(new.kind, new.header, StoredItems(new.kind, new.items))
         /\ Rebuildable(new.kind, CreatedHeader(new), StoredItems(new.kind, new.items))
         /\ Rebuildable(new.kind, CreatedHeader(new), CreatedItems(new.kind, new.items))
  <1>1. new.items \in Lines /\ new.header \in Header /\ new.kind # "retail"
    BY PayloadType DEF Faithful, Rebuildable
  <1>2. StoredItems(new.kind, new.items) = Sorted(new.items)
    BY <1>1 DEF StoredItems
  <1>3. NoNegative(new.items) => NoNegative(Sorted(new.items))
    <2>1. \A i \in DOMAIN new.items :
            ReorderItemsByModelCode(new.items)[i] \in DOMAIN new.items
      BY <1>1, ReorderSorts DEF Bijection, Injection
    <2> QED
      BY <2>1 DEF NoNegative, Sorted
  <1>4. NoNegative(new.items) => NoNegative(CreatedItems(new.kind, new.items))
    <2>1. CASE new.kind = "transfer"
      <3>1. CreatedItems(new.kind, new.items)
              = [i \in DOMAIN new.items |-> [new.items[i] EXCEPT !.qty = new.items[i].qty]]
        BY <2>1 DEF CreatedItems, Faithful
      <3>2. \A i \in DOMAIN new.items : new.items[i] \in Item
        BY <1>1, LineOfLines
      <3> QED
        BY <3>1, <3>2 DEF NoNegative, Item
    <2>2. CASE new.kind # "transfer"
      BY <1>2, <1>3, <2>2 DEF CreatedItems
    <2> QED
      BY <2>1, <2>2
  <1>5. /\ new.kind = "stock" => CreatedHeader(new).mode \in {1, 2}
        /\ new.kind = "shipment" => CreatedHeader(new).mode \in {3, 4}
    BY <1>1 DEF Faithful, Rebuildable, CreatedHeader, Header
  <1> QED
    BY <1>2, <1>3, <1>4, <1>5 DEF Faithful, Rebuildable

LEMMA CreateInv ==
  ASSUME AllFaithful, IInv, NEW r \in Requests, NEW new \in Payloads, Create(r, new)
  PROVE  IInv'
  <1>1. PICK d \in Docs : d = target[r]
    BY DEF IInv, TypeInv, TypeOK
  <1> DEFINE row == [kind |-> new.kind, header |-> CreatedHeader(new),
                     items |-> CreatedItems(new.kind, new.items), live |-> TRUE]
             change == [k \in Keys |-> Effect(new.kind, new.header, new.items, k)]
  <1>2. TypeInv' /\ TypeOK /\ TypeOK'
    BY CreateTypes DEF IInv, TypeInv
  <1>3. /\ Book(change) /\ documents[d] = NoDoc /\ overtaken' = overtaken
        /\ documents' = [documents EXCEPT ![d] = row]
    BY <1>1 DEF Create
  <1>4. documents'[d] = row /\ \A x \in Docs \ {d} : documents'[x] = documents[x]
    BY <1>2, <1>3 DEF TypeOK
  <1>5. row # NoDoc
    <2>1. row \in Document
      BY PayloadType, CreatedLines, RowType
    <2> HIDE DEF row
    <2> QED
      BY <2>1, NoDocAssumption
  <1>6. ASSUME NEW k \in Keys PROVE change[k] = Part(d, k)' - Part(d, k)
    <2>1. Part(d, k) = 0
      BY <1>3 DEF Part, LiveDocs
    <2>2. d \in LiveDocs'
      BY <1>4, <1>5 DEF LiveDocs
    <2>3. Part(d, k)' = Effect(new.kind, CreatedHeader(new), CreatedItems(new.kind, new.items), k)
      BY <1>4, <2>2 DEF Part
    <2>4. Part(d, k)' = Effect(new.kind, new.header, new.items, k)
      BY <2>3, PayloadType, CreatedEffect DEF AllFaithful
    <2>5. Effect(new.kind, new.header, new.items, k) \in Int
      BY PayloadType, EffectType
    <2> QED
      BY <2>1, <2>4, <2>5
  <1>7. Kept'
    <2>1. MaxRebuilds > 0 => Rebuildable(row.kind, row.header, row.items)
      BY StoredRebuildable DEF AllFaithful
    <2> HIDE DEF row
    <2> QED
      BY <1>4, <2>1 DEF IInv, Kept
  <1> HIDE DEF row, change
  <1>8. StockMatchesDocuments => StockMatchesDocuments'
    BY <1>2, <1>3, <1>4, <1>6, BookedStep
  <1> QED
    BY <1>2, <1>3, <1>7, <1>8 DEF IInv, MatchesUnlessOvertaken

(* A late update or deletion is let off; what another one takes back is    *)
(* what the document has booked.                                           *)
LEMMA TakenBack ==
  ASSUME IInv, NEW r \in Requests, pc[r] \in {"rewrite", "remove"}, ~Outdated(r), NEW k
  PROVE  Reverted(r, k) = -Part(target[r], k) /\ target[r] \in LiveDocs
  <1>1. /\ target[r] \in Docs /\ documents[target[r]] # NoDoc
        /\ documents[target[r]].kind = existing[r].kind
    BY DEF IInv, TypeInv, TypeOK, Working, Works
  <1>2. /\ documents[target[r]].header = existing[r].header
        /\ documents[target[r]].items = oldItems[r]
        /\ documents[target[r]].live
    BY DEF Outdated
  <1>3. target[r] \in LiveDocs
    BY <1>1, <1>2 DEF LiveDocs
  <1> QED
    BY <1>1, <1>2, <1>3 DEF Reverted, Part

LEMMA RewriteInv ==
  ASSUME AllFaithful, IInv, NEW r \in Requests, Rewrite(r)
  PROVE  IInv'
  <1>1. PICK d \in Docs : d = target[r]
    BY DEF IInv, TypeInv, TypeOK
  <1>2. PICK new \in Payloads : new = payload[r]
    BY RewriteFacts DEF IInv
  <1> DEFINE row == Rewritten(d, new)
             change == [k \in Keys |-> Reverted(r, k) + Effect(new.kind, new.header, new.items, k)]
  <1>3. TypeInv' /\ TypeInv /\ TypeOK /\ TypeOK'
    BY RewriteTypes DEF IInv, TypeInv
  <1>4. documents[d] # NoDoc /\ documents' = [documents EXCEPT ![d] = row]
    BY <1>1, <1>2, <1>3, RewriteFacts
  <1>5. /\ row # NoDoc /\ row.kind = documents[d].kind /\ row.live = documents[d].live
        /\ row.items = StoredItems(new.kind, new.items)
        /\ documents[d].live => row.header = new.header
        /\ ~documents[d].live => row.header = documents[d].header
    BY <1>3, <1>4, RewrittenType
  <1>6. documents[d].kind = new.kind
    BY <1>1, <1>2 DEF Rewrite, IInv, TypeInv, Working, Works
  <1>7. Book(change) /\ overtaken' = (overtaken \/ Outdated(r)) /\ pc[r] = "rewrite"
    BY <1>1, <1>2 DEF Rewrite, End
  <1> HIDE DEF row
  <1>8. documents'[d] = row /\ \A x \in Docs \ {d} : documents'[x] = documents[x]
    BY <1>3, <1>4 DEF TypeOK
  <1>9. ASSUME ~Outdated(r), NEW k \in Keys PROVE change[k] = Part(d, k)' - Part(d, k)
    <2>1. Reverted(r, k) = -Part(d, k) /\ d \in LiveDocs
      BY <1>1, <1>7, <1>9, TakenBack
    <2>2. d \in LiveDocs' /\ row.header = new.header
      BY <1>5, <1>8, <2>1 DEF LiveDocs
    <2>3. Part(d, k)' = Effect(new.kind, new.header, StoredItems(new.kind, new.items), k)
      BY <1>5, <1>6, <1>8, <2>2 DEF Part
    <2>4. Part(d, k)' = Effect(new.kind, new.header, new.items, k)
      BY <2>3, PayloadType, StoredEffect DEF AllFaithful, Faithful
    <2>5. Effect(new.kind, new.header, new.items, k) \in Int /\ Part(d, k) \in Int
      BY <1>3, PayloadType, EffectType, PartType
    <2> QED
      BY <2>1, <2>4, <2>5
  <1>10. Kept'
    <2>1. MaxRebuilds > 0 => Rebuildable(row.kind, row.header, row.items)
      <3> SUFFICES ASSUME MaxRebuilds > 0 PROVE Rebuildable(row.kind, row.header, row.items)
        OBVIOUS
      <3>1. Rebuildable(new.kind, new.header, StoredItems(new.kind, new.items))
        BY StoredRebuildable DEF AllFaithful
      <3>2. Rebuildable(documents[d].kind, documents[d].header, documents[d].items)
        BY <1>4 DEF IInv, Kept
      <3> QED
        BY <1>5, <1>6, <3>1, <3>2 DEF Rebuildable
    <2> QED
      BY <1>8, <2>1 DEF IInv, Kept
  <1> HIDE DEF change
  <1>11. StockMatchesDocuments /\ ~Outdated(r) => StockMatchesDocuments'
    BY <1>3, <1>7, <1>8, <1>9, BookedStep
  <1> QED
    BY <1>3, <1>7, <1>10, <1>11 DEF IInv, MatchesUnlessOvertaken

LEMMA RemoveInv ==
  ASSUME IInv, NEW r \in Requests, Remove(r)
  PROVE  IInv'
  <1>1. PICK d \in Docs : d = target[r]
    BY DEF IInv, TypeInv, TypeOK
  <1> DEFINE row == [documents[d] EXCEPT !.live = FALSE]
             change == [k \in Keys |-> Reverted(r, k)]
  <1>2. TypeInv' /\ TypeInv /\ TypeOK /\ TypeOK'
    BY RemoveTypes DEF IInv, TypeInv
  <1>3. documents[d] \in Document /\ row # NoDoc /\ documents' = [documents EXCEPT ![d] = row]
    BY <1>1, <1>2, RemoveFacts
  <1>4. /\ row.kind = documents[d].kind /\ row.header = documents[d].header
        /\ row.items = documents[d].items /\ ~row.live
    BY <1>3 DEF Document
  <1>5. Book(change) /\ overtaken' = (overtaken \/ Outdated(r)) /\ pc[r] = "remove"
    BY <1>1 DEF Remove, End
  <1> HIDE DEF row
  <1>6. documents'[d] = row /\ \A x \in Docs \ {d} : documents'[x] = documents[x]
    BY <1>2, <1>3 DEF TypeOK
  <1>7. ASSUME ~Outdated(r), NEW k \in Keys PROVE change[k] = Part(d, k)' - Part(d, k)
    <2>1. Reverted(r, k) = -Part(d, k)
      BY <1>1, <1>5, <1>7, TakenBack
    <2>2. d \notin LiveDocs'
      BY <1>4, <1>6 DEF LiveDocs
    <2>3. Part(d, k)' = 0
      BY <2>2 DEF Part
    <2>4. Part(d, k) \in Int
      BY <1>2, PartType
    <2> QED
      BY <2>1, <2>3, <2>4
  <1>8. Kept'
    BY <1>3, <1>4, <1>6, NoDocAssumption DEF IInv, Kept
  <1> HIDE DEF change
  <1>9. StockMatchesDocuments /\ ~Outdated(r) => StockMatchesDocuments'
    BY <1>2, <1>5, <1>6, <1>7, BookedStep
  <1> QED
    BY <1>2, <1>5, <1>8, <1>9 DEF IInv, MatchesUnlessOvertaken

(* MigrateAll books the documents anew.                                    *)
LEMMA MigrateInv ==
  ASSUME IInv, MigrateAll
  PROVE  IInv'
  <1>1. TypeInv' /\ TypeOK
    BY MigrateTypes DEF IInv, TypeInv
  <1>2. MaxRebuilds > 0
    BY BoundsAssumption DEF MigrateAll, IInv, TypeInv, TypeOK
  <1>3. Kept' /\ documents' = documents
    BY DEF MigrateAll, IInv, Kept
  <1>4. StockMatchesDocuments'
    <2>1. \A d \in LiveDocs : documents[d] \in Document
                              /\ Rebuildable(documents[d].kind, documents[d].header, documents[d].items)
      BY <1>1, <1>2, LiveDocument DEF IInv, Kept, LiveDocs
    <2>2. ASSUME NEW k \in Keys
          PROVE  [d \in LiveDocs |-> Rebuilt(documents[d].kind, documents[d].header,
                                             documents[d].items, k)]
                   = [d \in LiveDocs |-> Effect(documents[d].kind, documents[d].header,
                                                documents[d].items, k)]
      BY <2>1, RebuiltEffect
    <2>3. \A k \in Keys : stock'[k] = SumFunctionOnSet(
            [d \in LiveDocs |-> Effect(documents[d].kind, documents[d].header,
                                       documents[d].items, k)], LiveDocs)
      BY <2>2 DEF MigrateAll
    <2>4. LiveDocs' = LiveDocs
      BY <1>3 DEF LiveDocs
    <2> QED
      BY <1>3, <2>3, <2>4 DEF StockMatchesDocuments
  <1> QED
    BY <1>1, <1>3, <1>4 DEF IInv, MatchesUnlessOvertaken

(* Steps that change neither documents nor stock.                          *)
LEMMA QuietInv ==
  ASSUME IInv, TypeInv', UNCHANGED <<documents, stock, overtaken>>
  PROVE  IInv'
  <1>1. Kept' /\ LiveDocs' = LiveDocs
    BY DEF IInv, Kept, LiveDocs
  <1>2. StockMatchesDocuments => StockMatchesDocuments'
    BY <1>1 DEF StockMatchesDocuments
  <1> QED
    BY <1>1, <1>2 DEF IInv, MatchesUnlessOvertaken

(* A batch adds what its documents book to a total they were not part of.  *)
LEMMA BatchTotal ==
  ASSUME TypeOK, TypeOK', NEW D \in SUBSET Docs, NEW k, NEW E,
         \A x \in Docs \ D : documents'[x] = documents[x],
         \A x \in D : Part(x, k) = 0 /\ Part(x, k)' = E[x]
  PROVE  Total(k)' = Total(k) + SumFunctionOnSet(E, D)
  <1> DEFINE F == Parts(k)
             G == Parts(k)'
             R == Docs \ D
  <1>1. \A x \in Docs : F[x] \in Int /\ G[x] \in Int
    BY PartType, PartTypeAfter DEF Parts
  <1>2. \A x \in R : F[x] = G[x]
    <2>1. \A x \in R : x \in LiveDocs <=> x \in LiveDocs'
      BY DEF LiveDocs
    <2> QED
      BY <2>1 DEF Part, Parts
  <1>3. \A x \in D : F[x] = 0 /\ G[x] = E[x]
    BY DEF Parts
  <1>4. Total(k) = SumFunctionOnSet(F, Docs) /\ Total(k)' = SumFunctionOnSet(G, Docs)
    BY DEF Total
  <1>5. /\ IsFiniteSet(D) /\ IsFiniteSet(R) /\ D \intersect R = {}
        /\ D \union R = Docs
    BY DocsAssumption, FS_Subset, FS_Difference
  <1> HIDE DEF F, G, R
  <1>6. /\ SumFunctionOnSet(F, D \union R) = SumFunctionOnSet(F, D) + SumFunctionOnSet(F, R)
        /\ SumFunctionOnSet(G, D \union R) = SumFunctionOnSet(G, D) + SumFunctionOnSet(G, R)
    BY <1>1, <1>5, SumUnion
  <1>7. SumFunctionOnSet(F, Docs) = SumFunctionOnSet(F, D \union R)
        /\ SumFunctionOnSet(G, Docs) = SumFunctionOnSet(G, D \union R)
    BY <1>5
  <1>8. SumFunctionOnSet(F, D) = 0
    BY <1>3, <1>5, SumZero
  <1>9. SumFunctionOnSet(G, D) = SumFunctionOnSet(E, D)
    BY <1>3, <1>5, SumEqual
  <1>10. SumFunctionOnSet(F, R) = SumFunctionOnSet(G, R)
    BY <1>2, <1>5, SumEqual
  <1>11. SumFunctionOnSet(G, D) \in Int /\ SumFunctionOnSet(F, R) \in Int
    <2>1. (\A x \in D : G[x] \in Int) /\ (\A x \in R : F[x] \in Int)
      BY <1>1, <1>5
    <2> QED
      BY <1>5, <2>1, SumType
  <1> QED
    BY <1>4, <1>6, <1>7, <1>8, <1>9, <1>10, <1>11

LEMMA BatchInv ==
  ASSUME AllFaithful, IInv, NEW r \in Requests,
         NEW D \in SUBSET Unused, NEW new \in [D -> Payloads], CreateBatch(r, new)
  PROVE  IInv'
  <1> DEFINE row(d) == [kind |-> new[d].kind, header |-> CreatedHeader(new[d]),
                        items |-> StoredItems(new[d].kind, new[d].items), live |-> TRUE]
             change == [k \in Keys |-> BatchEffect(new, k)]
  <1>1. TypeInv' /\ TypeInv /\ TypeOK /\ TypeOK'
    BY BatchTypes DEF IInv, TypeInv
  <1>2. overtaken' = overtaken
    BY DEF CreateBatch
  <1>3. CASE UNCHANGED <<documents, stock>>
    BY <1>1, <1>2, <1>3, QuietInv
  <1>4. CASE Book(change) /\ documents' = [d \in Docs |-> IF d \in D THEN row(d) ELSE documents[d]]
    <2>1. D \in SUBSET Docs /\ \A d \in D : documents[d] = NoDoc
      BY DEF Unused
    <2>2. /\ \A d \in D : documents'[d] = row(d)
          /\ \A d \in Docs \ D : documents'[d] = documents[d]
      BY <1>4, <2>1
    <2>3. \A d \in D : row(d) # NoDoc
      <3> SUFFICES ASSUME NEW d \in D PROVE row(d) # NoDoc
        OBVIOUS
      <3>1. row(d) \in Document
        BY PayloadType, StoredLines, RowType
      <3> HIDE DEF row
      <3> QED
        BY <3>1, NoDocAssumption
    <2>8. \A d \in D : /\ row(d).kind = new[d].kind /\ row(d).header = CreatedHeader(new[d])
                         /\ row(d).items = StoredItems(new[d].kind, new[d].items)
                         /\ row(d).live
      OBVIOUS
    <2> HIDE DEF row
    <2>4. \A d \in D : d \notin LiveDocs /\ d \in LiveDocs'
      <3> SUFFICES ASSUME NEW d \in D PROVE d \notin LiveDocs /\ d \in LiveDocs'
        OBVIOUS
      <3>1. d \in Docs /\ documents[d] = NoDoc /\ documents'[d] # NoDoc /\ documents'[d].live
        BY <2>1, <2>2, <2>3, <2>8
      <3> QED
        BY <3>1 DEF LiveDocs
    <2>5. ASSUME NEW k \in Keys, stock[k] = Total(k) PROVE stock'[k] = Total(k)'
      <3> DEFINE E == [d \in D |-> Effect(new[d].kind, new[d].header, new[d].items, k)]
      <3>1. ASSUME NEW d \in D PROVE Part(d, k) = 0 /\ Part(d, k)' = E[d]
        <4>1. Part(d, k) = 0
          BY <2>4 DEF Part
        <4>2. Part(d, k)' = Effect(new[d].kind, CreatedHeader(new[d]),
                                   StoredItems(new[d].kind, new[d].items), k)
          <5>1. d \in LiveDocs' /\ documents'[d] = row(d)
            BY <2>2, <2>4
          <5>2. /\ documents'[d].kind = new[d].kind /\ documents'[d].header = CreatedHeader(new[d])
                /\ documents'[d].items = StoredItems(new[d].kind, new[d].items)
            BY <2>8, <5>1
          <5> QED
            BY <5>1, <5>2 DEF Part
        <4>3. Part(d, k)' = Effect(new[d].kind, new[d].header, new[d].items, k)
          BY <4>2, PayloadType, BatchCreatedEffect DEF AllFaithful
        <4> QED
          BY <4>1, <4>3
      <3>2. BatchEffect(new, k) = SumFunctionOnSet(E, D)
        BY DEF BatchEffect
      <3> HIDE DEF E
      <3>3. Total(k)' = Total(k) + SumFunctionOnSet(E, D)
        BY <1>1, <2>1, <2>2, <3>1, BatchTotal
      <3>4. stock'[k] = stock[k] + BatchEffect(new, k)
        BY <1>4 DEF Book
      <3> QED
        BY <2>5, <3>2, <3>3, <3>4
    <2>6. StockMatchesDocuments => StockMatchesDocuments'
      BY <1>1, <2>5, MatchIsTotal, MatchAfter
    <2>7. Kept'
      <3>1. ASSUME MaxRebuilds > 0, NEW d \in D
            PROVE  Rebuildable(row(d).kind, row(d).header, row(d).items)
        <4>1. Faithful(new[d])
          BY DEF AllFaithful
        <4>2. Rebuildable(new[d].kind, CreatedHeader(new[d]),
                          StoredItems(new[d].kind, new[d].items))
          BY <3>1, <4>1, StoredRebuildable
        <4> QED
          BY <2>8, <4>2
      <3> QED
        BY <2>2, <3>1 DEF IInv, Kept
    <2> QED
      BY <1>1, <1>2, <2>6, <2>7 DEF IInv, MatchesUnlessOvertaken
  <1> QED
    BY <1>3, <1>4 DEF CreateBatch

LEMMA InitInv == Init => IInv
  <1> SUFFICES ASSUME Init PROVE IInv
    OBVIOUS
  <1>1. LiveDocs = {} /\ Kept
    BY DEF Init, LiveDocs, Kept
  <1>2. \A k \in Keys : stock[k] = 0
    BY DEF Init
  <1>3. StockMatchesDocuments
    BY <1>1, <1>2, SumEmpty DEF StockMatchesDocuments
  <1> QED
    BY <1>1, <1>3, InitTypes DEF IInv, MatchesUnlessOvertaken

LEMMA NextInv == AllFaithful /\ IInv /\ [Next]_vars => IInv'
  <1> SUFFICES ASSUME AllFaithful, IInv, [Next]_vars PROVE IInv'
    OBVIOUS
  <1>1. TypeInv'
    BY TypesStep DEF IInv
  <1>2. CASE UNCHANGED <<documents, stock, overtaken>>
    BY <1>1, <1>2, QuietInv
  <1> QED
    BY <1>2, Steps, CreateInv, BatchInv, RewriteInv, RemoveInv, MigrateInv
       DEF BeginDelete, BeginUpdate, LoadItems, Fail, NotFound, RefuseTransfer, Replicate, vars

(* The stock of every row is what the documents that are not deleted book, *)
(* unless a request has committed although the document it read had        *)
(* changed; MigrateAll repairs it.  This holds for any number of requests, *)
(* documents and lines, for batches of any size, whatever fails and however*)
(* far the replica lags, if payloads are faithful.                         *)
THEOREM StockMatches ==
  ASSUME AllFaithful
  PROVE  Spec => []MatchesUnlessOvertaken
  <1>1. IInv /\ [Next]_vars => IInv'
    BY NextInv
  <1>2. IInv => MatchesUnlessOvertaken
    BY DEF IInv
  <1> QED
    BY <1>1, <1>2, InitInv, PTL DEF Spec
=============================================================================
