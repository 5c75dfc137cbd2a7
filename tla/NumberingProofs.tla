-------------------------- MODULE NumberingProofs ---------------------------
(***************************************************************************)
(* Theorems about Numbering, for every set of prefixes and of requests and *)
(* every number format, and about LoginLimit, for every set of accounts    *)
(* and of requests and every limit.                                        *)
(***************************************************************************)
EXTENDS MCNumbering, SequenceTheorems, FiniteSetTheorems, TLAPS

(* The largest of the numbers 1 to k is k, or the last that fits.          *)
LEMMA NextAfterSerial ==
  ASSUME NEW k \in Nat, NEW gone
  PROVE  NextAfter(1 .. k, gone) = (IF k <= Full THEN k ELSE Full) + 1
  <1> DEFINE m == IF k <= Full THEN k ELSE Full
  <1>1. m \in Nat
    BY FullAssumption
  <1>2. {0} \union {n \in 1 .. k : n <= Full} = 0 .. m
    BY FullAssumption
  <1>3. m \in 0 .. m /\ \A n \in 0 .. m : m >= n
    BY <1>1
  <1>4. \A x \in 0 .. m : (\A n \in 0 .. m : x >= n) => x = m
    BY <1>1
  <1> HIDE DEF m
  <1>5. Max(0 .. m) = m
    BY <1>3, <1>4 DEF Max
  <1> QED
    BY <1>2, <1>5 DEF NextAfter, Counted, MaxNo, m

(***************************************************************************)
(* The initial states.                                                     *)
(***************************************************************************)
LEMMA InitInv == Init => IInv
  <1> SUFFICES ASSUME Init PROVE IInv
    OBVIOUS
  <1> USE DEF Init, Unknown, Nothing
  <1>1. TypeOK
    BY DEF TypeOK
  <1>2. IdleHoldsNothing /\ SingleKnows
    BY DEF IdleHoldsNothing, SingleKnows
  <1>3. Serial
    <2>1. {} = 1 .. 0
      OBVIOUS
    <2>2. \A p \in Series : numbers[p] = 1 .. 0 /\ replica[p] = 1 .. 0
      BY <2>1
    <2>3. 0 \in Nat /\ 0 <= 0
      OBVIOUS
    <2> QED
      BY <2>2, <2>3 DEF Serial
  <1>4. MineFillsUp /\ NextIsFree
    BY DEF MineFillsUp, NextIsFree
  <1> QED
    BY <1>1, <1>2, <1>3, <1>4 DEF IInv
(***************************************************************************)
(* A request begins.                                                       *)
(***************************************************************************)
LEMMA BeginInv ==
  ASSUME IInv, NEW r \in Requests, NEW isBatch \in BOOLEAN,
         NEW documents \in Seq(Series), NEW known \in [Series -> Nat],
         NEW old \in SUBSET Series,
         Begin(r, isBatch, documents, known, old),
         ~isBatch => Len(documents) = 1 /\ known[Head(documents)] # 0,
         \A p \in Series : 1 .. known[p] - 1 \subseteq numbers[p],
         \A p \in Series : known[p] # 0 /\ p \notin old /\ (\A n \in numbers[p] : n <= Full)
           => \A n \in numbers[p] : n < known[p]
  PROVE  IInv'
  <1> USE DEF IInv, Begin
  <1>1. TypeOK'
    BY NoneAssumption DEF TypeOK, IdleHoldsNothing
  <1>2. IdleHoldsNothing'
    BY DEF TypeOK, IdleHoldsNothing
  <1>3. SingleKnows'
    BY DEF TypeOK, SingleKnows
  <1>4. Serial'
    BY DEF Serial
  <1>5. MineFillsUp'
    <2> SUFFICES ASSUME NEW q \in Requests, NEW p \in Series
                 PROVE  /\ mine[q][p] \subseteq 1 .. next'[q][p] - 1
                        /\ 1 .. next'[q][p] - 1 \subseteq numbers[p] \union mine[q][p]
      BY DEF MineFillsUp
    <2>1. CASE q = r
      BY <2>1 DEF TypeOK, IdleHoldsNothing, Nothing
    <2>2. CASE q # r
      BY <2>2 DEF TypeOK, MineFillsUp
    <2> QED
      BY <2>1, <2>2
  <1>6. NextIsFree'
    BY DEF TypeOK, NextIsFree
  <1> QED
    BY <1>1, <1>2, <1>3, <1>4, <1>5, <1>6

LEMMA CreateOneInv ==
  ASSUME IInv, NEW r \in Requests, NEW p \in Series, CreateOne(r, p)
  PROVE  IInv'
  <1> DEFINE n == NextAfter(replica[p], deleted[p])
             known == [Unknown EXCEPT ![p] = n]
             old == IF replica[p] = numbers[p] THEN {} ELSE {p}
  <1>1. PICK k \in Nat, l \in Nat : numbers[p] = 1 .. k /\ replica[p] = 1 .. l /\ l <= k
    BY DEF IInv, Serial
  <1>2. n = (IF l <= Full THEN l ELSE Full) + 1
    BY <1>1, NextAfterSerial
  <1>3. n \in Nat /\ n # 0 /\ 1 .. n - 1 \subseteq numbers[p]
    BY <1>1, <1>2, FullAssumption
  <1>4. replica[p] = numbers[p] /\ (\A i \in numbers[p] : i <= Full) => \A i \in numbers[p] : i < n
    BY <1>1, <1>2, FullAssumption
  <1>5. Begin(r, FALSE, <<p>>, known, old)
    BY DEF CreateOne
  <1> HIDE DEF n
  <1>6. known \in [Series -> Nat] /\ known[p] = n /\ \A q \in Series : q # p => known[q] = 0
    BY <1>3 DEF Unknown
  <1>7. <<p>> \in Seq(Series) /\ Len(<<p>>) = 1 /\ Head(<<p>>) = p
    OBVIOUS
  <1>8. old \in SUBSET Series
    OBVIOUS
  <1>9. \A q \in Series : 1 .. known[q] - 1 \subseteq numbers[q]
    BY <1>3, <1>6
  <1>10. \A q \in Series : known[q] # 0 /\ q \notin old /\ (\A i \in numbers[q] : i <= Full)
           => \A i \in numbers[q] : i < known[q]
    BY <1>4, <1>6
  <1> HIDE DEF known, old
  <1> QED
    BY <1>3, <1>5, <1>6, <1>7, <1>8, <1>9, <1>10, BeginInv

LEMMA CreateBatchInv ==
  ASSUME IInv, NEW r \in Requests, NEW documents \in BoundedSeq(Series, MaxDocuments),
         CreateBatch(r, documents)
  PROVE  IInv'
  <1>1. documents \in Seq(Series)
    BY BoundsAssumption DEF BoundedSeq, SeqOf
  <1>2. Unknown \in [Series -> Nat] /\ \A p \in Series : Unknown[p] = 0
    BY DEF Unknown
  <1>3. \A p \in Series : 1 .. Unknown[p] - 1 \subseteq numbers[p]
    BY <1>2
  <1>4. Begin(r, TRUE, documents, Unknown, {}) /\ {} \in SUBSET Series /\ TRUE \in BOOLEAN
    BY DEF CreateBatch
  <1> QED
    BY <1>1, <1>2, <1>3, <1>4, BeginInv

(***************************************************************************)
(* A request goes on.                                                      *)
(***************************************************************************)
LEMMA ReadNumberInv ==
  ASSUME IInv, NEW r \in Requests, ReadNumber(r)
  PROVE  IInv'
  <1> DEFINE p == Head(todo[r])
             n == NextAfter(numbers[p], deleted[p])
  <1> USE DEF IInv
  <1>1. p \in Series
    BY DEF ReadNumber, TypeOK
  <1>2. PICK k \in Nat, l \in Nat : numbers[p] = 1 .. k /\ replica[p] = 1 .. l /\ l <= k
    BY <1>1 DEF Serial
  <1>3. n = (IF k <= Full THEN k ELSE Full) + 1
    BY <1>2, NextAfterSerial
  <1>4. n \in Nat /\ n # 0 /\ 1 .. n - 1 \subseteq numbers[p]
    BY <1>2, <1>3, FullAssumption
  <1>5. (\A i \in numbers[p] : i <= Full) => \A i \in numbers[p] : i < n
    BY <1>2, <1>3, FullAssumption
  <1>6. /\ pc[r] = "working" /\ todo[r] # <<>> /\ next[r][p] = 0 /\ lock[p] = None
        /\ lock' = [lock EXCEPT ![p] = r]
        /\ next' = [next EXCEPT ![r][p] = n]
        /\ outrun' = [outrun EXCEPT ![r] = @ \ {p}]
        /\ UNCHANGED <<numbers, deleted, replica, begun, pc, batch, todo, mine>>
    BY DEF ReadNumber
  <1> HIDE DEF n, p
  <1>7. batch[r]
    BY <1>6 DEF SingleKnows, p
  <1>8. TypeOK'
    BY <1>1, <1>4, <1>6, <1>7, NoneAssumption DEF TypeOK
  <1>9. IdleHoldsNothing' /\ SingleKnows' /\ Serial'
    BY <1>1, <1>4, <1>6, <1>7 DEF TypeOK, IdleHoldsNothing, SingleKnows, Serial
  <1>10. MineFillsUp'
    <2> SUFFICES ASSUME NEW q \in Requests, NEW s \in Series
                 PROVE  /\ mine[q][s] \subseteq 1 .. next'[q][s] - 1
                        /\ 1 .. next'[q][s] - 1 \subseteq numbers[s] \union mine[q][s]
      BY <1>6 DEF MineFillsUp
    <2>1. CASE q = r /\ s = p
      <3>1. mine[r][p] = {}
        BY <1>1, <1>6 DEF MineFillsUp
      <3> QED
        BY <1>1, <1>4, <1>6, <2>1, <3>1 DEF TypeOK
    <2>2. CASE ~(q = r /\ s = p)
      <3>1. next'[q][s] = next[q][s]
        BY <1>1, <1>6, <2>2 DEF TypeOK
      <3> QED
        BY <3>1 DEF MineFillsUp
    <2> QED
      BY <2>1, <2>2
  <1>11. NextIsFree'
    <2> SUFFICES ASSUME NEW q \in Requests, NEW s \in Series,
                        next'[q][s] # 0, s \notin outrun'[q],
                        \A i \in numbers[s] : i <= Full
                 PROVE  \A i \in numbers[s] : i < next'[q][s]
      BY <1>6 DEF NextIsFree
    <2>1. CASE q = r /\ s = p
      BY <1>1, <1>5, <1>6, <2>1 DEF TypeOK
    <2>2. CASE ~(q = r /\ s = p)
      BY <1>1, <1>6, <2>2 DEF TypeOK, NextIsFree
    <2> QED
      BY <2>1, <2>2
  <1> QED
    BY <1>8, <1>9, <1>10, <1>11
LEMMA InsertInv ==
  ASSUME IInv, NEW r \in Requests, Insert(r)
  PROVE  IInv'
  <1> DEFINE p == Head(todo[r])
             n == next[r][p]
  <1> USE DEF IInv
  <1>1. p \in Series /\ n \in Nat
    BY DEF Insert, TypeOK
  <1>2. /\ pc[r] = "working" /\ todo[r] # <<>> /\ n # 0
        /\ mine' = [mine EXCEPT ![r][p] = @ \union {n}]
        /\ next' = [next EXCEPT ![r][p] = n + 1]
        /\ todo' = [todo EXCEPT ![r] = Tail(@)]
        /\ UNCHANGED <<numbers, deleted, replica, lock, begun, pc, batch, outrun>>
    BY DEF Insert
  <1> HIDE DEF p
  <1>3. TypeOK'
    BY <1>1, <1>2 DEF TypeOK
  <1>4. IdleHoldsNothing' /\ Serial'
    BY <1>1, <1>2 DEF TypeOK, IdleHoldsNothing, Serial
  <1>5. SingleKnows'
    <2>1. todo[r] \in Seq(Series)
      BY DEF TypeOK
    <2>2. Tail(todo[r]) \in Seq(Series) /\ Len(Tail(todo[r])) = Len(todo[r]) - 1
      BY <1>2, <2>1, HeadTailProperties
    <2>3. Len(todo[r]) = 1 => todo'[r] = <<>>
      <3>1. todo'[r] = Tail(todo[r])
        BY <1>2 DEF TypeOK
      <3>2. ASSUME NEW t \in Seq(Series), Len(t) = 0 PROVE t = <<>>
        BY <3>2, EmptySeq
      <3> HAVE Len(todo[r]) = 1
      <3>3. Len(Tail(todo[r])) = 0
        BY <2>2
      <3>4. Tail(todo[r]) = <<>>
        BY <2>2, <3>2, <3>3
      <3> QED
        BY <3>1, <3>4
    <2>4. \A q \in Requests \ {r} : todo'[q] = todo[q] /\ next'[q] = next[q]
      BY <1>1, <1>2 DEF TypeOK
    <2>5. batch' = batch
      BY <1>2
    <2>6. ~batch[r] => todo'[r] = <<>>
      BY <1>2, <2>3 DEF SingleKnows
    <2> QED
      BY <2>4, <2>5, <2>6 DEF SingleKnows
  <1>6. MineFillsUp'
    <2> SUFFICES ASSUME NEW q \in Requests, NEW s \in Series
                 PROVE  /\ mine'[q][s] \subseteq 1 .. next'[q][s] - 1
                        /\ 1 .. next'[q][s] - 1 \subseteq numbers[s] \union mine'[q][s]
      BY <1>2 DEF MineFillsUp
    <2>1. CASE q = r /\ s = p
      <3>1. mine'[q][s] = mine[r][p] \union {n} /\ next'[q][s] = n + 1
        BY <1>1, <1>2, <2>1 DEF TypeOK
      <3>2. mine[r][p] \subseteq 1 .. n - 1 /\ 1 .. n - 1 \subseteq numbers[p] \union mine[r][p]
        BY <1>1 DEF MineFillsUp
      <3> QED
        BY <1>1, <1>2, <2>1, <3>1, <3>2
    <2>2. CASE ~(q = r /\ s = p)
      <3>1. mine'[q][s] = mine[q][s] /\ next'[q][s] = next[q][s]
        BY <1>1, <1>2, <2>2 DEF TypeOK
      <3> QED
        BY <3>1 DEF MineFillsUp
    <2> QED
      BY <2>1, <2>2
  <1>7. NextIsFree'
    <2> SUFFICES ASSUME NEW q \in Requests, NEW s \in Series,
                        next'[q][s] # 0, s \notin outrun[q],
                        \A i \in numbers[s] : i <= Full,
                        NEW i \in numbers[s]
                 PROVE  i < next'[q][s]
      BY <1>2 DEF NextIsFree
    <2>1. i \in Nat
      BY DEF TypeOK
    <2>2. CASE q = r /\ s = p
      <3>1. next'[q][s] = n + 1
        BY <1>1, <1>2, <2>2 DEF TypeOK
      <3>2. i < n
        BY <1>1, <1>2, <2>2 DEF NextIsFree
      <3> QED
        BY <1>1, <2>1, <3>1, <3>2
    <2>3. CASE ~(q = r /\ s = p)
      <3>1. next'[q][s] = next[q][s]
        BY <1>1, <1>2, <2>3 DEF TypeOK
      <3> QED
        BY <3>1 DEF NextIsFree
    <2> QED
      BY <2>2, <2>3
  <1> QED
    BY <1>3, <1>4, <1>5, <1>6, <1>7

(***************************************************************************)
(* A transaction ends.                                                     *)
(***************************************************************************)
LEMMA EndTypeOK ==
  ASSUME IInv, NEW r \in Requests, NEW changed \in SUBSET Series, End(r, changed),
         numbers' \in [Series -> SUBSET Nat], \A p \in Series : numbers[p] \subseteq numbers'[p],
         UNCHANGED <<deleted, replica, begun>>
  PROVE  TypeOK' /\ IdleHoldsNothing' /\ SingleKnows'
  <1> USE DEF IInv
  <1>1. Unknown \in [Series -> Nat] /\ Nothing \in [Series -> SUBSET Nat] /\ <<>> \in Seq(Series)
    BY DEF Unknown, Nothing
  <1>2. \A p \in Series : lock'[p] # None => lock'[p] = lock[p] /\ lock[p] # r
    BY DEF End, Released, TypeOK
  <1>3. \A p \in Series : lock'[p] # None => batch'[lock'[p]]
    BY <1>2 DEF End, TypeOK
  <1>4. lock' \in [Series -> Requests \union {None}]
    BY DEF End, Released, TypeOK
  <1>5. outrun' \in [Requests -> SUBSET Series]
    BY DEF End, TypeOK
  <1>6. TypeOK'
    BY <1>1, <1>3, <1>4, <1>5 DEF End, TypeOK
  <1>7. IdleHoldsNothing'
    BY <1>1 DEF End, TypeOK, IdleHoldsNothing
  <1>8. SingleKnows'
    BY <1>1 DEF End, TypeOK, SingleKnows
  <1> QED
    BY <1>6, <1>7, <1>8

LEMMA RollbackInv ==
  ASSUME IInv, NEW r \in Requests, Rollback(r)
  PROVE  IInv'
  <1> USE DEF IInv
  <1>1. End(r, {}) /\ UNCHANGED <<numbers, deleted, replica, begun>>
    BY DEF Rollback
  <1>2. TypeOK' /\ IdleHoldsNothing' /\ SingleKnows'
    <2>1. numbers' \in [Series -> SUBSET Nat] /\ \A p \in Series : numbers[p] \subseteq numbers'[p]
      BY <1>1 DEF TypeOK
    <2> QED
      BY <1>1, <2>1, EndTypeOK
  <1>3. Serial'
    BY <1>1 DEF Serial
  <1>4. \A q \in Requests \ {r} : next'[q] = next[q] /\ mine'[q] = mine[q]
    BY <1>1 DEF End, TypeOK
  <1>5. \A p \in Series : next'[r][p] = 0 /\ mine'[r][p] = {}
    BY <1>1 DEF End, TypeOK, Unknown, Nothing
  <1>6. MineFillsUp'
    <2> SUFFICES ASSUME NEW q \in Requests, NEW p \in Series
                 PROVE  /\ mine'[q][p] \subseteq 1 .. next'[q][p] - 1
                        /\ 1 .. next'[q][p] - 1 \subseteq numbers[p] \union mine'[q][p]
      BY <1>1 DEF MineFillsUp
    <2>1. CASE q = r
      BY <1>5, <2>1
    <2>2. CASE q # r
      BY <1>4, <2>2 DEF MineFillsUp
    <2> QED
      BY <2>1, <2>2
  <1>7. NextIsFree'
    <2> SUFFICES ASSUME NEW q \in Requests, NEW p \in Series,
                        next'[q][p] # 0, p \notin outrun'[q],
                        \A n \in numbers[p] : n <= Full
                 PROVE  \A n \in numbers[p] : n < next'[q][p]
      BY <1>1 DEF NextIsFree
    <2>1. q # r
      BY <1>5
    <2>2. pc[q] = "working"
      BY <1>4, <2>1 DEF TypeOK, IdleHoldsNothing, Unknown
    <2>3. p \notin outrun[q]
      BY <1>1, <2>1, <2>2 DEF End
    <2> QED
      BY <1>4, <2>1, <2>3 DEF NextIsFree
  <1> QED
    BY <1>2, <1>3, <1>6, <1>7

LEMMA CommitInv ==
  ASSUME IInv, NEW r \in Requests, Commit(r)
  PROVE  IInv'
  <1> DEFINE changed == {p \in Series : mine[r][p] # {}}
  <1> USE DEF IInv
  <1>1. /\ pc[r] = "working"
        /\ numbers' = [p \in Series |-> numbers[p] \union mine[r][p]]
        /\ End(r, changed)
        /\ UNCHANGED <<deleted, replica, begun>>
    BY DEF Commit
  <1>2. changed \in SUBSET Series /\ \A p \in Series : p \notin changed => numbers'[p] = numbers[p]
    BY <1>1
  <1>3. numbers' \in [Series -> SUBSET Nat] /\ \A p \in Series : numbers[p] \subseteq numbers'[p]
    BY <1>1 DEF TypeOK
  <1> HIDE DEF changed
  <1>4. TypeOK' /\ IdleHoldsNothing' /\ SingleKnows'
    BY <1>1, <1>2, <1>3, EndTypeOK
  <1>5. Serial'
    <2> SUFFICES ASSUME NEW p \in Series
                 PROVE  \E k, l \in Nat : numbers'[p] = 1 .. k /\ replica[p] = 1 .. l /\ l <= k
      BY <1>1 DEF Serial
    <2> DEFINE m == next[r][p] - 1
    <2>1. PICK k \in Nat, l \in Nat : numbers[p] = 1 .. k /\ replica[p] = 1 .. l /\ l <= k
      BY DEF Serial
    <2>2. m \in Int /\ mine[r][p] \subseteq 1 .. m /\ 1 .. m \subseteq (1 .. k) \union mine[r][p]
      BY <2>1 DEF TypeOK, MineFillsUp
    <2>3. numbers'[p] = (1 .. k) \union mine[r][p]
      BY <1>1, <2>1
    <2> HIDE DEF m
    <2>4. CASE m <= k
      BY <2>1, <2>2, <2>3, <2>4
    <2>5. CASE m > k
      <3>1. numbers'[p] = 1 .. m /\ m \in Nat /\ l <= m
        BY <2>1, <2>2, <2>3, <2>5
      <3> QED
        BY <2>1, <3>1
    <2> QED
      BY <2>1, <2>2, <2>4, <2>5
  <1>6. \A q \in Requests \ {r} : next'[q] = next[q] /\ mine'[q] = mine[q]
    BY <1>1 DEF End, TypeOK
  <1>7. \A p \in Series : next'[r][p] = 0 /\ mine'[r][p] = {}
    BY <1>1 DEF End, TypeOK, Unknown, Nothing
  <1>8. MineFillsUp'
    <2> SUFFICES ASSUME NEW q \in Requests, NEW p \in Series
                 PROVE  /\ mine'[q][p] \subseteq 1 .. next'[q][p] - 1
                        /\ 1 .. next'[q][p] - 1 \subseteq numbers'[p] \union mine'[q][p]
      BY DEF MineFillsUp
    <2>1. CASE q = r
      BY <1>7, <2>1
    <2>2. CASE q # r
      BY <1>3, <1>6, <2>2 DEF MineFillsUp
    <2> QED
      BY <2>1, <2>2
  <1>9. NextIsFree'
    <2> SUFFICES ASSUME NEW q \in Requests, NEW p \in Series,
                        next'[q][p] # 0, p \notin outrun'[q],
                        \A n \in numbers'[p] : n <= Full
                 PROVE  \A n \in numbers'[p] : n < next'[q][p]
      BY DEF NextIsFree
    <2>1. q # r
      BY <1>7
    <2>2. pc[q] = "working"
      BY <1>6, <2>1 DEF TypeOK, IdleHoldsNothing, Unknown
    <2>3. p \notin outrun[q] /\ p \notin changed
      BY <1>1, <2>1, <2>2 DEF End
    <2>4. numbers'[p] = numbers[p]
      BY <1>2, <2>3
    <2> QED
      BY <1>6, <2>1, <2>3, <2>4 DEF NextIsFree
  <1> QED
    BY <1>4, <1>5, <1>8, <1>9

(***************************************************************************)
(* Documents are deleted, the replica catches up.                          *)
(***************************************************************************)
LEMMA DeleteInv ==
  ASSUME IInv, NEW p \in Series, NEW n \in numbers[p], Delete(p, n)
  PROVE  IInv'
  <1> USE DEF IInv, Delete, private
  <1>1. TypeOK'
    BY DEF TypeOK
  <1>2. IdleHoldsNothing' /\ SingleKnows' /\ Serial'
    BY DEF IdleHoldsNothing, SingleKnows, Serial
  <1>3. MineFillsUp' /\ NextIsFree'
    BY DEF MineFillsUp, NextIsFree
  <1> QED
    BY <1>1, <1>2, <1>3

LEMMA ReplicateInv ==
  ASSUME IInv, Replicate
  PROVE  IInv'
  <1> USE DEF IInv, Replicate, private
  <1>1. TypeOK'
    BY DEF TypeOK
  <1>2. IdleHoldsNothing' /\ SingleKnows'
    BY DEF IdleHoldsNothing, SingleKnows
  <1>3. Serial'
    <2> SUFFICES ASSUME NEW p \in Series
                 PROVE  \E k, l \in Nat : numbers[p] = 1 .. k /\ numbers[p] = 1 .. l /\ l <= k
      BY DEF Serial
    <2>1. PICK k \in Nat : numbers[p] = 1 .. k
      BY DEF Serial
    <2> QED
      BY <2>1
  <1>4. MineFillsUp' /\ NextIsFree'
    BY DEF MineFillsUp, NextIsFree
  <1> QED
    BY <1>1, <1>2, <1>3, <1>4

LEMMA StutterInv ==
  ASSUME IInv, UNCHANGED vars
  PROVE  IInv'
  <1> USE DEF IInv, vars
  <1>1. TypeOK' /\ IdleHoldsNothing' /\ SingleKnows'
    BY DEF TypeOK, IdleHoldsNothing, SingleKnows
  <1>2. Serial' /\ MineFillsUp' /\ NextIsFree'
    BY DEF Serial, MineFillsUp, NextIsFree
  <1> QED
    BY <1>1, <1>2

(***************************************************************************)
(* The invariant and what follows from it.                                 *)
(***************************************************************************)
LEMMA NextInv == IInv /\ [Next]_vars => IInv'
  <1> SUFFICES ASSUME IInv, [Next]_vars PROVE IInv'
    OBVIOUS
  <1>1. ASSUME NEW r \in Requests, NEW p \in Series, CreateOne(r, p) PROVE IInv'
    BY <1>1, CreateOneInv
  <1>2. ASSUME NEW r \in Requests, NEW documents \in BoundedSeq(Series, MaxDocuments),
               CreateBatch(r, documents)
        PROVE  IInv'
    BY <1>2, CreateBatchInv
  <1>3. ASSUME NEW r \in Requests, Step(r) PROVE IInv'
    <2>1. CASE ReadNumber(r)
      BY <2>1, ReadNumberInv
    <2>2. CASE Insert(r)
      BY <2>2, InsertInv
    <2>3. CASE Clash(r)
      BY <2>3, RollbackInv DEF Clash
    <2>4. CASE Commit(r)
      BY <2>4, CommitInv
    <2> QED
      BY <1>3, <2>1, <2>2, <2>3, <2>4 DEF Step
  <1>4. ASSUME NEW r \in Requests, Victim(r) \/ Fail(r) PROVE IInv'
    BY <1>4, RollbackInv DEF Victim, Fail
  <1>5. ASSUME NEW p \in Series, NEW n \in numbers[p], Delete(p, n) PROVE IInv'
    BY <1>5, DeleteInv
  <1>6. CASE Replicate
    BY <1>6, ReplicateInv
  <1>7. CASE Finished \/ UNCHANGED vars
    BY <1>7, StutterInv DEF Finished
  <1> QED
    BY <1>1, <1>2, <1>3, <1>4, <1>5, <1>6, <1>7 DEF Next

LEMMA Invariance == Spec => []IInv
  <1> QED
    BY InitInv, NextInv, PTL DEF Spec

(* Type correctness of Numbering; in particular an advisory lock is always *)
(* held by a batch that is running, so none outlives its transaction.      *)
THEOREM Typing == Spec => []TypeOK
  <1>1. IInv => TypeOK
    BY DEF IInv
  <1> QED
    BY <1>1, Invariance, PTL

(* The numbers of a prefix have no gap, for every number of prefixes,      *)
(* requests and documents, with any replica lag and any failure: what is   *)
(* rolled back is tried again, what is deleted still counts.               *)
THEOREM NumbersHaveNoGaps == Spec => []NoGaps
  <1>1. IInv => NoGaps
    <2> SUFFICES ASSUME Serial PROVE NoGaps
      BY DEF IInv
    <2> SUFFICES ASSUME NEW p \in Series, NEW n \in numbers[p]
                 PROVE  1 .. n \subseteq numbers[p]
      BY DEF NoGaps
    <2>1. PICK k \in Nat : numbers[p] = 1 .. k
      BY DEF Serial
    <2> QED
      BY <2>1
  <1> QED
    BY <1>1, Invariance, PTL

(* A number is refused only when another document of the prefix was        *)
(* committed after it was read, or the replica lagged, or the format is    *)
(* full: of batches, which lock before they read, only the last.           *)
THEOREM RefusedOnlyIfOutrun == Spec => []TakenOnlyIfOutrun
  <1>1. IInv => TakenOnlyIfOutrun
    <2> SUFFICES ASSUME IInv, NEW r \in Requests, Taken(r),
                        Head(todo[r]) \notin outrun[r],
                        \A n \in numbers[Head(todo[r])] : ~(n > Full)
                 PROVE  FALSE
      BY DEF TakenOnlyIfOutrun
    <2> DEFINE p == Head(todo[r])
               n == next[r][p]
    <2>1. p \in Series /\ numbers[p] \subseteq Nat
      BY DEF IInv, TypeOK, Taken
    <2>2. n \in numbers[p] /\ n \in Nat
      BY <2>1 DEF IInv, TypeOK, Taken
    <2>3. n # 0
      <3>1. PICK k \in Nat : numbers[p] = 1 .. k
        BY <2>1 DEF IInv, Serial
      <3> QED
        BY <2>2, <3>1
    <2>4. \A i \in numbers[p] : i <= Full
      BY <2>1, FullAssumption
    <2>5. n < n
      BY <2>1, <2>2, <2>3, <2>4 DEF IInv, NextIsFree
    <2> QED
      BY <2>2, <2>5
  <1> QED
    BY <1>1, Invariance, PTL

(***************************************************************************)
(* The limit on failed logins.                                             *)
(***************************************************************************)
LEMMA LoginTypingInit == L!Init => L!TypeOK
  BY DEF L!Init, L!TypeOK, L!Counters

LEMMA LoginTypingNext == L!TypeOK /\ [L!Next]_(L!vars) => L!TypeOK'
  <1> SUFFICES ASSUME L!TypeOK, [L!Next]_(L!vars) PROVE L!TypeOK'
    OBVIOUS
  <1> USE DEF L!TypeOK, L!Goto, L!Done, L!Gone, L!redis, L!own
  <1>1. ASSUME NEW r \in Requests, NEW a \in Accounts, L!Arrive(r, a) PROVE L!TypeOK'
    BY <1>1 DEF L!Arrive, L!Counters
  <1>2. ASSUME NEW r \in Requests, L!CheckUser(r) \/ L!CheckNonexistent(r) PROVE L!TypeOK'
    BY <1>2 DEF L!CheckUser, L!CheckNonexistent, L!Counters
  <1>10. ASSUME NEW r \in Requests, L!GetFails(r) PROVE L!TypeOK'
    BY <1>10 DEF L!GetFails, L!Misses, L!Counters
  <1>3. ASSUME NEW r \in Requests, L!Login(r) PROVE L!TypeOK'
    BY <1>3 DEF L!Login, L!Then, L!Counters
  <1>4. ASSUME NEW r \in Requests, L!Incr(r) PROVE L!TypeOK'
    BY <1>4 DEF L!Incr, L!Counters
  <1>5. ASSUME NEW r \in Requests, L!SetDeadline(r) PROVE L!TypeOK'
    BY <1>5 DEF L!SetDeadline, L!Counters
  <1>6. ASSUME NEW r \in Requests, L!ResetUser(r) PROVE L!TypeOK'
    BY <1>6 DEF L!ResetUser, L!Counters
  <1>7. ASSUME NEW r \in Requests, L!Crash(r) PROVE L!TypeOK'
    BY <1>7 DEF L!Crash, L!Counters
  <1>8. ASSUME NEW k \in L!Counters, L!Deadline(k) PROVE L!TypeOK'
    BY <1>8 DEF L!Deadline
  <1>9. CASE UNCHANGED L!vars
    BY <1>9 DEF L!vars
  <1> QED
    BY <1>1, <1>2, <1>3, <1>4, <1>5, <1>6, <1>7, <1>8, <1>9, <1>10 DEF L!Next, L!Step

(* Every step keeps DeadlineSet: the requests that are about to set a      *)
(* deadline are changed only by the step that sets it or by their death.   *)
LEMMA DeadlineSetNext == L!TypeOK /\ L!DeadlineSet /\ [L!Next]_(L!vars) => L!DeadlineSet'
  <1> SUFFICES ASSUME L!TypeOK, L!DeadlineSet, [L!Next]_(L!vars),
                      NEW k \in L!Counters, count'[k] > 0, ~timed'[k], ~lost'[k]
               PROVE  \E r \in Requests : loginPc'[r] = "expire" /\ target'[r] = k
    BY DEF L!DeadlineSet
  <1> DEFINE Setter(r) == loginPc[r] = "expire" /\ target[r] = k
             Kept(r) == \A q \in Requests \ {r} : loginPc'[q] = loginPc[q] /\ target'[q] = target[q]
  <1>1. ASSUME NEW r \in Requests, loginPc[r] # "expire", Kept(r), UNCHANGED <<count, timed, lost>>
        PROVE  \E q \in Requests : loginPc'[q] = "expire" /\ target'[q] = k
    <2>1. PICK q \in Requests : Setter(q)
      BY <1>1 DEF L!DeadlineSet
    <2> QED
      BY <1>1, <2>1
  <1>2. ASSUME NEW r \in Requests, NEW a \in Accounts, L!Arrive(r, a)
        PROVE  \E q \in Requests : loginPc'[q] = "expire" /\ target'[q] = k
    BY <1>1, <1>2 DEF L!Arrive, L!Goto, L!redis, L!TypeOK
  <1>3. ASSUME NEW r \in Requests, L!CheckUser(r) \/ L!CheckNonexistent(r)
        PROVE  \E q \in Requests : loginPc'[q] = "expire" /\ target'[q] = k
    BY <1>1, <1>3 DEF L!CheckUser, L!CheckNonexistent, L!Goto, L!Done, L!redis, L!own, L!TypeOK
  <1>11. ASSUME NEW r \in Requests, L!GetFails(r)
        PROVE  \E q \in Requests : loginPc'[q] = "expire" /\ target'[q] = k
    BY <1>1, <1>11 DEF L!GetFails, L!Goto, L!TypeOK
  <1>4. ASSUME NEW r \in Requests, L!Login(r)
        PROVE  \E q \in Requests : loginPc'[q] = "expire" /\ target'[q] = k
    BY <1>1, <1>4 DEF L!Login, L!Then, L!Goto, L!Done, L!redis, L!TypeOK
  <1>5. ASSUME NEW r \in Requests, L!Incr(r)
        PROVE  \E q \in Requests : loginPc'[q] = "expire" /\ target'[q] = k
    <2>1. CASE target[r] = k /\ count[k] = 0
      BY <1>5, <2>1 DEF L!Incr, L!SetsDeadline, L!Goto, L!own, L!TypeOK
    <2>2. CASE ~(target[r] = k /\ count[k] = 0)
      <3>1. count[k] > 0 /\ ~timed[k] /\ ~lost[k]
        BY <1>5, <2>2 DEF L!Incr, L!TypeOK
      <3>2. PICK q \in Requests : Setter(q)
        BY <3>1 DEF L!DeadlineSet
      <3> QED
        BY <1>5, <3>2 DEF L!Incr, L!Goto, L!Done, L!own, L!TypeOK
    <2> QED
      BY <2>1, <2>2
  <1>6. ASSUME NEW r \in Requests, L!SetDeadline(r)
        PROVE  \E q \in Requests : loginPc'[q] = "expire" /\ target'[q] = k
    <2>1. target[r] # k /\ count[k] > 0 /\ ~timed[k] /\ ~lost[k]
      BY <1>6 DEF L!SetDeadline, L!TypeOK
    <2>2. PICK q \in Requests : Setter(q)
      BY <2>1 DEF L!DeadlineSet
    <2> QED
      BY <1>6, <2>1, <2>2 DEF L!SetDeadline, L!Goto, L!Done, L!TypeOK
  <1>7. ASSUME NEW r \in Requests, L!ResetUser(r)
        PROVE  \E q \in Requests : loginPc'[q] = "expire" /\ target'[q] = k
    <2>1. count[k] > 0 /\ ~timed[k] /\ ~lost[k]
      BY <1>7 DEF L!ResetUser, L!Gone, L!TypeOK
    <2>2. PICK q \in Requests : Setter(q)
      BY <2>1 DEF L!DeadlineSet
    <2> QED
      BY <1>7, <2>2 DEF L!ResetUser, L!Goto, L!Done, L!TypeOK
  <1>8. ASSUME NEW r \in Requests, L!Crash(r)
        PROVE  \E q \in Requests : loginPc'[q] = "expire" /\ target'[q] = k
    <2>1. count[k] > 0 /\ ~timed[k]
      BY <1>8 DEF L!Crash
    <2>2. ~Setter(r) /\ ~lost[k]
      BY <1>8, <2>1 DEF L!Crash, L!TypeOK
    <2>3. PICK q \in Requests : Setter(q)
      BY <2>1, <2>2 DEF L!DeadlineSet
    <2> QED
      BY <1>8, <2>2, <2>3 DEF L!Crash, L!Goto, L!Done, L!TypeOK
  <1>9. ASSUME NEW j \in L!Counters, L!Deadline(j)
        PROVE  \E q \in Requests : loginPc'[q] = "expire" /\ target'[q] = k
    <2>1. count[k] > 0 /\ ~timed[k] /\ ~lost[k]
      BY <1>9 DEF L!Deadline, L!Gone, L!TypeOK
    <2> QED
      BY <1>9, <2>1 DEF L!Deadline, L!own, L!DeadlineSet
  <1>10. CASE UNCHANGED L!vars
    BY <1>10 DEF L!vars, L!redis, L!own, L!DeadlineSet
  <1> QED
    BY <1>2, <1>3, <1>4, <1>5, <1>6, <1>7, <1>8, <1>9, <1>10, <1>11 DEF L!Next, L!Step

(* A counter of failed logins always has a deadline, or a request that is  *)
(* about to set one, unless that request died: Redis never keeps a client  *)
(* out for good because logins came in an unlucky order.                   *)
THEOREM DeadlinesAreSet == L!Spec => []DeadlineSet
  <1>1. L!Init => L!TypeOK /\ L!DeadlineSet
    BY LoginTypingInit DEF L!Init, L!DeadlineSet
  <1>2. L!TypeOK /\ L!DeadlineSet /\ [L!Next]_(L!vars) => (L!TypeOK /\ L!DeadlineSet)'
    BY LoginTypingNext, DeadlineSetNext
  <1> QED
    BY <1>1, <1>2, PTL DEF L!Spec, DeadlineSet

(* What a counter has from requests that have read it.                     *)
Seen(k) == count[k] - unseen[k]

(* Requests that have read a counter, found room and may still change it.  *)
Uncounted(k) ==
  {r \in Requests :
     /\ k \notin missed[r]
     /\ \/ loginPc[r] = "incr" /\ target[r] = k
        \/ loginPc[r] \in {"nonexistent", "login"} /\ account[r] = k
        \/ loginPc[r] = "login" /\ k = Nonexistent}

(* What a counter may come to if all of them fail.                         *)
CountInv ==
  \A k \in L!Counters :
    Seen(k) + Cardinality(Uncounted(k)) <= Limit - 1 + Cardinality(Requests)

(* A step adds to a counter only what it takes from the requests that may  *)
(* still add to it, or lets one in while there is room for all.            *)
LEMMA CountStep ==
  ASSUME L!TypeOK, [L!Next]_(L!vars), NEW k \in L!Counters, Limit \in Nat
  PROVE  \/ Seen(k)' <= Seen(k) /\ Uncounted(k)' \subseteq Uncounted(k)
         \/ Seen(k)' = Seen(k) /\ Seen(k) < Limit
         \/ \E r \in Uncounted(k) :
               Seen(k)' = Seen(k) + 1 /\ Uncounted(k)' \subseteq Uncounted(k) \ {r}
  <1> USE DEF L!TypeOK, L!Goto, L!Done, L!Gone, L!redis, L!own, Seen, Uncounted
  <1>1. ASSUME NEW r \in Requests, NEW a \in Accounts, L!Arrive(r, a)
        PROVE  Seen(k)' <= Seen(k) /\ Uncounted(k)' \subseteq Uncounted(k)
    BY <1>1 DEF L!Arrive
  <1>2. ASSUME NEW r \in Requests, L!CheckUser(r) \/ L!CheckNonexistent(r)
        PROVE  \/ Seen(k)' <= Seen(k) /\ Uncounted(k)' \subseteq Uncounted(k)
               \/ Seen(k)' = Seen(k) /\ Seen(k) < Limit
    <2>1. CASE Uncounted(k)' \subseteq Uncounted(k)
      BY <1>2, <2>1 DEF L!CheckUser, L!CheckNonexistent
    <2>2. CASE ~(Uncounted(k)' \subseteq Uncounted(k))
      <3>1. ~L!IsBlocked(k)
        BY <1>2, <2>2 DEF L!CheckUser, L!CheckNonexistent
      <3> QED
        BY <1>2, <3>1 DEF L!CheckUser, L!CheckNonexistent, L!IsBlocked
    <2> QED
      BY <2>1, <2>2
  <1>8. ASSUME NEW r \in Requests, L!GetFails(r)
        PROVE  Seen(k)' <= Seen(k) /\ Uncounted(k)' \subseteq Uncounted(k)
    BY <1>8 DEF L!GetFails, L!Misses
  <1>3. ASSUME NEW r \in Requests, L!Login(r)
        PROVE  Seen(k)' <= Seen(k) /\ Uncounted(k)' \subseteq Uncounted(k)
    BY <1>3 DEF L!Login, L!Then
  <1>4. ASSUME NEW r \in Requests, L!Incr(r)
        PROVE  \/ Seen(k)' <= Seen(k) /\ Uncounted(k)' \subseteq Uncounted(k)
               \/ \E q \in Uncounted(k) :
                    Seen(k)' = Seen(k) + 1 /\ Uncounted(k)' \subseteq Uncounted(k) \ {q}
    <2>1. loginPc'[r] \in {"expire", "idle"} /\ Uncounted(k)' \subseteq Uncounted(k) \ {r}
      BY <1>4 DEF L!Incr
    <2>2. CASE target[r] = k
      BY <1>4, <2>1, <2>2 DEF L!Incr
    <2>3. CASE target[r] # k
      BY <1>4, <2>1, <2>3 DEF L!Incr
    <2> QED
      BY <2>2, <2>3
  <1>5. ASSUME NEW r \in Requests, L!SetDeadline(r) \/ L!ResetUser(r) \/ L!Crash(r)
        PROVE  Seen(k)' <= Seen(k) /\ Uncounted(k)' \subseteq Uncounted(k)
    BY <1>5 DEF L!SetDeadline, L!ResetUser, L!Crash
  <1>6. ASSUME NEW j \in L!Counters, L!Deadline(j)
        PROVE  Seen(k)' <= Seen(k) /\ Uncounted(k)' \subseteq Uncounted(k)
    BY <1>6 DEF L!Deadline
  <1>7. CASE UNCHANGED L!vars
    BY <1>7 DEF L!vars
  <1> QED
    BY <1>1, <1>2, <1>3, <1>4, <1>5, <1>6, <1>7, <1>8 DEF L!Next, L!Step

LEMMA CountNext ==
  ASSUME IsFiniteSet(Requests), Limit \in Nat \ {0}
  PROVE  L!TypeOK /\ CountInv /\ [L!Next]_(L!vars) => CountInv'
  <1> SUFFICES ASSUME L!TypeOK, CountInv, [L!Next]_(L!vars), NEW k \in L!Counters
               PROVE  Seen(k)' + Cardinality(Uncounted(k)') <= Limit - 1 + Cardinality(Requests)
    BY DEF CountInv
  <1> DEFINE before == Uncounted(k)
             after == Uncounted(k)'
  <1>1. /\ IsFiniteSet(before) /\ IsFiniteSet(after)
        /\ Cardinality(before) \in Nat /\ Cardinality(after) \in Nat
        /\ Cardinality(Requests) \in Nat /\ Cardinality(after) <= Cardinality(Requests)
    <2>1. before \subseteq Requests /\ after \subseteq Requests
      BY DEF Uncounted
    <2> HIDE DEF before, after
    <2> QED
      BY <2>1, FS_Subset, FS_CardinalityType
  <1>2. after \subseteq before => Cardinality(after) <= Cardinality(before)
    <2> HIDE DEF before, after
    <2> QED
      BY <1>1, FS_Subset
  <1>3. ASSUME NEW r \in before, after \subseteq before \ {r}
        PROVE  Cardinality(after) <= Cardinality(before) - 1
    <2> HIDE DEF before, after
    <2>1. IsFiniteSet(before \ {r}) /\ Cardinality(before \ {r}) = Cardinality(before) - 1
      BY <1>1, FS_RemoveElement
    <2> QED
      BY <1>3, <2>1, FS_Subset
  <1>4. Seen(k) \in Nat /\ Seen(k) + Cardinality(before) <= Limit - 1 + Cardinality(Requests)
    BY DEF CountInv, L!TypeOK, Seen
  <1>5. \/ Seen(k)' <= Seen(k) /\ after \subseteq before
        \/ Seen(k)' = Seen(k) /\ Seen(k) < Limit
        \/ \E r \in before : Seen(k)' = Seen(k) + 1 /\ after \subseteq before \ {r}
    BY CountStep
  <1>6. Seen(k)' \in Nat
    BY LoginTypingNext DEF L!TypeOK, Seen
  <1> HIDE DEF before, after
  <1> SUFFICES Seen(k)' + Cardinality(after) <= Limit - 1 + Cardinality(Requests)
    BY DEF after
  <1> QED
    BY <1>1, <1>2, <1>3, <1>4, <1>5, <1>6

(* Failed logins are counted past the limit only by the requests that were *)
(* let in before, at most one each, and by those whose GET of the counter  *)
(* failed, however many GETs fail.                                         *)
THEOREM FailuresAreBounded ==
  ASSUME IsFiniteSet(Requests), Limit \in Nat \ {0}
  PROVE  L!Spec => []CountBounded
  <1>1. L!Init => L!TypeOK /\ CountInv
    <2> SUFFICES ASSUME L!Init PROVE CountInv
      BY LoginTypingInit
    <2>1. \A k \in L!Counters : Uncounted(k) = {}
      BY DEF L!Init, Uncounted
    <2>2. Cardinality(Requests) \in Nat /\ Cardinality({}) = 0
      BY FS_CardinalityType, FS_EmptySet
    <2>3. \A k \in L!Counters : Seen(k) = 0 /\ Cardinality(Uncounted(k)) = 0
      BY <2>1, <2>2 DEF L!Init, Seen
    <2> HIDE DEF Uncounted, Seen
    <2> QED
      BY <2>2, <2>3 DEF CountInv
  <1>2. L!TypeOK /\ CountInv /\ [L!Next]_(L!vars) => (L!TypeOK /\ CountInv)'
    BY LoginTypingNext, CountNext
  <1>3. L!TypeOK /\ CountInv => CountBounded
    <2> SUFFICES ASSUME L!TypeOK, CountInv, NEW k \in L!Counters
                 PROVE  Seen(k) <= Limit - 1 + Cardinality(Requests)
      BY DEF CountBounded, L!CountBounded, L!Cardinality, Cardinality, Seen
    <2>1. Uncounted(k) \subseteq Requests
      BY DEF Uncounted
    <2>2. Cardinality(Uncounted(k)) \in Nat /\ Cardinality(Requests) \in Nat
      BY <2>1, FS_Subset, FS_CardinalityType
    <2> QED
      BY <2>2 DEF CountInv, L!TypeOK, Seen
  <1> QED
    BY <1>1, <1>2, <1>3, PTL DEF L!Spec

(* The two parts of MCNumbering do not disturb each other, and the types   *)
(* of both are kept.                                                       *)
THEOREM TypesHold == MCSpec => []TypesOK
  <1>1. MCInit => IInv /\ L!TypeOK
    BY InitInv, LoginTypingInit DEF MCInit
  <1>2. [MCNext]_<<part, vars, logins>> => [Next]_vars /\ [L!Next]_(L!vars)
    BY DEF MCNext, logins, L!vars, L!redis, L!own
  <1>3. IInv /\ L!TypeOK /\ [MCNext]_<<part, vars, logins>> => IInv' /\ L!TypeOK'
    BY <1>2, NextInv, LoginTypingNext
  <1>4. IInv /\ L!TypeOK => TypesOK
    BY DEF IInv, TypesOK
  <1> QED
    BY <1>1, <1>3, <1>4, PTL DEF MCSpec
=============================================================================
