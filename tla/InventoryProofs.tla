--------------------------- MODULE InventoryProofs --------------------------
(***************************************************************************)
(* Theorems about Inventory, for every set of rows, transactions and       *)
(* requests.                                                               *)
(***************************************************************************)
EXTENDS Inventory, SumTheorems, SequenceTheorems, TLAPS

(* A quantity, or a missing row read as zero, is an integer. *)
LEMMA ValInt == ASSUME NEW q \in Int \union {NoRow} PROVE Val(q) \in Int
  BY DEF Val

(***************************************************************************)
(* The net change of a row.                                                *)
(***************************************************************************)

(* The lines of a request that are about k, and their quantities.          *)
About(lines, k) == {i \in DOMAIN lines : lines[i].key = k}

Quantities(lines) == [i \in DOMAIN lines |-> lines[i].qty]

LEMMA AboutTypes ==
  ASSUME NEW lines \in Seq(Line), NEW k
  PROVE  /\ IsFiniteSet(About(lines, k))
         /\ \A i \in About(lines, k) : Quantities(lines)[i] \in Int
         /\ Net(lines, k) = SumFunctionOnSet(Quantities(lines), About(lines, k))
  <1>1. DOMAIN lines = 1 .. Len(lines) /\ Len(lines) \in Nat
    OBVIOUS
  <1>2. IsFiniteSet(DOMAIN lines)
    BY <1>1, FS_Interval
  <1>3. IsFiniteSet(About(lines, k))
    BY <1>2, FS_Subset DEF About
  <1>4. \A i \in DOMAIN lines : lines[i] \in Line
    OBVIOUS
  <1> QED
    BY <1>3, <1>4 DEF About, Quantities, Net, Line

LEMMA NetType == ASSUME NEW lines \in Seq(Line), NEW k PROVE Net(lines, k) \in Int
  <1> HIDE DEF Line
  <1> QED
    BY AboutTypes, SumType

LEMMA NetEmpty == ASSUME NEW k PROVE Net(<<>>, k) = 0
  <1>1. <<>> \in Seq(Line) /\ About(<<>>, k) = {}
    BY DEF About
  <1> QED
    BY <1>1, AboutTypes, SumEmpty

(* AdjustStockBatch takes the lines one by one.                            *)
LEMMA NetTail ==
  ASSUME NEW lines \in Seq(Line), lines # <<>>, NEW k
  PROVE  Net(lines, k) = (IF Head(lines).key = k THEN Head(lines).qty ELSE 0) + Net(Tail(lines), k)
  <1> DEFINE rest == About(lines, k) \ {1}
             later == About(Tail(lines), k)
             p == [i \in rest |-> i - 1]
  <1>1. /\ Len(lines) \in Nat \ {0} /\ DOMAIN lines = 1 .. Len(lines)
        /\ Tail(lines) \in Seq(Line) /\ DOMAIN Tail(lines) = 1 .. Len(lines) - 1
        /\ \A i \in 1 .. Len(lines) - 1 : Tail(lines)[i] = lines[i + 1]
        /\ Head(lines) = lines[1]
    OBVIOUS
  <1>2. p \in Bijection(rest, later)
    <2>1. \A i \in rest : i - 1 \in later
      BY <1>1 DEF About
    <2>2. \A i \in later : i + 1 \in rest /\ i = (i + 1) - 1
      BY <1>1 DEF About
    <2>3. \A i, j \in rest : i - 1 = j - 1 => i = j
      BY <1>1 DEF About
    <2>4. p \in [rest -> later]
      BY <2>1
    <2>5. \A i, j \in rest : p[i] = p[j] => i = j
      BY <2>3
    <2>6. \A i \in later : \E j \in rest : p[j] = i
      <3> SUFFICES ASSUME NEW i \in later PROVE p[i + 1] = i /\ i + 1 \in rest
        OBVIOUS
      <3> QED
        BY <2>2
    <2> HIDE DEF p, rest, later
    <2> QED
      BY <2>4, <2>5, <2>6 DEF Bijection, Injection, IsInjective, Surjection
  <1>3. \A i \in rest : Quantities(lines)[i] = Quantities(Tail(lines))[p[i]]
    BY <1>1 DEF About, Quantities
  <1>4. /\ IsFiniteSet(rest) /\ IsFiniteSet(later)
        /\ \A i \in later : Quantities(Tail(lines))[i] \in Int
    BY <1>1, AboutTypes, FS_RemoveElement
  <1> HIDE DEF p, rest, later
  <1>5. SumFunctionOnSet(Quantities(lines), rest) = SumFunctionOnSet(Quantities(Tail(lines)), later)
    BY <1>2, <1>3, <1>4, SumRenumbered
  <1>6. Net(Tail(lines), k) = SumFunctionOnSet(Quantities(lines), rest)
    BY <1>1, <1>5, AboutTypes DEF later
  <1>7. CASE Head(lines).key = k
    <2>1. 1 \in About(lines, k) /\ Quantities(lines)[1] = Head(lines).qty
      BY <1>1, <1>7 DEF About, Quantities
    <2>2. Net(lines, k) = Quantities(lines)[1] + SumFunctionOnSet(Quantities(lines), rest)
      BY <2>1, AboutTypes, SumRemove DEF rest
    <2> QED
      BY <1>6, <1>7, <2>1, <2>2
  <1>8. CASE Head(lines).key # k
    <2>1. rest = About(lines, k)
      BY <1>1, <1>8 DEF rest, About
    <2>2. Net(lines, k) = Net(Tail(lines), k)
      BY <1>6, <2>1, AboutTypes
    <2>3. Net(Tail(lines), k) \in Int
      BY <1>1, NetType
    <2> QED
      BY <1>8, <2>2, <2>3
  <1> QED
    BY <1>7, <1>8

(***************************************************************************)
(* The initial states.                                                     *)
(***************************************************************************)
LEMMA InitInv == Init => IInv
  <1> SUFFICES ASSUME Init PROVE IInv
    OBVIOUS
  <1>1. rows \in [Keys -> Int \union {NoRow}]
    BY InitialRowsAssumption DEF Init
  <1>2. ledger \in [Keys -> Int]
    BY <1>1, ValInt DEF Init
  <1>3. TypeOK
    BY <1>1, <1>2 DEF Init, TypeOK
  <1>4. OneHolder /\ IdleHoldsNothing /\ VersionsExact /\ CheckHoldsUnlessRaced
    BY DEF Init, OneHolder, IdleHoldsNothing, VersionsExact, CheckHoldsUnlessRaced
  <1>5. AdjustState /\ UpsertState
    BY DEF Init, AdjustState, UpsertState
  <1>6. ExactUnlessClobbered
    BY DEF Init, ExactUnlessClobbered
  <1> QED
    BY <1>3, <1>4, <1>5, <1>6 DEF IInv

(***************************************************************************)
(* Ending a transaction.                                                   *)
(***************************************************************************)
LEMMA RollbackInv ==
  ASSUME IInv, NEW t \in Txns, Rollback(t)
  PROVE  IInv'
  <1> USE DEF IInv
  <1> <<>> \in Seq(Line)
    OBVIOUS
  <1>1. TypeOK'
    BY DEF Rollback, Release, TypeOK
  <1>2. OneHolder'
    BY DEF Rollback, Release, TypeOK, OneHolder
  <1>3. IdleHoldsNothing'
    BY DEF Rollback, Release, TypeOK, IdleHoldsNothing, Active
  <1>4. VersionsExact'
    BY DEF Rollback, Release, TypeOK, VersionsExact
  <1>5. AdjustState'
    BY DEF Rollback, Release, TypeOK, AdjustState
  <1>6. UpsertState'
    BY DEF Rollback, Release, TypeOK, UpsertState
  <1>7. CheckHoldsUnlessRaced'
    BY DEF Rollback, Release, TypeOK, CheckHoldsUnlessRaced
  <1>8. ExactUnlessClobbered'
    BY DEF Rollback, Release, ExactUnlessClobbered
  <1> QED
    BY <1>1, <1>2, <1>3, <1>4, <1>5, <1>6, <1>7, <1>8

LEMMA CommitInv ==
  ASSUME IInv, NEW t \in Txns, Commit(t)
  PROVE  IInv'
  <1> USE DEF IInv
  <1> <<>> \in Seq(Line)
    OBVIOUS
  <1>0. pc[t] \in {"select", "upsert"} /\ pc'[t] = "committed"
    BY DEF Commit, Complete, TypeOK
  <1>a. \A k \in Keys : Visible(t, k) \in Int \union {NoRow}
    BY SentinelsAssumption DEF Visible, TypeOK
  <1>1. TypeOK'
    BY <1>a DEF Commit, Release, TypeOK
  <1>2. OneHolder'
    BY DEF Commit, Release, TypeOK, OneHolder
  <1>3. IdleHoldsNothing'
    BY DEF Commit, Release, TypeOK, IdleHoldsNothing, Active
  <1>4. VersionsExact'
    <2> SUFFICES ASSUME NEW u \in Txns, NEW k \in Keys, u # t
                 PROVE  /\ buf'[u][k] = Clean => mine'[u][k] = 0
                        /\ buf'[u][k] # Clean /\ (req'[u].kind = "adjust" => k \notin stale'[u])
                           => buf'[u][k] = Val(rows'[k]) + mine'[u][k]
      BY DEF Commit, Release, TypeOK, VersionsExact
    <2>1. /\ buf'[u][k] = buf[u][k] /\ mine'[u][k] = mine[u][k]
          /\ stale'[u] = stale[u] /\ req'[u] = req[u]
      BY DEF Commit, Release, TypeOK
    <2>2. buf[u][k] # Clean => rows'[k] = rows[k]
      BY DEF Commit, OneHolder, Visible
    <2> QED
      BY <2>1, <2>2 DEF VersionsExact
  <1>5. AdjustState'
    BY DEF Commit, Release, TypeOK, AdjustState
  <1>6. UpsertState'
    BY DEF Commit, Release, TypeOK, UpsertState
  <1>7. CheckHoldsUnlessRaced'
    BY DEF Commit, Release, TypeOK, CheckHoldsUnlessRaced
  <1>8. ExactUnlessClobbered'
    <2> SUFFICES ASSUME NEW k \in Keys, k \notin clobbered'
                 PROVE  Val(rows'[k]) = ledger'[k]
      BY DEF ExactUnlessClobbered
    <2>1. Val(rows[k]) = ledger[k]
      BY DEF Commit, ExactUnlessClobbered
    <2>2. rows'[k] = Visible(t, k) /\ ledger'[k] = ledger[k] + mine[t][k]
      BY DEF Commit
    <2>3. CASE buf[t][k] = Clean
      BY <2>1, <2>2, <2>3 DEF VersionsExact, Visible, TypeOK
    <2>4. CASE buf[t][k] # Clean
      <3>1. req[t].kind = "adjust" => k \notin stale[t]
        BY DEF Commit
      <3>2. buf[t][k] = Val(rows[k]) + mine[t][k]
        BY <2>4, <3>1 DEF VersionsExact
      <3>3. buf[t][k] \in Int
        BY <2>4 DEF TypeOK
      <3> QED
        BY <2>1, <2>2, <2>4, <3>2, <3>3, SentinelsAssumption DEF Val, Visible
    <2> QED
      BY <2>3, <2>4
  <1> QED
    BY <1>1, <1>2, <1>3, <1>4, <1>5, <1>6, <1>7, <1>8

(***************************************************************************)
(* Beginning a request, and the statements that only read.                 *)
(***************************************************************************)
LEMMA BeginAdjustInv ==
  ASSUME IInv, NEW t \in Txns, NEW r \in Requests, BeginAdjust(t, r)
  PROVE  IInv'
  <1> USE DEF IInv
  <1>0. r.lines \in Seq(Line)
    BY RequestsAssumption
  <1>a. \A k \in Keys : Net(r.lines, k) \in Int
    BY <1>0, NetType
  <1>1. TypeOK'
    BY <1>0 DEF BeginAdjust, TypeOK
  <1>2. OneHolder' /\ ExactUnlessClobbered'
    BY DEF BeginAdjust, OneHolder, ExactUnlessClobbered
  <1>3. \A k \in Keys : buf[t][k] = Clean /\ mine[t][k] = 0
    BY DEF BeginAdjust, IdleHoldsNothing, Active
  <1>4. IdleHoldsNothing'
    BY DEF BeginAdjust, TypeOK, IdleHoldsNothing, Active
  <1>5. VersionsExact'
    BY <1>3 DEF BeginAdjust, TypeOK, VersionsExact
  <1>6. AdjustState'
    BY <1>3, <1>a DEF BeginAdjust, TypeOK, AdjustState
  <1>7. UpsertState'
    BY DEF BeginAdjust, TypeOK, UpsertState
  <1>8. CheckHoldsUnlessRaced'
    BY <1>3 DEF BeginAdjust, TypeOK, CheckHoldsUnlessRaced
  <1> QED
    BY <1>1, <1>2, <1>4, <1>5, <1>6, <1>7, <1>8

LEMMA BeginTransferInv ==
  ASSUME IInv, NEW t \in Txns, NEW r \in Requests, BeginTransfer(t, r)
  PROVE  IInv'
  <1> USE DEF IInv
  <1>0. UpsertKeys(r) \in SUBSET Keys
    BY DEF UpsertKeys
  <1>1. TypeOK'
    BY <1>0 DEF BeginTransfer, TypeOK
  <1>2. OneHolder' /\ ExactUnlessClobbered'
    BY DEF BeginTransfer, OneHolder, ExactUnlessClobbered
  <1>3. \A k \in Keys : buf[t][k] = Clean /\ mine[t][k] = 0
    BY DEF BeginTransfer, IdleHoldsNothing, Active
  <1>4. IdleHoldsNothing'
    BY DEF BeginTransfer, TypeOK, IdleHoldsNothing, Active
  <1>5. VersionsExact'
    BY <1>3 DEF BeginTransfer, TypeOK, VersionsExact
  <1>6. AdjustState'
    BY DEF BeginTransfer, TypeOK, AdjustState
  <1>7. UpsertState'
    <2> SUFFICES ASSUME NEW u \in Txns
                 PROVE  /\ pc'[u] \in {"check", "upsert", "conflict"} =>
                             /\ req'[u] \in Requests
                             /\ req'[u].kind \in {"transfer", "retransfer"}
                             /\ \A k \in Keys : IF k \in todo'[u] THEN buf'[u][k] = Clean
                                               ELSE mine'[u][k] = Net(req'[u].lines, k)
                        /\ pc'[u] = "conflict" => at'[u] \in todo'[u]
                        /\ pc'[u] \in {"upsert", "conflict"} /\ req'[u].kind = "transfer" =>
                             \A k \in NeedKeys(req'[u]) :
                               seen'[u][k] # Unread /\ Val(seen'[u][k]) + Net(req'[u].lines, k) >= 0
      BY DEF UpsertState
    <2>1. CASE u = t
      BY <2>1, <1>3 DEF BeginTransfer, TypeOK, UpsertKeys
    <2>2. CASE u # t
      <3>1. /\ pc'[u] = pc[u] /\ req'[u] = req[u] /\ todo'[u] = todo[u] /\ buf'[u] = buf[u]
            /\ mine'[u] = mine[u] /\ at'[u] = at[u] /\ seen'[u] = seen[u]
        BY <2>2 DEF BeginTransfer, TypeOK
      <3> QED
        BY <3>1 DEF UpsertState
    <2> QED
      BY <2>1, <2>2
  <1>8. CheckHoldsUnlessRaced'
    BY <1>3 DEF BeginTransfer, TypeOK, CheckHoldsUnlessRaced
  <1> QED
    BY <1>1, <1>2, <1>4, <1>5, <1>6, <1>7, <1>8

LEMMA AdjustSkipInv ==
  ASSUME IInv, NEW t \in Txns, AdjustSkip(t)
  PROVE  IInv'
  <1> USE DEF IInv
  <1>0. Tail(left[t]) \in Seq(Line)
    BY DEF AdjustSkip, TypeOK
  <1>1. TypeOK'
    BY <1>0 DEF AdjustSkip, TypeOK
  <1>2. OneHolder' /\ ExactUnlessClobbered' /\ VersionsExact' /\ CheckHoldsUnlessRaced'
    BY DEF AdjustSkip, OneHolder, ExactUnlessClobbered, VersionsExact, CheckHoldsUnlessRaced
  <1>3. IdleHoldsNothing' /\ UpsertState'
    BY DEF AdjustSkip, IdleHoldsNothing, Active, UpsertState
  <1>4. AdjustState'
    <2>1. left[t] \in Seq(Line) /\ left[t] # <<>> /\ Head(left[t]).qty = 0
      BY DEF AdjustSkip, TypeOK
    <2>2. \A k \in Keys : Net(Tail(left[t]), k) \in Int
      BY <1>0, NetType
    <2>3. \A k \in Keys : Net(Tail(left[t]), k) = Net(left[t], k)
      BY <2>1, <2>2, NetTail
    <2> QED
      BY <2>3 DEF AdjustSkip, TypeOK, AdjustState
  <1> QED
    BY <1>1, <1>2, <1>3, <1>4

(* The line AdjustStock has come to. *)
LEMMA HeadLine ==
  ASSUME TypeOK, NEW t \in Txns, left[t] # <<>>
  PROVE  /\ Head(left[t]).key \in Keys /\ Head(left[t]).qty \in Int
         /\ Tail(left[t]) \in Seq(Line)
  <1>1. left[t] \in Seq(Line)
    BY DEF TypeOK
  <1>2. Head(left[t]) \in Line /\ Tail(left[t]) \in Seq(Line)
    BY <1>1
  <1> QED
    BY <1>2 DEF Line

LEMMA AdjustSelectInv ==
  ASSUME IInv, NEW t \in Txns, AdjustSelect(t)
  PROVE  IInv'
  <1> USE DEF IInv
  <1> DEFINE k == Head(left[t]).key
  <1>0. k \in Keys
    BY HeadLine DEF AdjustSelect
  <1>a. Visible(t, k) \in Int \union {NoRow}
    BY <1>0 DEF Visible, TypeOK
  <1>b. /\ seen' = [seen EXCEPT ![t][k] = Visible(t, k)]
        /\ at' = [at EXCEPT ![t] = k]
        /\ pc' = [pc EXCEPT ![t] = "write"]
        /\ pc[t] = "select" /\ left[t] # <<>>
        /\ UNCHANGED <<rows, buf, req, left, todo, mine, stale, ledger, clobbered>>
    BY DEF AdjustSelect
  <1>c. k = Head(left[t]).key
    OBVIOUS
  <1> HIDE DEF k
  <1>1. TypeOK'
    BY <1>0, <1>a, <1>b DEF TypeOK
  <1>2. OneHolder' /\ ExactUnlessClobbered' /\ VersionsExact' /\ CheckHoldsUnlessRaced'
    BY <1>b DEF OneHolder, ExactUnlessClobbered, VersionsExact, CheckHoldsUnlessRaced
  <1>3. IdleHoldsNothing'
    BY <1>b DEF TypeOK, IdleHoldsNothing, Active
  <1>4. AdjustState'
    BY <1>0, <1>a, <1>b, <1>c, SentinelsAssumption DEF TypeOK, AdjustState, Visible
  <1>5. UpsertState'
    BY <1>b DEF TypeOK, UpsertState
  <1> QED
    BY <1>1, <1>2, <1>3, <1>4, <1>5

LEMMA CheckPassesInv ==
  ASSUME IInv, NEW t \in Txns, CheckPasses(t)
  PROVE  IInv'
  <1> USE DEF IInv
  <1>0. \A k \in Keys : Visible(t, k) \in Int \union {NoRow}
    BY DEF Visible, TypeOK
  <1>1. TypeOK'
    BY <1>0 DEF CheckPasses, TypeOK
  <1>2. OneHolder' /\ ExactUnlessClobbered' /\ VersionsExact' /\ CheckHoldsUnlessRaced'
    BY DEF CheckPasses, OneHolder, ExactUnlessClobbered, VersionsExact, CheckHoldsUnlessRaced
  <1>3. IdleHoldsNothing'
    BY DEF CheckPasses, TypeOK, IdleHoldsNothing, Active
  <1>4. AdjustState'
    BY DEF CheckPasses, TypeOK, AdjustState
  <1>5. UpsertState'
    <2>1. \A k \in NeedKeys(req[t]) :
            seen'[t][k] # Unread /\ Val(seen'[t][k]) + Net(req[t].lines, k) >= 0
      BY <1>0, SentinelsAssumption DEF CheckPasses, Sufficient, TypeOK, NeedKeys
    <2>2. ASSUME NEW u \in Txns
          PROVE  /\ req'[u] = req[u] /\ todo'[u] = todo[u] /\ buf'[u] = buf[u]
                 /\ mine'[u] = mine[u] /\ at'[u] = at[u]
                 /\ u # t => pc'[u] = pc[u] /\ seen'[u] = seen[u]
      BY DEF CheckPasses, TypeOK
    <2>3. pc[t] = "check" /\ pc'[t] = "upsert"
      BY DEF CheckPasses, TypeOK
    <2> QED
      BY <2>1, <2>2, <2>3 DEF UpsertState
  <1> QED
    BY <1>1, <1>2, <1>3, <1>4, <1>5

LEMMA UpsertNextInv ==
  ASSUME IInv, NEW t \in Txns, UpsertNext(t)
  PROVE  IInv'
  <1> USE DEF IInv
  <1> PICK k \in todo[t] : at' = [at EXCEPT ![t] = k]
    BY DEF UpsertNext
  <1>1. TypeOK'
    BY DEF UpsertNext, TypeOK
  <1>2. OneHolder' /\ ExactUnlessClobbered' /\ VersionsExact' /\ CheckHoldsUnlessRaced'
    BY DEF UpsertNext, OneHolder, ExactUnlessClobbered, VersionsExact, CheckHoldsUnlessRaced
  <1>3. IdleHoldsNothing'
    BY DEF UpsertNext, TypeOK, IdleHoldsNothing, Active
  <1>4. AdjustState'
    BY DEF UpsertNext, TypeOK, AdjustState
  <1>5. UpsertState'
    BY DEF UpsertNext, TypeOK, UpsertState
  <1> QED
    BY <1>1, <1>2, <1>3, <1>4, <1>5

(***************************************************************************)
(* The statements that write a row.                                        *)
(***************************************************************************)

(* t writes the free row k, asking for d; what the other conjuncts of the  *)
(* invariant need to know about the new version q.                         *)
LEMMA WriteRowInv ==
  ASSUME TypeOK, OneHolder, VersionsExact, CheckHoldsUnlessRaced,
         NEW t \in Txns, NEW k \in Keys, NEW q \in Int, NEW d \in Int,
         ~HeldByOther(t, k),
         WriteRow(t, k, q, d),
         rows' = rows, req' = req,
         (req[t].kind = "adjust" => k \notin stale'[t])
           => q = Val(rows[k]) + mine[t][k] + d,
         req[t].kind = "transfer" /\ k \in NeedKeys(req[t]) /\ k \notin stale'[t]
           => q >= 0
  PROVE  /\ buf' \in [Txns -> [Keys -> Int \union {Clean}]]
         /\ mine' \in [Txns -> [Keys -> Int]]
         /\ stale' \in [Txns -> SUBSET Keys]
         /\ at' \in [Txns -> Keys \union {None}]
         /\ OneHolder' /\ VersionsExact' /\ CheckHoldsUnlessRaced'
  <1>1. q # Clean
    BY SentinelsAssumption
  <1>2. /\ buf' \in [Txns -> [Keys -> Int \union {Clean}]]
        /\ mine' \in [Txns -> [Keys -> Int]]
        /\ stale' \in [Txns -> SUBSET Keys]
        /\ at' \in [Txns -> Keys \union {None}]
    BY DEF WriteRow, TypeOK
  <1>3. buf'[t][k] = q /\ mine'[t][k] = mine[t][k] + d
    BY DEF WriteRow, TypeOK
  <1>4. ASSUME NEW u \in Txns, NEW j \in Keys, u # t \/ j # k
        PROVE  /\ buf'[u][j] = buf[u][j] /\ mine'[u][j] = mine[u][j]
               /\ j \in stale'[u] <=> j \in stale[u]
    BY <1>4 DEF WriteRow, TypeOK
  <1>5. \A u \in Txns : u # t => buf[u][k] = Clean
    BY DEF HeldByOther, Holders
  <1>6. OneHolder'
    BY <1>4, <1>5 DEF OneHolder
  <1>7. VersionsExact'
    <2> SUFFICES ASSUME NEW u \in Txns, NEW j \in Keys
                 PROVE  /\ buf'[u][j] = Clean => mine'[u][j] = 0
                        /\ buf'[u][j] # Clean /\ (req'[u].kind = "adjust" => j \notin stale'[u])
                           => buf'[u][j] = Val(rows'[j]) + mine'[u][j]
      BY DEF VersionsExact
    <2>1. CASE u = t /\ j = k
      <3>1. Val(rows[k]) \in Int /\ mine[t][k] \in Int
        BY ValInt DEF TypeOK
      <3> QED
        BY <2>1, <3>1, <1>1, <1>3
    <2>2. CASE u # t \/ j # k
      BY <2>2, <1>4 DEF VersionsExact
    <2> QED
      BY <2>1, <2>2
  <1>8. CheckHoldsUnlessRaced'
    <2> SUFFICES ASSUME NEW u \in Txns, NEW j \in Keys,
                        buf'[u][j] # Clean, req'[u].kind = "transfer",
                        j \in NeedKeys(req'[u]) \ stale'[u]
                 PROVE  buf'[u][j] >= 0
      BY DEF CheckHoldsUnlessRaced
    <2>1. CASE u = t /\ j = k
      BY <2>1, <1>3
    <2>2. CASE u # t \/ j # k
      BY <2>2, <1>4 DEF CheckHoldsUnlessRaced
    <2> QED
      BY <2>1, <2>2
  <1> QED
    BY <1>2, <1>6, <1>7, <1>8

LEMMA AdjustWriteInv ==
  ASSUME IInv, NEW t \in Txns, AdjustInsert(t) \/ AdjustUpdate(t)
  PROVE  IInv'
  <1> USE DEF IInv
  <1> DEFINE k == at[t]
             d == Head(left[t]).qty
             q == Val(seen[t][k]) + d
  <1>1. /\ pc[t] = "write" /\ left[t] # <<>> /\ k \in Keys /\ seen[t][k] # Unread
        /\ buf[t][k] # Clean => seen[t][k] = buf[t][k]
        /\ req[t].kind = "adjust"
    BY DEF AdjustInsert, AdjustUpdate, AdjustState
  <1>2. d \in Int /\ Tail(left[t]) \in Seq(Line)
    BY <1>1, HeadLine
  <1>3. seen[t][k] \in Int \union {NoRow}
    BY <1>1 DEF TypeOK
  <1>4. q \in Int
    <2>1. Val(seen[t][k]) \in Int
      BY <1>3, ValInt
    <2> QED
      BY <2>1, <1>2
  <1>5. /\ ~HeldByOther(t, k)
        /\ WriteRow(t, k, q, d)
        /\ seen[t][k] = NoRow => rows[k] = NoRow
        /\ left' = [left EXCEPT ![t] = Tail(@)]
        /\ pc' = [pc EXCEPT ![t] = "select"]
        /\ UNCHANGED <<rows, seen, req, todo, ledger, clobbered>>
    <2>1. CASE AdjustInsert(t)
      <3>1. q = d
        BY <2>1, <1>2 DEF AdjustInsert, Val
      <3> QED
        BY <2>1, <3>1 DEF AdjustInsert
    <2>2. CASE AdjustUpdate(t)
      <3>1. q = seen[t][k] + d
        BY <2>2 DEF AdjustUpdate, Val
      <3> QED
        BY <2>2, <3>1 DEF AdjustUpdate
    <2> QED
      BY <2>1, <2>2
  <1>6. k \notin stale'[t] => q = Val(rows[k]) + mine[t][k] + d
    <2> SUFFICES ASSUME k \notin stale'[t]
                 PROVE  q = Val(rows[k]) + mine[t][k] + d
      OBVIOUS
    <2>1. /\ k \notin stale[t]
          /\ buf[t][k] = Clean => seen[t][k] = rows[k]
      BY <1>1, <1>5 DEF WriteRow, TypeOK
    <2>2. CASE buf[t][k] = Clean
      <3>1. mine[t][k] = 0 /\ Val(seen[t][k]) = Val(rows[k])
        BY <1>1, <2>1, <2>2 DEF VersionsExact
      <3>2. Val(rows[k]) \in Int
        BY <1>1, ValInt DEF TypeOK
      <3> QED
        BY <3>1, <3>2, <1>2
    <2>3. CASE buf[t][k] # Clean
      <3>1. buf[t][k] = Val(rows[k]) + mine[t][k] /\ seen[t][k] = buf[t][k]
        BY <1>1, <2>1, <2>3 DEF VersionsExact
      <3>2. buf[t][k] \in Int
        BY <1>1, <2>3 DEF TypeOK
      <3>3. Val(seen[t][k]) = buf[t][k]
        BY <3>1, <3>2, SentinelsAssumption DEF Val
      <3> QED
        BY <3>1, <3>3
    <2> QED
      BY <2>2, <2>3
  <1> HIDE DEF k, d, q
  <1>7. /\ buf' \in [Txns -> [Keys -> Int \union {Clean}]]
        /\ mine' \in [Txns -> [Keys -> Int]]
        /\ stale' \in [Txns -> SUBSET Keys]
        /\ at' \in [Txns -> Keys \union {None}]
        /\ OneHolder' /\ VersionsExact' /\ CheckHoldsUnlessRaced'
    BY <1>1, <1>2, <1>4, <1>5, <1>6, WriteRowInv
  <1>8. TypeOK'
    BY <1>2, <1>5, <1>7 DEF TypeOK
  <1>9. ASSUME NEW u \in Txns, u # t
        PROVE  /\ pc'[u] = pc[u] /\ left'[u] = left[u] /\ at'[u] = at[u]
               /\ buf'[u] = buf[u] /\ mine'[u] = mine[u] /\ stale'[u] = stale[u]
    BY <1>5, <1>9 DEF WriteRow, TypeOK
  <1>10. pc'[t] = "select"
    BY <1>5 DEF TypeOK
  <1>11. IdleHoldsNothing'
    BY <1>5, <1>9, <1>10 DEF IdleHoldsNothing, Active
  <1>12. AdjustState'
    <2>1. left'[t] = Tail(left[t])
      BY <1>5 DEF TypeOK
    <2>2. ASSUME NEW j \in Keys
          PROVE  mine'[t][j] = mine[t][j] + (IF k = j THEN d ELSE 0)
      BY <1>1, <1>2, <1>5 DEF WriteRow, TypeOK
    <2>3. ASSUME NEW j \in Keys
          PROVE  /\ Net(left[t], j) = (IF k = j THEN d ELSE 0) + Net(Tail(left[t]), j)
                 /\ Net(Tail(left[t]), j) \in Int
      <3>1. left[t] \in Seq(Line) /\ k = Head(left[t]).key
        BY <1>1 DEF TypeOK, AdjustState, k
      <3> QED
        BY <1>1, <1>2, <3>1, NetTail, NetType DEF d
    <2>4. ASSUME NEW j \in Keys
          PROVE  mine'[t][j] + Net(left'[t], j) = Net(req[t].lines, j)
      <3>1. mine[t][j] + Net(left[t], j) = Net(req[t].lines, j) /\ mine[t][j] \in Int
        BY <1>1 DEF AdjustState, TypeOK
      <3> QED
        BY <1>2, <2>1, <2>2, <2>3, <3>1
    <2>5. req' = req /\ seen' = seen
      BY <1>5
    <2>6. req[t] \in Requests /\ req[t].kind = "adjust"
      BY <1>1 DEF AdjustState
    <2> QED
      BY <1>5, <1>9, <1>10, <2>4, <2>5, <2>6 DEF AdjustState
  <1>13. UpsertState'
    BY <1>5, <1>9, <1>10 DEF UpsertState
  <1>14. ExactUnlessClobbered'
    BY <1>5 DEF ExactUnlessClobbered
  <1> QED
    BY <1>7, <1>8, <1>11, <1>12, <1>13, <1>14

LEMMA UpsertRowInv ==
  ASSUME IInv, NEW t \in Txns, UpsertRow(t)
  PROVE  IInv'
  <1> USE DEF IInv
  <1> DEFINE k == at[t]
             d == Net(req[t].lines, k)
             q == Val(rows[k]) + d
  <1>1. /\ pc[t] = "conflict" /\ k \in todo[t] /\ k \in Keys
        /\ req[t] \in Requests /\ req[t].kind \in {"transfer", "retransfer"}
        /\ buf[t][k] = Clean
    BY DEF UpsertRow, UpsertState, TypeOK
  <1>2. d \in Int /\ Val(rows[k]) \in Int /\ q \in Int
    <2>1. rows[k] \in Int \union {NoRow}
      BY <1>1 DEF TypeOK
    <2>2. Val(rows[k]) \in Int
      BY <2>1, ValInt
    <2>3. d \in Int
      BY <1>1, NetType, RequestsAssumption
    <2> QED
      BY <2>2, <2>3
  <1>3. mine[t][k] = 0
    BY <1>1 DEF VersionsExact
  <1>4. /\ ~HeldByOther(t, k)
        /\ WriteRow(t, k, q, d)
        /\ todo' = [todo EXCEPT ![t] = @ \ {k}]
        /\ pc' = [pc EXCEPT ![t] = "upsert"]
        /\ UNCHANGED <<rows, seen, req, left, ledger, clobbered>>
    BY <1>1 DEF UpsertRow, Visible
  <1>5. q = Val(rows[k]) + mine[t][k] + d
    BY <1>2, <1>3
  <1>6. req[t].kind = "transfer" /\ k \in NeedKeys(req[t]) /\ k \notin stale'[t] => q >= 0
    <2> SUFFICES ASSUME req[t].kind = "transfer", k \in NeedKeys(req[t]), k \notin stale'[t]
                 PROVE  q >= 0
      OBVIOUS
    <2>1. seen[t][k] # Unread /\ Val(seen[t][k]) + d >= 0
      BY <1>1 DEF UpsertState
    <2>2. seen[t][k] = rows[k]
      BY <1>1, <1>4, <2>1 DEF WriteRow, TypeOK
    <2> QED
      BY <2>1, <2>2
  <1>7. req[t].kind # "adjust"
    BY <1>1
  <1>8. Net(req[t].lines, k) = d
    OBVIOUS
  <1> HIDE DEF k, d, q
  <1>9. /\ buf' \in [Txns -> [Keys -> Int \union {Clean}]]
        /\ mine' \in [Txns -> [Keys -> Int]]
        /\ stale' \in [Txns -> SUBSET Keys]
        /\ at' \in [Txns -> Keys \union {None}]
        /\ OneHolder' /\ VersionsExact' /\ CheckHoldsUnlessRaced'
    BY <1>1, <1>2, <1>4, <1>5, <1>6, WriteRowInv
  <1>10. TypeOK'
    BY <1>4, <1>9 DEF TypeOK
  <1>11. ASSUME NEW u \in Txns, u # t
         PROVE  /\ pc'[u] = pc[u] /\ todo'[u] = todo[u] /\ at'[u] = at[u]
                /\ buf'[u] = buf[u] /\ mine'[u] = mine[u] /\ stale'[u] = stale[u]
    BY <1>4, <1>11 DEF WriteRow, TypeOK
  <1>12. pc'[t] = "upsert" /\ todo'[t] = todo[t] \ {k}
    BY <1>4 DEF TypeOK
  <1>13. IdleHoldsNothing'
    BY <1>4, <1>11, <1>12 DEF IdleHoldsNothing, Active
  <1>14. AdjustState'
    BY <1>4, <1>11, <1>12 DEF AdjustState
  <1>15. UpsertState'
    <2>1. mine'[t][k] = d
      BY <1>1, <1>2, <1>3, <1>4 DEF WriteRow, TypeOK
    <2>2. \A j \in Keys : j # k => buf'[t][j] = buf[t][j] /\ mine'[t][j] = mine[t][j]
      BY <1>4 DEF WriteRow, TypeOK
    <2>3. \A j \in Keys : IF j \in todo'[t] THEN buf'[t][j] = Clean
                          ELSE mine'[t][j] = Net(req'[t].lines, j)
      BY <1>1, <1>4, <1>8, <1>12, <2>1, <2>2 DEF UpsertState
    <2> QED
      BY <1>1, <1>4, <1>11, <1>12, <2>3 DEF UpsertState
  <1>16. ExactUnlessClobbered'
    BY <1>4 DEF ExactUnlessClobbered
  <1> QED
    BY <1>9, <1>10, <1>13, <1>14, <1>15, <1>16

(***************************************************************************)
(* The theorems.                                                           *)
(***************************************************************************)
LEMMA StepInv == IInv /\ [Next]_vars => IInv'
  <1> SUFFICES ASSUME IInv, [Next]_vars PROVE IInv'
    OBVIOUS
  <1>1. ASSUME NEW t \in Txns, Begin(t) PROVE IInv'
    BY <1>1, BeginAdjustInv, BeginTransferInv DEF Begin
  <1>2. ASSUME NEW t \in Txns, Statement(t) PROVE IInv'
    <2>1. CASE AdjustSkip(t)
      BY <2>1, AdjustSkipInv
    <2>2. CASE AdjustSelect(t)
      BY <2>2, AdjustSelectInv
    <2>3. CASE AdjustInsert(t) \/ AdjustUpdate(t)
      BY <2>3, AdjustWriteInv
    <2>4. CASE AdjustInsertConflict(t) \/ CheckFails(t) \/ DeadlockVictim(t)
      BY <2>4, RollbackInv DEF AdjustInsertConflict, CheckFails, DeadlockVictim
    <2>5. CASE CheckPasses(t)
      BY <2>5, CheckPassesInv
    <2>6. CASE UpsertNext(t)
      BY <2>6, UpsertNextInv
    <2>7. CASE UpsertRow(t)
      BY <2>7, UpsertRowInv
    <2>8. CASE Commit(t)
      BY <2>8, CommitInv
    <2> QED
      BY <1>2, <2>1, <2>2, <2>3, <2>4, <2>5, <2>6, <2>7, <2>8 DEF Statement
  <1>3. ASSUME NEW t \in Txns, ConnectionLost(t) PROVE IInv'
    BY <1>3, RollbackInv DEF ConnectionLost
  <1>4. CASE UNCHANGED vars
    BY <1>4 DEF vars, IInv, TypeOK, OneHolder, IdleHoldsNothing, Active, VersionsExact,
               AdjustState, UpsertState, CheckHoldsUnlessRaced, ExactUnlessClobbered
  <1> QED
    BY <1>1, <1>2, <1>3, <1>4 DEF Next, Finished

(* The inductive invariant holds in every reachable state. *)
THEOREM Invariance == Spec => []IInv
  BY InitInv, StepInv, PTL DEF Spec

(* Rows, buffers, locks and histories keep their types, whatever documents *)
(* are booked and however their statements interleave.                     *)
THEOREM TypeCorrect == Spec => []TypeOK
  BY Invariance, PTL DEF IInv

(* Stock equals the ledger in every row AdjustStock has not overwritten    *)
(* from an outdated read: that race is the only one that loses stock.      *)
THEOREM LedgerExact == Spec => []ExactUnlessClobbered
  BY Invariance, PTL DEF IInv

(* A checked transfer leaves no negative stock in the rows it takes from,  *)
(* unless another commit came between its check and its UPSERT.            *)
THEOREM CheckSound == Spec => []CheckHoldsUnlessRaced
  BY Invariance, PTL DEF IInv

(* When a document is about to commit, its statements have asked for       *)
(* exactly the net change of all its lines, whichever path books them.     *)
THEOREM AllBooked == Spec => []AllLinesBooked
  <1>1. IInv => AllLinesBooked
    <2> SUFFICES ASSUME IInv, NEW t \in Txns, Complete(t), NEW k \in Keys
                 PROVE  mine[t][k] = Net(req[t].lines, k)
      BY DEF AllLinesBooked
    <2>1. CASE pc[t] = "select" /\ left[t] = <<>>
      <3>1. mine[t][k] + Net(left[t], k) = Net(req[t].lines, k) /\ mine[t][k] \in Int
        BY <2>1 DEF IInv, AdjustState, TypeOK
      <3> QED
        BY <2>1, <3>1, NetEmpty
    <2>2. CASE pc[t] = "upsert" /\ todo[t] = {}
      BY <2>2 DEF IInv, UpsertState
    <2> QED
      BY <2>1, <2>2 DEF Complete
  <1> QED
    BY <1>1, Invariance, PTL

(***************************************************************************)
(* ApplyStockDeltas on its own: no document is booked with AdjustStock.    *)
(***************************************************************************)
DeltasOnly == \A r \in Requests : r.kind # "adjust"

(* Then no row is ever overwritten from an outdated read ...               *)
LEMMA NothingClobbered ==
  ASSUME DeltasOnly, IInv, clobbered = {}, [Next]_vars
  PROVE  clobbered' = {}
  <1>1. ASSUME NEW t \in Txns, Commit(t) PROVE clobbered' = {}
    <2>1. req[t] \in Requests
      BY <1>1 DEF Commit, Complete, IInv, AdjustState, UpsertState
    <2> QED
      BY <1>1, <2>1 DEF Commit, DeltasOnly
  <1>2. ASSUME NEW t \in Txns, Rollback(t) PROVE clobbered' = {}
    BY <1>2 DEF Rollback
  <1>3. ASSUME NEW t \in Txns, Begin(t) PROVE clobbered' = {}
    BY <1>3 DEF Begin, BeginAdjust, BeginTransfer
  <1>4. ASSUME NEW t \in Txns, Statement(t) PROVE clobbered' = {}
    BY <1>1, <1>2, <1>4
       DEF Statement, AdjustSkip, AdjustSelect, AdjustInsert, AdjustInsertConflict,
           AdjustUpdate, CheckPasses, CheckFails, UpsertNext, UpsertRow, DeadlockVictim
  <1> QED
    BY <1>2, <1>3, <1>4 DEF Next, ConnectionLost, Finished, vars

(* ... and every row always equals the ledger.                             *)
THEOREM DeltasExact == DeltasOnly => (Spec => []Exact)
  <1> SUFFICES ASSUME DeltasOnly PROVE Spec => []Exact
    OBVIOUS
  <1>1. Init => clobbered = {}
    BY DEF Init
  <1>2. IInv /\ clobbered = {} /\ [Next]_vars => (clobbered = {})'
    BY NothingClobbered
  <1>3. IInv /\ clobbered = {} => Exact
    BY DEF IInv, ExactUnlessClobbered, Exact
  <1> QED
    BY Invariance, <1>1, <1>2, <1>3, PTL DEF Spec

(***************************************************************************)
(* ApplyStockDeltas implements the ledger.                                 *)
(***************************************************************************)
Posted == {t \in Txns : pc[t] = "committed"}
Balance == [k \in Keys |-> Val(rows[k])]

(* A step that neither commits nor touches the table is a stutter.         *)
LEMMA PostedUnchanged ==
  ASSUME TypeOK, NEW t \in Txns, pc[t] # "committed", NEW s, s # "committed",
         pc' = [pc EXCEPT ![t] = s]
  PROVE  Posted' = Posted
  BY DEF TypeOK, Posted

(* Committing books the net change of all lines at once.                   *)
LEMMA CommitPosts ==
  ASSUME DeltasOnly, IInv, NEW t \in Txns, Commit(t)
  PROVE  /\ t \notin Posted
         /\ Posted' = Posted \union {t}
         /\ req[t] \in Requests
         /\ Balance' = [k \in Keys |-> Balance[k] + Net(req[t].lines, k)]
  <1> USE DEF IInv
  <1>1. req[t] \in Requests /\ req[t].kind # "adjust"
    BY DEF Commit, Complete, AdjustState, UpsertState, DeltasOnly
  <1>2. pc[t] = "upsert" /\ todo[t] = {}
    BY <1>1 DEF Commit, Complete, AdjustState
  <1>3. t \notin Posted /\ Posted' = Posted \union {t}
    BY <1>2 DEF Commit, Posted, TypeOK
  <1>4. ASSUME NEW k \in Keys
        PROVE  Val(rows'[k]) = Val(rows[k]) + Net(req[t].lines, k)
    <2>1. mine[t][k] = Net(req[t].lines, k)
      BY <1>2 DEF UpsertState
    <2>2. rows[k] \in Int \union {NoRow} /\ buf[t][k] \in Int \union {Clean}
      BY DEF TypeOK
    <2>3. Val(rows[k]) \in Int
      BY <2>2, ValInt
    <2>4. rows'[k] = Visible(t, k)
      BY DEF Commit
    <2>5. CASE buf[t][k] = Clean
      <3>1. Net(req[t].lines, k) = 0
        BY <2>1, <2>5 DEF VersionsExact
      <3> QED
        BY <2>3, <2>4, <2>5, <3>1 DEF Visible
    <2>6. CASE buf[t][k] # Clean
      <3>1. buf[t][k] = Val(rows[k]) + Net(req[t].lines, k)
        BY <1>1, <2>1, <2>6 DEF VersionsExact
      <3>2. Val(buf[t][k]) = buf[t][k]
        BY <2>2, <2>6, SentinelsAssumption DEF Val
      <3> QED
        BY <2>4, <2>6, <3>1, <3>2 DEF Visible
    <2> QED
      BY <2>5, <2>6
  <1> QED
    BY <1>1, <1>3, <1>4 DEF Balance

(* Every step of Inventory is a posting or a stutter of the ledger.        *)
LEMMA StepPosts ==
  ASSUME DeltasOnly, IInv, [Next]_vars
  PROVE  [L!Next]_(L!vars)
  <1> USE DEF IInv
  <1>1. ASSUME NEW t \in Txns, Commit(t) PROVE L!Next
    <2>1. PICK change \in {[k \in Keys |-> Net(r.lines, k)] : r \in Requests} :
            change = [k \in Keys |-> Net(req[t].lines, k)]
      BY <1>1, CommitPosts
    <2>2. Balance' = [k \in Keys |-> Balance[k] + change[k]]
      BY <1>1, <2>1, CommitPosts
    <2>3. L!Post(t, change)
      BY <1>1, <2>2, CommitPosts DEF L!Post, Balance, Posted
    <2> QED
      BY <2>1, <2>3 DEF L!Next
  <1>2. ASSUME Posted' = Posted, rows' = rows PROVE UNCHANGED L!vars
    BY <1>2 DEF L!vars, Posted
  <1>3. ASSUME NEW t \in Txns, Rollback(t), pc[t] # "committed"
        PROVE  UNCHANGED L!vars
    BY <1>2, <1>3, PostedUnchanged DEF Rollback
  <1>4. ASSUME NEW t \in Txns, Begin(t) PROVE UNCHANGED L!vars
    BY <1>2, <1>4, PostedUnchanged DEF Begin, BeginAdjust, BeginTransfer
  <1>5. ASSUME NEW t \in Txns, Statement(t), ~Commit(t) PROVE UNCHANGED L!vars
    <2>1. CASE AdjustSkip(t)
      BY <1>2, <2>1 DEF AdjustSkip, Posted
    <2>2. CASE AdjustSelect(t) \/ AdjustInsert(t) \/ AdjustUpdate(t)
      BY <1>2, <2>2, PostedUnchanged DEF AdjustSelect, AdjustInsert, AdjustUpdate
    <2>3. CASE AdjustInsertConflict(t) \/ CheckFails(t) \/ DeadlockVictim(t)
      BY <1>3, <2>3
         DEF AdjustInsertConflict, CheckFails, DeadlockVictim, InDeadlock, Blocked
    <2>4. CASE CheckPasses(t) \/ UpsertNext(t) \/ UpsertRow(t)
      BY <1>2, <2>4, PostedUnchanged DEF CheckPasses, UpsertNext, UpsertRow
    <2> QED
      BY <1>5, <2>1, <2>2, <2>3, <2>4 DEF Statement
  <1>6. ASSUME NEW t \in Txns, ConnectionLost(t) PROVE UNCHANGED L!vars
    BY <1>3, <1>6 DEF ConnectionLost, Active
  <1>7. CASE UNCHANGED vars
    BY <1>2, <1>7 DEF vars, Posted
  <1> QED
    BY <1>1, <1>4, <1>5, <1>6, <1>7 DEF Next, Finished

(* Documents booked with ApplyStockDeltas post to the stock atomically,    *)
(* each at most once and in full: Inventory implements Ledger.             *)
THEOREM DeltasImplementLedger == DeltasOnly => (Spec => ImplementsLedger)
  <1> SUFFICES ASSUME DeltasOnly PROVE Spec => L!Spec
    BY DEF ImplementsLedger
  <1>1. Init => L!Init
    BY InitInv, ValInt DEF Init, L!Init, IInv, TypeOK
  <1>2. IInv /\ [Next]_vars => [L!Next]_(L!vars)
    BY StepPosts
  <1> QED
    BY Invariance, <1>1, <1>2, PTL DEF Spec, L!Spec
=============================================================================
