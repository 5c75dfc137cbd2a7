--------------------------- MODULE DerivedProofs ----------------------------
(***************************************************************************)
(* Theorems about what is made from the tables: Firewall, for every set of *)
(* addresses, readers and writers and every bound on rows, writes and      *)
(* errors, Images, for every set of images, products and handlers, and     *)
(* ListCache, for all rows, codes, searches, readers and writers of the    *)
(* pairs of kinds MCEdits lists.                                           *)
(***************************************************************************)
EXTENDS MCDerived, SumTheorems, SequenceTheorems, TLAPS

(***************************************************************************)
(* The snapshot.                                                           *)
(***************************************************************************)

(* What is about to be stored is what the table says, unless it is late.   *)
GotUnlessLate == \A r \in Readers : got[r] # None /\ ~late[r] => got[r] = Active(rows)

SnapshotInv ==
  /\ late \in [Readers -> BOOLEAN]
  /\ got = [r \in Readers |-> got[r]]
  /\ pc = [w \in Writers |-> pc[w]]
  /\ GotUnlessLate
  /\ SnapshotUnlessLate

LEMMA SnapshotInit == Init => SnapshotInv
  BY DEF Init, SnapshotInv, GotUnlessLate, SnapshotUnlessLate

(* A writer begins: neither the rows nor the snapshot change.              *)
LEMMA BeginSnapshot ==
  ASSUME SnapshotInv, NEW w \in Writers, NEW label, NEW sent, NEW ips, Begin(w, label, sent, ips)
  PROVE  SnapshotInv'
  <1>1. /\ pc' = [pc EXCEPT ![w] = label] /\ pc[w] = "idle"
        /\ UNCHANGED <<rows, snapshot, got, late, stale>>
    BY DEF Begin, readers
  <1>2. GotUnlessLate'
    BY <1>1 DEF SnapshotInv, GotUnlessLate, Active, Ids
  <1>3. SnapshotUnlessLate'
    BY <1>1 DEF SnapshotInv, SnapshotUnlessLate, Active, Ids
  <1> QED
    BY <1>1, <1>2, <1>3 DEF SnapshotInv

(* The rows change: readers that have read them are late, and the snapshot *)
(* is going to be removed.                                                 *)
LEMMA ChangeSnapshot ==
  ASSUME SnapshotInv, NEW w \in Writers, NEW changed, Change(changed),
         UNCHANGED <<got, snapshot, stale>>,
         pc' = [pc EXCEPT ![w] = "invalidate"] \/ (pc[w] = "sync" /\ pc' = pc)
  PROVE  SnapshotInv'
  <1>1. rows' = changed /\ Active(rows)' = Active(changed)
    BY DEF Change, Active, Ids
  <1>2. late' = [r \in Readers |-> late[r] \/ (got[r] # None /\ Active(changed) # Active(rows))]
    BY DEF Change
  <1>3. GotUnlessLate'
    <2> SUFFICES ASSUME NEW r \in Readers, got[r] # None, ~late'[r]
                 PROVE  got[r] = Active(rows)'
      BY DEF GotUnlessLate
    <2>1. ~late[r] /\ Active(changed) = Active(rows)
      BY <1>2
    <2> QED
      BY <1>1, <2>1 DEF SnapshotInv, GotUnlessLate
  <1>4. pc'[w] \in {"sync", "invalidate"} /\ pc' = [v \in Writers |-> pc'[v]]
    BY DEF SnapshotInv
  <1>5. SnapshotUnlessLate'
    BY <1>4 DEF SnapshotUnlessLate
  <1>6. late' \in [Readers -> BOOLEAN]
    BY <1>2 DEF SnapshotInv
  <1> QED
    BY <1>3, <1>4, <1>5, <1>6 DEF SnapshotInv

(* A writer ends, having removed the snapshot, or having changed nothing,  *)
(* or leaving a snapshot that is marked as stale if it is not right.       *)
LEMMA FinishSnapshot ==
  ASSUME SnapshotInv, NEW w \in Writers, Finish(w),
         \/ snapshot' = None
         \/ pc[w] = "write" /\ UNCHANGED <<snapshot, stale>>
         \/ UNCHANGED snapshot /\ stale' = (stale \/ (snapshot # None /\ snapshot # Active(rows)))
  PROVE  SnapshotInv'
  <1>1. UNCHANGED <<rows, got, late>> /\ pc' = [pc EXCEPT ![w] = "idle"]
    BY DEF Finish, tables, readers
  <1>2. Active(rows)' = Active(rows)
    BY <1>1 DEF Active, Ids
  <1>3. GotUnlessLate'
    BY <1>1, <1>2 DEF SnapshotInv, GotUnlessLate
  <1>4. SnapshotUnlessLate'
    BY <1>1, <1>2 DEF SnapshotInv, SnapshotUnlessLate
  <1> QED
    BY <1>1, <1>3, <1>4 DEF SnapshotInv

(* What readers do.                                                        *)
LEMMA ReaderSnapshot ==
  ASSUME SnapshotInv, NEW r \in Readers, Query(r) \/ QueryFails(r) \/ Store(r)
  PROVE  SnapshotInv'
  <1>1. UNCHANGED <<rows, pc>> /\ Active(rows)' = Active(rows)
    BY DEF Query, QueryFails, Store, tables, writers, Active, Ids
  <1>2. CASE Query(r)
    <2>1. /\ snapshot = None /\ UNCHANGED <<snapshot, stale>>
          /\ got' = [got EXCEPT ![r] = Active(replica)]
          /\ late' = [late EXCEPT ![r] = Active(replica) # Active(rows)]
      BY <1>2 DEF Query
    <2>2. GotUnlessLate' /\ SnapshotUnlessLate'
      BY <1>1, <2>1 DEF SnapshotInv, GotUnlessLate, SnapshotUnlessLate
    <2> QED
      BY <1>1, <2>1, <2>2 DEF SnapshotInv
  <1>3. CASE QueryFails(r)
    <2>1. /\ snapshot = None /\ UNCHANGED <<snapshot, stale>>
          /\ got' = [got EXCEPT ![r] = {}]
          /\ late' = [late EXCEPT ![r] = Active(rows) # {}]
      BY <1>3 DEF QueryFails
    <2>2. GotUnlessLate' /\ SnapshotUnlessLate'
      BY <1>1, <2>1 DEF SnapshotInv, GotUnlessLate, SnapshotUnlessLate
    <2> QED
      BY <1>1, <2>1, <2>2 DEF SnapshotInv
  <1>4. CASE Store(r)
    <2>1. /\ got[r] # None /\ snapshot' = got[r] /\ stale' = late[r]
          /\ got' = [got EXCEPT ![r] = None] /\ late' = [late EXCEPT ![r] = FALSE]
      BY <1>4 DEF Store
    <2>2. GotUnlessLate' /\ SnapshotUnlessLate'
      BY <1>1, <2>1 DEF SnapshotInv, GotUnlessLate, SnapshotUnlessLate
    <2> QED
      BY <1>1, <2>1, <2>2 DEF SnapshotInv
  <1> QED
    BY <1>2, <1>3, <1>4

LEMMA SnapshotNext == SnapshotInv /\ [Next]_vars => SnapshotInv'
  <1> SUFFICES ASSUME SnapshotInv, [Next]_vars PROVE SnapshotInv'
    OBVIOUS
  <1>1. ASSUME NEW r \in Readers, Hit(r) \/ Query(r) \/ QueryFails(r) \/ Store(r)
        PROVE  SnapshotInv' \/ UNCHANGED vars
    BY <1>1, ReaderSnapshot DEF Hit
  <1>2. ASSUME NEW w \in Writers, NEW label, NEW sent, NEW ips, Begin(w, label, sent, ips)
        PROVE  SnapshotInv'
    BY <1>2, BeginSnapshot
  <1>3. ASSUME NEW w \in Writers,
               \/ \E ip \in Addresses : CreateFirewallIP(w, ip)
               \/ \E ip \in Addresses, i \in Ids(replica), active \in BOOLEAN :
                    UpdateFirewallIP(w, i, ip, active)
               \/ \E i \in Ids(replica) : DeleteFirewallIP(w, i)
               \/ \E ips \in SUBSET Addresses : Start(w, ips)
        PROVE  SnapshotInv'
    BY <1>2, <1>3 DEF CreateFirewallIP, UpdateFirewallIP, DeleteFirewallIP, Start
  <1>4. ASSUME NEW w \in Writers, Write(w) PROVE SnapshotInv'
    BY <1>4, ChangeSnapshot DEF Write
  <1>5. ASSUME NEW w \in Writers, NEW ip \in todo[w], SyncAddress(w, ip) PROVE SnapshotInv'
    BY <1>5, ChangeSnapshot DEF SyncAddress
  <1>6. ASSUME NEW w \in Writers, SyncStale(w) PROVE SnapshotInv'
    BY <1>6, ChangeSnapshot DEF SyncStale
  <1>7. ASSUME NEW w \in Writers, Refuse(w) \/ Invalidate(w) \/ Crash(w) PROVE SnapshotInv'
    BY <1>7, FinishSnapshot DEF Refuse, Invalidate, Invalidated, Crash
  <1>8. CASE Replicate
    BY <1>8 DEF Replicate, readers, writers, SnapshotInv, GotUnlessLate, SnapshotUnlessLate, Active, Ids
  <1>9. CASE Expire
    BY <1>9 DEF Expire, tables, readers, writers, SnapshotInv, GotUnlessLate, SnapshotUnlessLate,
                Active, Ids
  <1>10. CASE UNCHANGED vars
    BY <1>10 DEF vars, SnapshotInv, GotUnlessLate, SnapshotUnlessLate, Active, Ids
  <1> QED
    BY <1>1, <1>3, <1>4, <1>5, <1>6, <1>7, <1>8, <1>9, <1>10 DEF Next, Sync

(* The snapshot all requests are let in by is what the table says, unless  *)
(* one of them stored it after the rows had changed or its query failed,   *)
(* a writer ended before it could remove it, or one is about to.           *)
THEOREM SnapshotIsRight == Spec => []SnapshotUnlessLate
  <1>1. SnapshotInv => SnapshotUnlessLate
    BY DEF SnapshotInv
  <1> QED
    BY <1>1, SnapshotInit, SnapshotNext, PTL DEF Spec

(***************************************************************************)
(* Rows added by hand.                                                     *)
(***************************************************************************)
Table == Seq(Row \union {None})

Form ==
  [op : {"create"}, ip : Addresses]
    \union [op : {"update"}, id : Nat, ip : Addresses, move : BOOLEAN, active : BOOLEAN]
    \union [op : {"delete"}, id : Nat]

(* What the replica knows of a row that is still there: once it is from    *)
(* the environment it stays so, and once deleted it is restored only as    *)
(* such.                                                                   *)
Origin ==
  /\ Len(replica) <= Len(rows)
  /\ \A i \in Ids(replica) \intersect Ids(rows) :
       /\ replica[i].source = "env" => rows[i].source = "env"
       /\ ~replica[i].live /\ rows[i].live => rows[i].source = "env"

RowsInv ==
  /\ rows \in Table
  /\ replica \in Table
  /\ pc \in [Writers -> {"idle", "write", "sync", "invalidate"}]
  /\ todo \in [Writers -> SUBSET Addresses]
  /\ form = [w \in Writers |-> form[w]]
  /\ \A w \in Writers : pc[w] = "write" => form[w] \in Form
  /\ Origin

LEMMA IdsOfTable ==
  ASSUME NEW db \in Table
  PROVE  Ids(db) \subseteq 1 .. Len(db) /\ \A i \in Ids(db) : db[i] \in Row
  BY DEF Table, Ids

LEMMA RowsInit == ASSUME Addresses # {} PROVE Init => RowsInv
  <1> SUFFICES ASSUME Init PROVE RowsInv
    OBVIOUS
  <1>1. (CHOOSE a \in Addresses : TRUE) \in Addresses
    OBVIOUS
  <1>2. rows \in Table /\ replica = rows
    <2>1. CASE rows = <<>>
      BY <2>1 DEF Init, Table
    <2>2. CASE rows # <<>>
      <3>1. PICK live \in BOOLEAN :
              rows = <<[ip |-> CHOOSE a \in Addresses : TRUE, source |-> "manual", active |-> TRUE,
                        live |-> live]>>
        BY <2>2 DEF Init
      <3> QED
        BY <1>1, <3>1 DEF Init, Table, Row
    <2> QED
      BY <2>1, <2>2
  <1>3. Origin
    BY <1>2 DEF Origin, Table, Ids
  <1> QED
    BY <1>2, <1>3 DEF Init, RowsInv

(* A writer begins.                                                        *)
LEMMA BeginRows ==
  ASSUME RowsInv, NEW w \in Writers, NEW label \in {"write", "sync", "invalidate"}, NEW sent,
         label = "write" => sent \in Form, NEW ips \in SUBSET Addresses, Begin(w, label, sent, ips)
  PROVE  RowsInv'
  <1>1. /\ UNCHANGED <<rows, replica>>
        /\ pc' = [pc EXCEPT ![w] = label]
        /\ form' = [form EXCEPT ![w] = sent]
        /\ todo' = [todo EXCEPT ![w] = ips]
    BY DEF Begin
  <1>2. Origin'
    BY <1>1 DEF RowsInv, Origin, Ids
  <1> QED
    BY <1>1, <1>2 DEF RowsInv

(* A table in which no row of the environment has become a manual one, and *)
(* none has come back as one.                                              *)
Keeps(changed) ==
  /\ changed \in Table
  /\ Len(rows) <= Len(changed)
  /\ \A i \in Ids(changed) : i <= Len(rows) =>
       /\ i \in Ids(rows)
       /\ rows[i].source = "env" => changed[i].source = "env"
       /\ changed[i].live /\ ~rows[i].live => changed[i].source = "env"

LEMMA KeepsOrigin ==
  ASSUME RowsInv, Keeps(rows'), replica' = replica
  PROVE  Origin'
  <1>1. Len(replica) \in Nat /\ Len(rows) \in Nat /\ Len(rows') \in Nat
    BY DEF RowsInv, Table, Keeps
  <1>2. Len(replica) <= Len(rows')
    BY <1>1 DEF RowsInv, Origin, Keeps
  <1> SUFFICES ASSUME NEW i \in Ids(replica) \intersect Ids(rows')
               PROVE  /\ replica[i].source = "env" => rows'[i].source = "env"
                      /\ ~replica[i].live /\ rows'[i].live => rows'[i].source = "env"
    BY <1>2 DEF Origin, Ids
  <1>3. i <= Len(rows)
    BY <1>1 DEF RowsInv, Origin, Ids
  <1>4. i \in Ids(rows)
    BY <1>3 DEF Keeps
  <1>5. /\ replica[i].source = "env" => rows[i].source = "env"
        /\ ~replica[i].live /\ rows[i].live => rows[i].source = "env"
    BY <1>4 DEF RowsInv, Origin
  <1> QED
    BY <1>3, <1>4, <1>5 DEF Keeps

LEMMA SameKeeps == ASSUME RowsInv PROVE Keeps(rows)
  BY DEF RowsInv, Keeps, Table, Ids

LEMMA AppendKeeps ==
  ASSUME RowsInv, NEW row \in Row
  PROVE  Keeps(Append(rows, row))
  <1> DEFINE E == Row \union {None}
             changed == Append(rows, row)
  <1>1. rows \in Seq(E) /\ row \in E
    BY DEF RowsInv, Table
  <1> HIDE DEF E
  <1>2. /\ changed \in Seq(E) /\ Len(changed) = Len(rows) + 1 /\ Len(rows) \in Nat
        /\ \A i \in 1 .. Len(rows) : changed[i] = rows[i]
    BY <1>1, AppendProperties
  <1>3. changed \in Table
    BY <1>2 DEF E, Table
  <1> HIDE DEF changed
  <1>4. \A i \in Ids(changed) : i <= Len(rows) => i \in Ids(rows) /\ changed[i] = rows[i]
    BY <1>2 DEF Ids
  <1>5. \A i \in Ids(changed) : i <= Len(rows) =>
          /\ rows[i].source = "env" => changed[i].source = "env"
          /\ ~(changed[i].live /\ ~rows[i].live)
    BY <1>4
  <1>6. Keeps(changed)
    BY <1>2, <1>3, <1>4, <1>5 DEF Keeps
  <1> QED
    BY <1>6 DEF changed

LEMMA ReplaceKeeps ==
  ASSUME RowsInv, NEW id \in Ids(rows), NEW row \in Row,
         rows[id].source = "env" => row.source = "env",
         row.live /\ ~rows[id].live => row.source = "env"
  PROVE  Keeps([rows EXCEPT ![id] = row])
  <1> DEFINE E == Row \union {None}
             changed == [rows EXCEPT ![id] = row]
  <1>1. rows \in Seq(E) /\ row \in E /\ id \in 1 .. Len(rows)
    BY DEF RowsInv, Table, Ids
  <1> HIDE DEF E
  <1>2. /\ changed \in Seq(E) /\ Len(changed) = Len(rows) /\ Len(rows) \in Nat
        /\ \A i \in 1 .. Len(rows) : changed[i] = IF i = id THEN row ELSE rows[i]
    BY <1>1, ExceptSeq, LenProperties
  <1>3. changed \in Table
    BY <1>2 DEF E, Table
  <1> HIDE DEF changed
  <1>4. \A i \in Ids(changed) : i \in Ids(rows)
    BY <1>2 DEF Ids
  <1>5. \A i \in Ids(changed) :
          /\ rows[i].source = "env" => changed[i].source = "env"
          /\ changed[i].live /\ ~rows[i].live => changed[i].source = "env"
    BY <1>2 DEF Ids
  <1>6. Keeps(changed)
    BY <1>2, <1>3, <1>4, <1>5 DEF Keeps
  <1> QED
    BY <1>6 DEF changed

LEMMA WrittenKeeps ==
  ASSUME RowsInv, NEW f \in Form
  PROVE  Keeps(Written(f))
  <1>1. CASE f.op = "create"
    <2>1. Written(f) = Append(rows, NewRow(f.ip, "manual")) /\ NewRow(f.ip, "manual") \in Row
      BY <1>1 DEF Written, Form, NewRow, Row
    <2> QED
      BY <2>1, AppendKeeps
  <1>2. CASE f.op # "create" /\ (f.id \notin Ids(rows) \/ ~rows[f.id].live)
    BY <1>2, SameKeeps DEF Written
  <1>3. CASE f.op = "delete" /\ f.id \in Ids(rows) /\ rows[f.id].live
    <2> DEFINE row == [rows[f.id] EXCEPT !.live = FALSE]
    <2>1. rows[f.id] \in Row
      BY <1>3, IdsOfTable DEF RowsInv
    <2>2. row \in Row /\ row.source = rows[f.id].source /\ ~row.live
      BY <2>1 DEF Row
    <2>3. Written(f) = [rows EXCEPT ![f.id] = row]
      BY <1>3 DEF Written
    <2> HIDE DEF row
    <2> QED
      BY <1>3, <2>2, <2>3, ReplaceKeeps
  <1>4. CASE f.op = "update" /\ f.id \in Ids(rows) /\ rows[f.id].live
    <2> DEFINE row == [rows[f.id] EXCEPT !.ip = IF f.move THEN f.ip ELSE @, !.active = f.active]
    <2>1. rows[f.id] \in Row /\ f.id \in 1 .. Len(rows)
      BY <1>4, IdsOfTable DEF RowsInv
    <2>2. f.ip \in Addresses /\ f.active \in BOOLEAN
      BY <1>4 DEF Form
    <2>3. row \in Row /\ row.source = rows[f.id].source /\ row.live = rows[f.id].live
      BY <2>1, <2>2 DEF Row
    <2>4. Written(f) = [rows EXCEPT ![f.id].ip = IF f.move THEN f.ip ELSE @,
                                    ![f.id].active = f.active]
      BY <1>4 DEF Written
    <2>5. Written(f) = [rows EXCEPT ![f.id] = row]
      BY <2>1, <2>4 DEF Row, RowsInv, Table
    <2> HIDE DEF row
    <2> QED
      BY <1>4, <2>3, <2>5, ReplaceKeeps
  <1> QED
    BY <1>1, <1>2, <1>3, <1>4 DEF Form

(* A step of a start, and what it leaves alone.                            *)
LEMMA SyncAddressKeeps ==
  ASSUME RowsInv, NEW w \in Writers, NEW ip \in todo[w], SyncAddress(w, ip)
  PROVE  /\ Keeps(rows')
         /\ \A i \in Ids(rows) : rows[i].source = "manual" /\ rows[i].live => rows'[i] = rows[i]
  <1> DEFINE there == {i \in Ids(replica) : replica[i].ip = ip}
             restored == {i \in there \intersect Ids(rows) : TakenOver(replica[i])}
             changed == [i \in 1 .. Len(rows) |->
                           IF i \in restored
                           THEN [rows[i] EXCEPT !.source = "env", !.active = TRUE, !.live = TRUE]
                           ELSE rows[i]]
  <1>1. \/ rows' = rows
        \/ rows' = Append(rows, NewRow(ip, "env"))
        \/ rows' = changed
    BY DEF SyncAddress, Change
  <1>2. CASE rows' = rows
    BY <1>2, SameKeeps
  <1>3. CASE rows' = Append(rows, NewRow(ip, "env"))
    <2>1. NewRow(ip, "env") \in Row
      BY DEF RowsInv, NewRow, Row
    <2>2. Keeps(rows')
      BY <1>3, <2>1, AppendKeeps
    <2>3. \A i \in 1 .. Len(rows) : rows'[i] = rows[i]
      <3> DEFINE E == Row \union {None}
      <3>1. rows \in Seq(E) /\ NewRow(ip, "env") \in E
        BY <2>1 DEF RowsInv, Table
      <3> HIDE DEF E
      <3> QED
        BY <1>3, <3>1, AppendProperties
    <2> QED
      BY <2>2, <2>3 DEF Ids
  <1>4. CASE rows' = changed
    <2>1. /\ Len(rows) \in Nat
          /\ \A i \in 1 .. Len(rows) : rows[i] \in Row \union {None}
      BY DEF RowsInv, Table
    <2>2. \A i \in restored : rows[i] \in Row /\ ~replica[i].live /\ i \in 1 .. Len(rows)
      BY IdsOfTable DEF RowsInv, TakenOver
    <2>3. \A i \in restored : /\ changed[i] \in Row /\ changed[i].source = "env"
                              /\ ~(rows[i].source = "manual" /\ rows[i].live)
      BY <2>2 DEF Row, RowsInv, Origin
    <2>4. \A i \in 1 .. Len(rows) : i \notin restored => changed[i] = rows[i]
      OBVIOUS
    <2>5. \A i \in 1 .. Len(rows) : changed[i] \in Row \union {None}
      BY <2>1, <2>3, <2>4
    <2>6. restored \subseteq Ids(rows)
      OBVIOUS
    <2>7. changed = [i \in 1 .. Len(rows) |-> changed[i]]
      OBVIOUS
    <2> HIDE DEF restored, changed
    <2>8. changed \in Table /\ Len(changed) = Len(rows)
      BY <2>1, <2>5, <2>7 DEF Table
    <2>9. \A i \in Ids(changed) :
            /\ i \in Ids(rows)
            /\ rows[i].source = "env" => changed[i].source = "env"
            /\ changed[i].live /\ ~rows[i].live => changed[i].source = "env"
      BY <2>3, <2>4, <2>6, <2>8 DEF Ids
    <2>10. Keeps(changed)
      BY <2>1, <2>8, <2>9 DEF Keeps
    <2>11. \A i \in Ids(rows) : rows[i].source = "manual" /\ rows[i].live => changed[i] = rows[i]
      BY <2>3, <2>4 DEF Ids
    <2> QED
      BY <1>4, <2>10, <2>11
  <1> QED
    BY <1>1, <1>2, <1>3, <1>4

LEMMA SyncStaleKeeps ==
  ASSUME RowsInv, NEW w \in Writers, SyncStale(w)
  PROVE  /\ Keeps(rows')
         /\ \A i \in Ids(rows) : rows[i].source = "manual" /\ rows[i].live => rows'[i] = rows[i]
  <1> DEFINE old == {i \in Ids(replica) : replica[i].source = "env" /\ replica[i].ip \notin env[w]}
             changed == [i \in 1 .. Len(rows) |-> IF i \in old THEN None ELSE rows[i]]
  <1>1. rows' = changed
    BY DEF SyncStale, Change
  <1>2. /\ Len(rows) \in Nat
        /\ \A i \in 1 .. Len(rows) : rows[i] \in Row \union {None}
    BY DEF RowsInv, Table
  <1>3. \A i \in 1 .. Len(rows) : changed[i] = IF i \in old THEN None ELSE rows[i]
    OBVIOUS
  <1>4. \A i \in old \intersect Ids(rows) : rows[i].source = "env"
    BY DEF RowsInv, Origin
  <1>5. changed = [i \in 1 .. Len(rows) |-> changed[i]]
    OBVIOUS
  <1> HIDE DEF old, changed
  <1>6. changed \in Table /\ Len(changed) = Len(rows)
    BY <1>2, <1>3, <1>5 DEF Table
  <1>7. \A i \in Ids(changed) : i \in Ids(rows) /\ changed[i] = rows[i]
    BY <1>3, <1>6 DEF Ids
  <1>8. Keeps(changed)
    BY <1>2, <1>6, <1>7 DEF Keeps
  <1>9. \A i \in Ids(rows) : rows[i].source = "manual" => changed[i] = rows[i]
    BY <1>3, <1>4 DEF Ids
  <1> QED
    BY <1>1, <1>8, <1>9

LEMMA RowsNext == RowsInv /\ [Next]_vars => RowsInv'
  <1> SUFFICES ASSUME RowsInv, [Next]_vars PROVE RowsInv'
    OBVIOUS
  <1>1. CASE UNCHANGED <<rows, replica, pc, form, todo>>
    BY <1>1 DEF RowsInv, Origin, Ids
  <1>2. ASSUME NEW r \in Readers, Hit(r) \/ Query(r) \/ QueryFails(r) \/ Store(r) PROVE RowsInv'
    BY <1>1, <1>2 DEF Hit, Query, QueryFails, Store, tables, writers, vars
  <1>3. ASSUME NEW w \in Writers, NEW ip \in Addresses, CreateFirewallIP(w, ip) PROVE RowsInv'
    <2>1. [op |-> "create", ip |-> ip] \in Form
      BY DEF Form
    <2> QED
      BY <1>3, <2>1, BeginRows DEF CreateFirewallIP
  <1>4. ASSUME NEW w \in Writers, NEW i \in Ids(replica),
               \/ DeleteFirewallIP(w, i)
               \/ \E ip \in Addresses, active \in BOOLEAN : UpdateFirewallIP(w, i, ip, active)
        PROVE  RowsInv'
    <2>1. i \in Nat
      BY DEF Ids, RowsInv, Table
    <2>2. CASE DeleteFirewallIP(w, i)
      <3>1. [op |-> "delete", id |-> i] \in Form
        BY <2>1 DEF Form
      <3> QED
        BY <2>2, <3>1, BeginRows DEF DeleteFirewallIP
    <2>3. ASSUME NEW ip \in Addresses, NEW active \in BOOLEAN, UpdateFirewallIP(w, i, ip, active)
          PROVE  RowsInv'
      <3> DEFINE sent == [op |-> "update", id |-> i, ip |-> ip, move |-> ip # replica[i].ip,
                          active |-> active]
      <3>1. (ip # replica[i].ip) \in BOOLEAN
        OBVIOUS
      <3>2. sent \in Form
        BY <2>1, <3>1 DEF Form
      <3>3. Begin(w, "write", sent, {})
        BY <2>3 DEF UpdateFirewallIP
      <3> HIDE DEF sent
      <3> QED
        BY <3>2, <3>3, BeginRows
    <2> QED
      BY <1>4, <2>2, <2>3
  <1>5. ASSUME NEW w \in Writers, NEW ips \in SUBSET Addresses, Start(w, ips) PROVE RowsInv'
    BY <1>5, BeginRows DEF Start
  <1>6. ASSUME NEW w \in Writers, Write(w) PROVE RowsInv'
    <2>1. /\ rows' = Written(form[w]) /\ form[w] \in Form
          /\ pc' = [pc EXCEPT ![w] = "invalidate"]
          /\ UNCHANGED <<replica, form, todo>>
      BY <1>6 DEF Write, Change, RowsInv
    <2>2. Keeps(rows')
      BY <2>1, WrittenKeeps
    <2> QED
      BY <2>1, <2>2, KeepsOrigin DEF Keeps, RowsInv
  <1>7. ASSUME NEW w \in Writers, NEW ip \in todo[w], SyncAddress(w, ip) PROVE RowsInv'
    <2>1. Keeps(rows')
      BY <1>7, SyncAddressKeeps
    <2>2. UNCHANGED <<replica, pc, form>> /\ todo' = [todo EXCEPT ![w] = @ \ {ip}]
      BY <1>7 DEF SyncAddress
    <2> QED
      BY <2>1, <2>2, KeepsOrigin DEF Keeps, RowsInv
  <1>8. ASSUME NEW w \in Writers, SyncStale(w) PROVE RowsInv'
    <2>1. Keeps(rows')
      BY <1>8, SyncStaleKeeps
    <2>2. UNCHANGED <<replica, form, todo>> /\ pc' = [pc EXCEPT ![w] = "invalidate"]
      BY <1>8 DEF SyncStale
    <2> QED
      BY <2>1, <2>2, KeepsOrigin DEF Keeps, RowsInv
  <1>9. ASSUME NEW w \in Writers, Refuse(w) \/ Invalidate(w) \/ Crash(w) PROVE RowsInv'
    <2>1. /\ UNCHANGED <<rows, replica>>
          /\ pc' = [pc EXCEPT ![w] = "idle"]
          /\ form' = [form EXCEPT ![w] = None]
          /\ todo' = [todo EXCEPT ![w] = {}]
      BY <1>9 DEF Refuse, Invalidate, Crash, Finish, tables
    <2>2. Origin'
      BY <2>1 DEF RowsInv, Origin, Ids
    <2> QED
      BY <2>1, <2>2 DEF RowsInv
  <1>10. CASE Replicate
    <2>1. replica' = rows /\ UNCHANGED <<rows, pc, form, todo>>
      BY <1>10 DEF Replicate, writers
    <2>2. Origin'
      BY <2>1 DEF RowsInv, Origin, Ids, Table
    <2> QED
      BY <2>1, <2>2 DEF RowsInv
  <1>11. CASE Expire \/ UNCHANGED vars
    BY <1>1, <1>11 DEF Expire, tables, writers, vars
  <1> QED
    BY <1>2, <1>3, <1>4, <1>5, <1>6, <1>7, <1>8, <1>9, <1>10, <1>11 DEF Next, Sync

(* However old the replica a start goes by: rows that were added by hand   *)
(* and not deleted keep their address, source and state.                   *)
THEOREM ManualRowsKept == ASSUME Addresses # {} PROVE Spec => ManualKept
  <1> DEFINE Untouched == \A w \in Writers : Sync(w) =>
               \A i \in Ids(rows) : rows[i].source = "manual" /\ rows[i].live => rows'[i] = rows[i]
  <1>1. RowsInv => Untouched
    BY SyncAddressKeeps, SyncStaleKeeps DEF Sync
  <1>2. RowsInv /\ [Next]_vars => [Untouched]_vars
    BY <1>1
  <1> QED
    BY <1>2, RowsInit, RowsNext, PTL DEF Spec, ManualKept

(***************************************************************************)
(* The types of the firewall's state.                                      *)
(***************************************************************************)

(* The unique index of the addresses.                                      *)
Unique(db) == \A i, j \in Ids(db) : db[i].ip = db[j].ip => i = j

(* What the invariants above do not speak of.                              *)
FirewallTypes ==
  /\ Unique(rows)
  /\ snapshot # None => snapshot \subseteq Addresses
  /\ \A r \in Readers : got[r] # None => got[r] \subseteq Addresses
  /\ stale \in BOOLEAN
  /\ env \in [Writers -> SUBSET Addresses]
  /\ \A w \in Writers : todo[w] \subseteq env[w]

(* Rows that are active have addresses.                                    *)
LEMMA ActiveTyped == ASSUME NEW db \in Table PROVE Active(db) \subseteq Addresses
  BY IdsOfTable DEF Active, Row

(* Rows stay as they are or go.                                            *)
LEMMA FewerUnique ==
  ASSUME Unique(rows), NEW changed,
         \A i \in Ids(changed) : i \in Ids(rows) /\ changed[i].ip = rows[i].ip
  PROVE  Unique(changed)
  BY DEF Unique

(* A row is added with an address that no row has.                         *)
LEMMA AppendUnique ==
  ASSUME RowsInv, Unique(rows), NEW row \in Row, ~Indexed(row.ip, 0)
  PROVE  Unique(Append(rows, row))
  <1> DEFINE E == Row \union {None}
             changed == Append(rows, row)
  <1>1. rows \in Seq(E) /\ row \in E
    BY DEF RowsInv, Table
  <1> HIDE DEF E
  <1>2. /\ changed \in Seq(E) /\ Len(changed) = Len(rows) + 1 /\ Len(rows) \in Nat
        /\ changed[Len(rows) + 1] = row
        /\ \A i \in 1 .. Len(rows) : changed[i] = rows[i]
    BY <1>1, AppendProperties
  <1>3. \A i \in Ids(rows) : rows[i].ip # row.ip
    BY <1>2 DEF Indexed, Ids
  <1> HIDE DEF changed
  <1>4. \A i \in Ids(changed) :
          \/ i = Len(rows) + 1 /\ changed[i] = row
          \/ i \in Ids(rows) /\ changed[i] = rows[i]
    BY <1>2 DEF Ids
  <1>5. Unique(changed)
    BY <1>3, <1>4 DEF Unique
  <1> QED
    BY <1>5 DEF changed

(* A row keeps its address, or is given one that no other row has.         *)
LEMMA ReplaceUnique ==
  ASSUME RowsInv, Unique(rows), NEW id \in Ids(rows), NEW row \in Row,
         row.ip = rows[id].ip \/ ~Indexed(row.ip, id)
  PROVE  Unique([rows EXCEPT ![id] = row])
  <1> DEFINE E == Row \union {None}
             changed == [rows EXCEPT ![id] = row]
  <1>1. rows \in Seq(E) /\ row \in E /\ id \in 1 .. Len(rows)
    BY DEF RowsInv, Table, Ids
  <1> HIDE DEF E
  <1>2. /\ Len(changed) = Len(rows)
        /\ \A i \in 1 .. Len(rows) : changed[i] = IF i = id THEN row ELSE rows[i]
    BY <1>1, ExceptSeq, LenProperties
  <1> HIDE DEF changed
  <1>3. \A i \in Ids(changed) : i \in Ids(rows) /\ changed[i] = IF i = id THEN row ELSE rows[i]
    BY <1>2 DEF Ids
  <1>4. \A i \in Ids(rows) \ {id} : rows[i].ip # row.ip
    BY DEF Indexed, Unique
  <1>5. Unique(changed)
    BY <1>3, <1>4 DEF Unique
  <1> QED
    BY <1>5 DEF changed

(* A handler's write: the index has let it through.                        *)
LEMMA WrittenUnique ==
  ASSUME RowsInv, Unique(rows), NEW f \in Form, ~Refused(f)
  PROVE  Unique(Written(f))
  <1>1. CASE f.op = "create"
    <2>1. /\ Written(f) = Append(rows, NewRow(f.ip, "manual"))
          /\ NewRow(f.ip, "manual") \in Row /\ NewRow(f.ip, "manual").ip = f.ip
          /\ ~Indexed(f.ip, 0)
      BY <1>1 DEF Written, Form, NewRow, Row, Refused
    <2> QED
      BY <2>1, AppendUnique
  <1>2. CASE f.op # "create" /\ (f.id \notin Ids(rows) \/ ~rows[f.id].live)
    BY <1>2 DEF Written
  <1>3. CASE f.op = "delete" /\ f.id \in Ids(rows) /\ rows[f.id].live
    <2> DEFINE row == [rows[f.id] EXCEPT !.live = FALSE]
    <2>1. rows[f.id] \in Row
      BY <1>3, IdsOfTable DEF RowsInv
    <2>2. row \in Row /\ row.ip = rows[f.id].ip
      BY <2>1 DEF Row
    <2>3. Written(f) = [rows EXCEPT ![f.id] = row]
      BY <1>3 DEF Written
    <2> HIDE DEF row
    <2> QED
      BY <1>3, <2>2, <2>3, ReplaceUnique
  <1>4. CASE f.op = "update" /\ f.id \in Ids(rows) /\ rows[f.id].live
    <2> DEFINE row == [rows[f.id] EXCEPT !.ip = IF f.move THEN f.ip ELSE @, !.active = f.active]
    <2>1. rows[f.id] \in Row /\ f.id \in 1 .. Len(rows)
      BY <1>4, IdsOfTable DEF RowsInv
    <2>2. f.ip \in Addresses /\ f.active \in BOOLEAN /\ (f.move => ~Indexed(f.ip, f.id))
      BY <1>4 DEF Form, Refused
    <2>3. row \in Row /\ (row.ip = rows[f.id].ip \/ ~Indexed(row.ip, f.id))
      BY <2>1, <2>2 DEF Row
    <2>4. Written(f) = [rows EXCEPT ![f.id].ip = IF f.move THEN f.ip ELSE @,
                                    ![f.id].active = f.active]
      BY <1>4 DEF Written
    <2>5. Written(f) = [rows EXCEPT ![f.id] = row]
      BY <2>1, <2>4 DEF Row, RowsInv, Table
    <2> HIDE DEF row
    <2> QED
      BY <1>4, <2>3, <2>5, ReplaceUnique
  <1> QED
    BY <1>1, <1>2, <1>3, <1>4 DEF Form

(* A step of a start.                                                      *)
LEMMA SyncUnique ==
  ASSUME RowsInv, Unique(rows), NEW w \in Writers,
         (\E ip \in todo[w] : SyncAddress(w, ip)) \/ SyncStale(w)
  PROVE  Unique(rows')
  <1>1. /\ Len(rows) \in Nat
        /\ \A i \in Ids(rows) : i \in 1 .. Len(rows) /\ rows[i] \in Row
    BY IdsOfTable DEF RowsInv, Table
  <1>2. ASSUME NEW ip \in todo[w], SyncAddress(w, ip) PROVE Unique(rows')
    <2> DEFINE there == {i \in Ids(replica) : replica[i].ip = ip}
               restored == {i \in there \intersect Ids(rows) : TakenOver(replica[i])}
               changed == [i \in 1 .. Len(rows) |->
                             IF i \in restored
                             THEN [rows[i] EXCEPT !.source = "env", !.active = TRUE, !.live = TRUE]
                             ELSE rows[i]]
    <2>1. \/ rows' = rows
          \/ rows' = Append(rows, NewRow(ip, "env")) /\ ~Indexed(ip, 0)
          \/ rows' = changed
      BY <1>2 DEF SyncAddress, Change
    <2>2. NewRow(ip, "env") \in Row /\ NewRow(ip, "env").ip = ip
      BY DEF RowsInv, NewRow, Row
    <2>3. Unique(changed)
      <3>1. restored \subseteq Ids(rows)
        OBVIOUS
      <3>2. Len(changed) = Len(rows)
        BY <1>1
      <3>3. \A i \in restored : changed[i].ip = rows[i].ip
        BY <1>1, <3>1 DEF Row
      <3>4. \A i \in 1 .. Len(rows) : i \notin restored => changed[i] = rows[i]
        OBVIOUS
      <3> HIDE DEF restored, changed
      <3>5. \A i \in Ids(changed) : i \in Ids(rows) /\ changed[i].ip = rows[i].ip
        BY <3>1, <3>2, <3>3, <3>4 DEF Ids
      <3> QED
        BY <3>5, FewerUnique
    <2> QED
      BY <2>1, <2>2, <2>3, AppendUnique
  <1>3. CASE SyncStale(w)
    <2> DEFINE old == {i \in Ids(replica) : replica[i].source = "env" /\ replica[i].ip \notin env[w]}
               changed == [i \in 1 .. Len(rows) |-> IF i \in old THEN None ELSE rows[i]]
    <2>1. rows' = changed
      BY <1>3 DEF SyncStale, Change
    <2>2. Len(changed) = Len(rows)
      BY <1>1
    <2>3. \A i \in 1 .. Len(rows) : changed[i] = IF i \in old THEN None ELSE rows[i]
      OBVIOUS
    <2> HIDE DEF old, changed
    <2>4. \A i \in Ids(changed) : i \in Ids(rows) /\ changed[i].ip = rows[i].ip
      BY <2>2, <2>3 DEF Ids
    <2> QED
      BY <2>1, <2>4, FewerUnique
  <1> QED
    BY <1>2, <1>3

(* All that is kept about the firewall.                                    *)
FirewallInv == SnapshotInv /\ RowsInv /\ FirewallTypes

LEMMA FirewallInit == ASSUME Addresses # {} PROVE Init => FirewallInv
  <1> SUFFICES ASSUME Init PROVE FirewallTypes
    BY SnapshotInit, RowsInit DEF FirewallInv
  <1>1. Ids(rows) \subseteq {1}
    BY DEF Init, Ids
  <1> QED
    BY <1>1 DEF Init, FirewallTypes, Unique

LEMMA FirewallNext == FirewallInv /\ [Next]_vars => FirewallInv'
  <1> SUFFICES ASSUME FirewallInv, [Next]_vars PROVE FirewallTypes'
    BY SnapshotNext, RowsNext DEF FirewallInv
  <1> USE DEF FirewallInv, FirewallTypes
  <1>1. rows \in Table /\ replica \in Table
    BY DEF RowsInv
  <1>2. /\ got = [r \in Readers |-> got[r]] /\ late \in [Readers -> BOOLEAN]
        /\ todo \in [Writers -> SUBSET Addresses]
    BY DEF SnapshotInv, RowsInv
  <1>3. ASSUME NEW r \in Readers, Hit(r) \/ Query(r) \/ QueryFails(r) \/ Store(r)
        PROVE  FirewallTypes'
    <2>1. UNCHANGED <<rows, env, todo>>
      BY <1>3 DEF Hit, Query, QueryFails, Store, tables, writers, vars
    <2>2. Unique(rows)'
      BY <2>1 DEF Unique, Ids
    <2>3. CASE Hit(r)
      BY <2>1, <2>2, <2>3 DEF Hit, vars
    <2>4. CASE Query(r)
      BY <1>1, <1>2, <2>1, <2>2, <2>4, ActiveTyped DEF Query
    <2>5. CASE QueryFails(r)
      BY <1>2, <2>1, <2>2, <2>5 DEF QueryFails
    <2>6. CASE Store(r)
      BY <1>2, <2>1, <2>2, <2>6 DEF Store
    <2> QED
      BY <1>3, <2>3, <2>4, <2>5, <2>6
  <1>4. ASSUME NEW w \in Writers, NEW label, NEW sent, NEW ips \in SUBSET Addresses,
               Begin(w, label, sent, ips)
        PROVE  FirewallTypes'
    <2>1. /\ UNCHANGED <<rows, snapshot, got, stale>>
          /\ env' = [env EXCEPT ![w] = ips] /\ todo' = [todo EXCEPT ![w] = ips]
      BY <1>4 DEF Begin, readers
    <2>2. Unique(rows)'
      BY <2>1 DEF Unique, Ids
    <2> QED
      BY <1>2, <2>1, <2>2
  <1>5. ASSUME NEW w \in Writers,
               \/ \E ip \in Addresses : CreateFirewallIP(w, ip)
               \/ \E ip \in Addresses, i \in Ids(replica), active \in BOOLEAN :
                    UpdateFirewallIP(w, i, ip, active)
               \/ \E i \in Ids(replica) : DeleteFirewallIP(w, i)
               \/ \E ips \in SUBSET Addresses : Start(w, ips)
        PROVE  FirewallTypes'
    <2>1. {} \in SUBSET Addresses
      OBVIOUS
    <2>2. \E label, sent : \E ips \in SUBSET Addresses : Begin(w, label, sent, ips)
      BY <1>5, <2>1 DEF CreateFirewallIP, UpdateFirewallIP, DeleteFirewallIP, Start
    <2> HIDE DEF FirewallTypes
    <2> QED
      BY <1>4, <2>2
  <1>6. ASSUME NEW w \in Writers, Write(w) PROVE FirewallTypes'
    <2>1. /\ UNCHANGED <<snapshot, got, stale, env, todo>>
          /\ rows' = Written(form[w]) /\ form[w] \in Form /\ ~Refused(form[w])
      BY <1>6 DEF Write, Change, RowsInv
    <2>2. Unique(rows')
      BY <2>1, WrittenUnique
    <2> QED
      BY <2>1, <2>2 DEF Unique, Ids
  <1>7. ASSUME NEW w \in Writers, Sync(w) PROVE FirewallTypes'
    <2>1. Unique(rows')
      BY <1>7, SyncUnique DEF Sync
    <2>2. UNCHANGED <<snapshot, got, stale, env>> /\ \A v \in Writers : todo'[v] \subseteq todo[v]
      BY <1>2, <1>7 DEF Sync, SyncAddress, SyncStale
    <2> QED
      BY <2>1, <2>2 DEF Unique, Ids
  <1>8. ASSUME NEW w \in Writers, Refuse(w) \/ Invalidate(w) \/ Crash(w) PROVE FirewallTypes'
    <2>1. /\ UNCHANGED <<rows, got>>
          /\ env' = [env EXCEPT ![w] = {}] /\ todo' = [todo EXCEPT ![w] = {}]
      BY <1>8 DEF Refuse, Invalidate, Crash, Finish, tables, readers
    <2>2. (snapshot' = None \/ snapshot' = snapshot) /\ stale' \in BOOLEAN
      BY <1>8 DEF Refuse, Invalidate, Invalidated, Crash
    <2>3. Unique(rows)'
      BY <2>1 DEF Unique, Ids
    <2> QED
      BY <1>2, <2>1, <2>2, <2>3
  <1>9. CASE Replicate \/ Expire \/ UNCHANGED vars
    <2>1. /\ UNCHANGED <<rows, got, env, todo>>
          /\ snapshot' = None \/ snapshot' = snapshot
          /\ stale' \in BOOLEAN
      BY <1>9 DEF Replicate, Expire, vars, tables, readers, writers
    <2>2. Unique(rows)'
      BY <2>1 DEF Unique, Ids
    <2> QED
      BY <2>1, <2>2
  <1> QED
    BY <1>3, <1>5, <1>6, <1>7, <1>8, <1>9 DEF Next

(***************************************************************************)
(* The images.                                                             *)
(***************************************************************************)
ImagesSane == None \notin Images \union {"new", "old"} /\ Job \notin Callers

(***************************************************************************)
(* The inductive invariant.                                                *)
(***************************************************************************)
ImageTypes ==
  /\ stored \in [Images -> {"new", "old", None}]
  /\ trash \in [Images -> SUBSET {"recent", "expired"}]
  /\ imageUrl \in [Products -> Images \union {None}]
  /\ candidates \subseteq Images
  /\ moving \in [I!Movers -> Images \union {None}]
  /\ copied \subseteq {m \in I!Movers : moving[m] # None}

(* Nothing is moved that a product refers to, unless it is outrun.         *)
MovesAreUnused ==
  \A m \in I!Movers : moving[m] \in Images /\ moving[m] \in I!Used(imageUrl) => moving[m] \in outrun

RemovedByHandlers == \A r \in Callers : moving[r] \in Images => moving[r] \in outrun

(* What the job moves or is to move was more than a day old when listed.   *)
JobMovesOld ==
  \A i \in Images : i \in candidates \/ moving[Job] = i => inStorage # None /\ inStorage[i] = "old"

(* An image that was listed has been uploaded, and never is again: one     *)
(* that was a day old then is so now.                                      *)
ListedIsKnown ==
  inStorage # None => \A i \in Images : inStorage[i] # None =>
    /\ stored[i] # None \/ trash[i] # {} \/ i \in vacuumed
    /\ inStorage[i] = "old" => stored[i] # "new"

CopyIsThere == \A m \in copied : "recent" \in trash[moving[m]]

ImagesInv ==
  /\ ImageTypes
  /\ I!ImageKept
  /\ MovesAreUnused
  /\ RemovedByHandlers
  /\ JobMovesOld
  /\ ListedIsKnown
  /\ CopyIsThere

LEMMA ImagesInit == ImagesSane /\ I!Init => ImagesInv
  BY DEF ImagesSane, I!Init, ImagesInv, ImageTypes, I!ImageKept, MovesAreUnused, RemovedByHandlers, JobMovesOld,
         ListedIsKnown, CopyIsThere, I!Used, I!Range, I!Movers

(***************************************************************************)
(* The steps.                                                              *)
(***************************************************************************)
LEMMA Upload ==
  ASSUME ImagesSane, ImagesInv, NEW i \in Images, I!UploadProductImage(i)
  PROVE  ImagesInv'
  <1> USE DEF I!UploadProductImage, ImagesInv, ImagesSane
  <1>1. UNCHANGED <<trash, vacuumed, imageUrl, inStorage, candidates, moving, copied, outrun>>
    BY DEF I!products, I!job, I!movers
  <1>2. ImageTypes'
    BY <1>1 DEF ImageTypes
  <1>3. I!ImageKept'
    BY <1>1 DEF I!ImageKept, ImageTypes, I!Used
  <1>4. ListedIsKnown'
    BY <1>1 DEF ListedIsKnown, ImageTypes
  <1> QED
    BY <1>1, <1>2, <1>3, <1>4 DEF MovesAreUnused, RemovedByHandlers, JobMovesOld, CopyIsThere, I!Used

(* A product that refers to an image being moved: by a handler, or by the  *)
(* job, and then the image is old.                                         *)
LEMMA Save ==
  ASSUME ImagesSane, ImagesInv, NEW p \in Products, NEW i \in Images \union {None}, I!SaveProduct(p, i)
  PROVE  ImagesInv'
  <1> USE DEF I!SaveProduct, ImagesInv, ImagesSane
  <1>1. UNCHANGED <<stored, trash, vacuumed, inStorage, candidates, moving, copied>>
    BY DEF I!storage, I!job, I!movers
  <1>2. ImageTypes'
    BY <1>1 DEF ImageTypes
  <1>3. I!Used(imageUrl') \subseteq I!Used(imageUrl) \union {i} /\ None \notin I!Used(imageUrl')
    BY DEF ImageTypes, I!Used, I!Range
  <1>4. outrun \subseteq outrun'
    OBVIOUS
  <1>5. i \in Images /\ stored[i] = None => i \in outrun'
    OBVIOUS
  <1>6. I!ImageKept'
    BY <1>1, <1>3, <1>4, <1>5 DEF I!ImageKept, ImageTypes
  <1>7. MovesAreUnused'
    <2> SUFFICES ASSUME NEW m \in I!Movers, moving[m] = i, i \in Images PROVE i \in outrun'
      BY <1>1, <1>3, <1>4 DEF MovesAreUnused
    <2>1. CASE m \in Callers
      BY <1>4, <2>1 DEF RemovedByHandlers
    <2>2. CASE m = Job
      <3>1. stored[i] \in {None, "old"}
        BY <2>2 DEF JobMovesOld, ListedIsKnown, ImageTypes
      <3> QED
        BY <1>5, <2>2, <3>1
    <2> QED
      BY <2>1, <2>2 DEF I!Movers
  <1> QED
    BY <1>1, <1>2, <1>4, <1>6, <1>7 DEF RemovedByHandlers, JobMovesOld, ListedIsKnown, CopyIsThere

LEMMA Remove ==
  ASSUME ImagesSane, ImagesInv, NEW r \in Callers, NEW i \in Images, I!DeleteProductImage(r, i)
  PROVE  ImagesInv'
  <1> USE DEF I!DeleteProductImage, ImagesInv, ImagesSane, I!Movers
  <1>1. UNCHANGED <<stored, trash, vacuumed, imageUrl, inStorage, candidates, copied>>
    BY DEF I!storage, I!job
  <1>2. ImageTypes'
    BY <1>1 DEF ImageTypes
  <1>3. moving' \in [I!Movers -> Images \union {None}] /\ moving'[Job] = moving[Job]
    BY DEF ImageTypes
  <1>4. \A m \in I!Movers : moving'[m] = IF m = r THEN i ELSE moving[m]
    BY DEF ImageTypes
  <1>5. MovesAreUnused' /\ RemovedByHandlers'
    BY <1>1, <1>4 DEF MovesAreUnused, RemovedByHandlers
  <1>6. CopyIsThere'
    BY <1>1, <1>4 DEF CopyIsThere, ImageTypes
  <1> QED
    BY <1>1, <1>2, <1>3, <1>5, <1>6 DEF I!ImageKept, JobMovesOld, ListedIsKnown

LEMMA Move ==
  ASSUME ImagesSane, ImagesInv, NEW m \in I!Movers, I!Copy(m) \/ I!RemoveObject(m) \/ I!MoveFails(m)
  PROVE  ImagesInv'
  <1> USE DEF ImagesInv, ImagesSane
  <1>1. CASE I!Copy(m)
    <2>1. UNCHANGED <<stored, vacuumed, imageUrl, inStorage, candidates, moving, outrun>>
      BY <1>1 DEF I!Copy, I!products, I!job
    <2>2. moving[m] \in Images
      BY <1>1 DEF I!Copy, ImageTypes
    <2>3. \A i \in Images : trash'[i] = IF i = moving[m] THEN trash[i] \union {"recent"} ELSE trash[i]
      BY <1>1, <2>2 DEF I!Copy, ImageTypes
    <2>4. ImageTypes'
      BY <1>1, <2>1 DEF ImageTypes, I!Copy
    <2>5. CopyIsThere'
      BY <1>1, <2>1, <2>3 DEF CopyIsThere, ImageTypes, I!Copy
    <2>6. ListedIsKnown'
      BY <2>1, <2>3 DEF ListedIsKnown
    <2> QED
      BY <2>1, <2>4, <2>5, <2>6 DEF I!ImageKept, MovesAreUnused, RemovedByHandlers, JobMovesOld
  <1>2. ASSUME I!Done(m), UNCHANGED <<trash, vacuumed>>,
               \/ UNCHANGED stored
               \/ m \in copied /\ stored' = [stored EXCEPT ![moving[m]] = None]
        PROVE  ImagesInv'
    <2>1. UNCHANGED <<imageUrl, inStorage, candidates, outrun>>
      BY <1>2 DEF I!Done, I!products, I!job
    <2>2. /\ moving' = [moving EXCEPT ![m] = None]
          /\ copied' = copied \ {m}
      BY <1>2 DEF I!Done
    <2>3. \A x \in I!Movers : moving'[x] = IF x = m THEN None ELSE moving[x]
      BY <2>2 DEF ImageTypes
    <2>4. ImageTypes'
      BY <1>2, <2>1, <2>2 DEF ImageTypes
    <2>5. \A i \in Images : stored'[i] # stored[i] => stored'[i] = None /\ i = moving[m] /\ m \in copied
      BY <1>2 DEF ImageTypes
    <2>6. I!ImageKept'
      <3>1. \A i \in I!Used(imageUrl) \ outrun : i \in Images
        BY DEF ImageTypes, I!Used, I!Range
      <3>2. \A i \in Images : i = moving[m] /\ i \in I!Used(imageUrl) => i \in outrun
        BY DEF MovesAreUnused
      <3> QED
        BY <2>1, <2>5, <3>1, <3>2 DEF I!ImageKept
    <2>7. ListedIsKnown'
      BY <1>2, <2>1, <2>5 DEF ListedIsKnown, CopyIsThere
    <2>8. CopyIsThere'
      BY <1>2, <2>2, <2>3 DEF CopyIsThere, ImageTypes
    <2>9. MovesAreUnused' /\ RemovedByHandlers' /\ JobMovesOld'
      BY <2>1, <2>3 DEF MovesAreUnused, RemovedByHandlers, JobMovesOld, I!Movers
    <2> QED
      BY <2>4, <2>6, <2>7, <2>8, <2>9
  <1> QED
    BY <1>1, <1>2 DEF I!RemoveObject, I!MayRemove, I!MoveFails, I!storage

(* The job lists, plans and ends.                                          *)
LEMMA JobSteps ==
  ASSUME ImagesSane, ImagesInv,
         \/ I!ListObjects \/ I!EndJob
         \/ \E used \in SUBSET I!Used(urlReplica) : I!Plan(used)
  PROVE  ImagesInv'
  <1> USE DEF ImagesInv, ImagesSane
  <1>1. UNCHANGED <<stored, trash, vacuumed, imageUrl, moving, copied, outrun>>
    BY DEF I!ListObjects, I!EndJob, I!Plan, I!storage, I!products, I!movers
  <1>2. candidates' \subseteq Images
    BY DEF I!ListObjects, I!EndJob, I!Plan, I!ToDelete, ImageTypes
  <1>3. ImageTypes' /\ I!ImageKept' /\ MovesAreUnused' /\ RemovedByHandlers' /\ CopyIsThere'
    BY <1>1, <1>2 DEF ImageTypes, I!ImageKept, MovesAreUnused, RemovedByHandlers, CopyIsThere
  <1>4. JobMovesOld' /\ ListedIsKnown'
    <2>1. CASE I!ListObjects
      BY <1>1, <2>1 DEF I!ListObjects, JobMovesOld, ListedIsKnown, ImageTypes
    <2>2. CASE I!EndJob
      BY <1>1, <2>2 DEF I!EndJob, JobMovesOld, ListedIsKnown
    <2>3. ASSUME NEW used, I!Plan(used) PROVE JobMovesOld' /\ ListedIsKnown'
      BY <1>1, <2>3 DEF I!Plan, I!ToDelete, JobMovesOld, ListedIsKnown
    <2> QED
      BY <2>1, <2>2, <2>3
  <1> QED
    BY <1>3, <1>4

LEMMA VerifyStep ==
  ASSUME ImagesSane, ImagesInv, NEW i \in Images, I!Verify(i)
  PROVE  ImagesInv'
  <1> USE DEF ImagesInv, ImagesSane, I!Movers
  <1>1. UNCHANGED <<stored, trash, vacuumed, imageUrl, urlReplica, inStorage, copied>>
    BY DEF I!Verify, I!storage, I!products
  <1>2. candidates' = candidates \ {i} /\ i \in candidates /\ moving[Job] = None
    BY DEF I!Verify
  <1>3. CASE UNCHANGED <<moving, outrun>>
    BY <1>1, <1>2, <1>3 DEF ImageTypes, I!ImageKept, MovesAreUnused, RemovedByHandlers, JobMovesOld,
                            ListedIsKnown, CopyIsThere
  <1>4. CASE /\ I!Verified(i)
             /\ moving' = [moving EXCEPT ![Job] = i]
             /\ outrun' = IF i \in I!Used(imageUrl) \ I!Used(urlReplica) THEN outrun \union {i} ELSE outrun
    <2>1. \A m \in I!Movers : moving'[m] = IF m = Job THEN i ELSE moving[m]
      BY <1>4 DEF ImageTypes
    <2>2. outrun \subseteq outrun' /\ (i \in I!Used(imageUrl) => i \in outrun')
      BY <1>4 DEF I!Verified
    <2>3. ImageTypes'
      BY <1>1, <1>2, <1>4 DEF ImageTypes
    <2>4. I!ImageKept' /\ MovesAreUnused' /\ RemovedByHandlers'
      BY <1>1, <2>1, <2>2 DEF I!ImageKept, MovesAreUnused, RemovedByHandlers
    <2>5. JobMovesOld' /\ ListedIsKnown'
      BY <1>1, <1>2, <2>1 DEF JobMovesOld, ListedIsKnown
    <2>6. CopyIsThere'
      BY <1>1, <1>2, <2>1 DEF CopyIsThere, ImageTypes
    <2> QED
      BY <2>3, <2>4, <2>5, <2>6
  <1> QED
    BY <1>3, <1>4 DEF I!Verify

(* The vacuum deletes no recent copy; time changes none of a move that is  *)
(* under way.                                                              *)
LEMMA TimePasses ==
  ASSUME ImagesSane, ImagesInv, NEW i \in Images,
         I!TrashVacuum(i) \/ I!DayPasses(i) \/ I!RetentionPasses(i)
  PROVE  ImagesInv'
  <1> USE DEF ImagesInv, ImagesSane
  <1>1. UNCHANGED <<imageUrl, inStorage, candidates, moving, copied, outrun>>
    BY DEF I!TrashVacuum, I!DayPasses, I!RetentionPasses, I!products, I!job, I!movers
  <1>2. ImageTypes'
    BY <1>1 DEF I!TrashVacuum, I!DayPasses, I!RetentionPasses, ImageTypes
  <1>3. \A x \in Images :
          /\ stored'[x] = None <=> stored[x] = None
          /\ stored'[x] = "new" => stored[x] = "new"
    BY DEF I!TrashVacuum, I!DayPasses, I!RetentionPasses, ImageTypes
  <1>4. I!ImageKept'
    <2>1. \A x \in I!Used(imageUrl) : x \in Images
      BY DEF ImageTypes, I!Used, I!Range
    <2> QED
      BY <1>1, <1>3, <2>1 DEF I!ImageKept
  <1>5. CopyIsThere'
    BY <1>1 DEF I!TrashVacuum, I!DayPasses, I!RetentionPasses, CopyIsThere, ImageTypes
  <1>6. ListedIsKnown'
    <2>1. \A x \in Images : stored[x] # None \/ trash[x] # {} \/ x \in vacuumed =>
            stored'[x] # None \/ trash'[x] # {} \/ x \in vacuumed'
      BY <1>3 DEF I!TrashVacuum, I!DayPasses, I!RetentionPasses, ImageTypes
    <2> QED
      BY <1>1, <1>3, <2>1 DEF ListedIsKnown
  <1> QED
    BY <1>1, <1>2, <1>4, <1>5, <1>6 DEF MovesAreUnused, RemovedByHandlers, JobMovesOld

LEMMA ImagesNext == ImagesSane /\ ImagesInv /\ [I!Next]_(I!vars) => ImagesInv'
  <1> SUFFICES ASSUME ImagesSane, ImagesInv, [I!Next]_(I!vars) PROVE ImagesInv'
    OBVIOUS
  <1>1. CASE UNCHANGED <<stored, trash, imageUrl, inStorage, candidates, moving, copied, vacuumed, outrun>>
    BY <1>1 DEF ImagesInv, ImageTypes, I!ImageKept, MovesAreUnused, RemovedByHandlers, JobMovesOld,
                ListedIsKnown, CopyIsThere
  <1>2. CASE I!Replicate \/ I!ListNothing \/ UNCHANGED I!vars
    BY <1>1, <1>2 DEF I!Replicate, I!ListNothing, I!vars, I!storage, I!job, I!movers
  <1> QED
    BY <1>2, Upload, Save, Remove, Move, JobSteps, VerifyStep, TimePasses DEF I!Next

(* The image a product refers to is in storage, unless a handler removed   *)
(* it, or the product or the replica was late.                             *)
THEOREM UsedImagesStay == ASSUME ImagesSane PROVE I!Spec => []ImageKept
  <1>1. ImagesInv => ImageKept
    BY DEF ImagesInv, ImageKept
  <1>2. I!Init => ImagesInv
    BY ImagesInit
  <1>3. ImagesInv /\ [I!Next]_(I!vars) => ImagesInv'
    BY ImagesNext
  <1> QED
    BY <1>1, <1>2, <1>3, PTL DEF I!Spec

(* Whatever leaves storage has a copy in the trash that is not due yet.    *)
THEOREM RemovedHasCopy == ASSUME ImagesSane PROVE I!Spec => NothingLost
  <1> DEFINE CopyKept == \A i \in I!There : stored'[i] = None => "recent" \in trash'[i]
  <1>1. ImagesInv /\ I!Next => CopyKept
    <2> SUFFICES ASSUME ImagesInv, I!Next, NEW i \in Images, stored[i] # None, stored'[i] = None
                 PROVE  "recent" \in trash'[i]
      BY DEF I!There
    <2>1. ASSUME NEW m \in I!Movers, I!RemoveObject(m) PROVE "recent" \in trash'[i]
      BY <2>1 DEF I!RemoveObject, I!MayRemove, ImagesInv, ImageTypes, CopyIsThere
    <2>2. CASE UNCHANGED stored
      BY <2>2
    <2>3. ASSUME NEW x \in Images, I!UploadProductImage(x) \/ I!DayPasses(x) PROVE FALSE
      BY <2>3 DEF I!UploadProductImage, I!DayPasses, ImagesInv, ImageTypes, ImagesSane
    <2> QED
      BY <2>1, <2>2, <2>3
      DEF I!Next, I!SaveProduct, I!DeleteProductImage, I!Verify, I!TrashVacuum, I!RetentionPasses, I!Copy,
          I!MoveFails, I!ListObjects, I!ListNothing, I!Plan, I!EndJob, I!Replicate, I!storage, I!vars
  <1>2. ImagesInv /\ [I!Next]_(I!vars) => [CopyKept]_(I!vars)
    BY <1>1
  <1>3. I!Init => ImagesInv
    BY ImagesInit
  <1>4. ImagesInv /\ [I!Next]_(I!vars) => ImagesInv'
    BY ImagesNext
  <1> QED
    BY <1>2, <1>3, <1>4, PTL DEF I!Spec, I!NothingLost, NothingLost

(***************************************************************************)
(* The types of the images' state.                                         *)
(***************************************************************************)

(* What the invariant of the images does not speak of.                     *)
ImageRest ==
  /\ urlReplica \in [Products -> Images \union {None}]
  /\ vacuumed \subseteq Images
  /\ outrun \subseteq Images

(* No step takes the rest out of its types.                                *)
LEMMA RestKept ==
  ASSUME ImagesInv, ImageRest, [I!Next]_(I!vars)
  PROVE  ImageRest'
  <1> USE DEF ImagesInv, ImageTypes, ImageRest
  <1>1. ASSUME NEW i \in Images,
               \/ I!UploadProductImage(i) \/ I!Verify(i)
               \/ \E r \in Callers : I!DeleteProductImage(r, i)
        PROVE  ImageRest'
    BY <1>1 DEF I!UploadProductImage, I!Verify, I!DeleteProductImage, I!storage, I!products
  <1>2. ASSUME NEW i \in Images, I!TrashVacuum(i) \/ I!DayPasses(i) \/ I!RetentionPasses(i)
        PROVE  ImageRest'
    BY <1>2 DEF I!TrashVacuum, I!DayPasses, I!RetentionPasses, I!products
  <1>3. ASSUME NEW p \in Products, NEW i \in Images \union {None}, I!SaveProduct(p, i)
        PROVE  ImageRest'
    BY <1>3 DEF I!SaveProduct, I!storage
  <1>4. ASSUME NEW m, I!Copy(m) \/ I!RemoveObject(m) \/ I!MoveFails(m) PROVE ImageRest'
    BY <1>4 DEF I!Copy, I!RemoveObject, I!MoveFails, I!Done, I!storage, I!products
  <1>5. CASE I!ListObjects \/ I!EndJob \/ \E used \in SUBSET I!Used(urlReplica) : I!Plan(used)
    BY <1>5 DEF I!ListObjects, I!EndJob, I!Plan, I!storage, I!products
  <1>6. CASE I!Replicate \/ I!ListNothing \/ UNCHANGED I!vars
    BY <1>6 DEF I!Replicate, I!ListNothing, I!vars, I!storage
  <1> QED
    BY <1>1, <1>2, <1>3, <1>4, <1>5, <1>6 DEF I!Next

(* What the job moves it has listed: it was old then.                      *)
LEMMA ImagesTyped == ASSUME ImagesSane, ImagesInv, ImageRest PROVE I!TypeOK
  <1>1. moving[Job] # None => inStorage # None
    BY DEF ImagesInv, ImageTypes, JobMovesOld, I!Movers
  <1> QED
    BY <1>1 DEF ImagesInv, ImageTypes, ImageRest, I!TypeOK

(***************************************************************************)
(* The lists.                                                              *)
(***************************************************************************)

(* The lists a write removes. *)
Clears(kind) == C!ToSet(C!Handlers[kind].clears)

(* A list without the names ListCache says it may keep for a while. *)
Shown(l, answer) == C!But(l[1] \notin {"customers", "products"}, answer)

(* Rows that are in a list. *)
InList(db, l) == {i \in C!Live(db) : C!KindOf(i) = l[1] /\ l[2] \in {None, Options, db[i].code}}

(* The codes that come with a row, a row without them, and what a list     *)
(* shows of a row.                                                         *)
Named(db, i) ==
  {<<j, db[j].code>> : j \in {m \in C!Linked(db, i) : C!KindOf(m) \in C!HandlerOf(i).names}}

Bare(e) == [e EXCEPT !.named = {}]

Entry(db, l, i) ==
  [row |-> i, code |-> db[i].code, named |-> IF C!Counted(l) THEN Named(db, i) ELSE {}]

LEMMA UnnamedIs == \A S : C!Unnamed(S) = {Bare(e) : e \in S}
  BY DEF C!Unnamed, Bare

LEMMA BareIs ==
  ASSUME NEW row, NEW code, NEW named
  PROVE  Bare([row |-> row, code |-> code, named |-> named]) = [row |-> row, code |-> code, named |-> {}]
  BY DEF Bare

LEMMA BareEntry ==
  ASSUME NEW db, NEW l, NEW i
  PROVE  Bare(Entry(db, l, i)) = [row |-> i, code |-> db[i].code, named |-> {}]
  <1> DEFINE named == IF C!Counted(l) THEN Named(db, i) ELSE {}
             code == db[i].code
  <1>1. Entry(db, l, i) = [row |-> i, code |-> code, named |-> named]
    BY DEF Entry
  <1> HIDE DEF named, code
  <1>2. Bare(Entry(db, l, i)) = [row |-> i, code |-> code, named |-> {}]
    BY <1>1, BareIs
  <1> QED
    BY <1>2 DEF code

(* The kinds are two of those ListCache describes.                         *)
TwoKinds == kinds[1] \in C!KindNames /\ kinds[2] \in C!KindNames

(* What the handlers have in common: a kind whose lists are stored removes *)
(* them, and those of the kinds that come with its codes, but for lists of *)
(* customers and of products.                                              *)
LEMMA HandlerFields ==
  ASSUME NEW kind \in C!KindNames
  PROVE  /\ kind \notin {"members", "size-options"} => kind \in Clears(kind)
         /\ \A other \in C!KindNames \ {"customers", "products", "members", "size-options"} :
              kind \in C!Handlers[other].names => other \in Clears(kind)
         /\ C!Handlers[kind].clears \in Seq(C!KindNames)
  <1> USE DEF C!Handlers, C!Kind, C!Plain, C!Brand, C!Location, C!PostalArea, C!MemberTier,
              C!Currency, C!Bank, C!ProductBrand, C!ProductCategory, C!MaterialOption, C!Member,
              C!VendorCategory, C!Vendor, C!Customer, C!Product, C!SizeGroup, C!SizeOption
  <1>1. \A k \in C!KindNames : C!Handlers[k].clears = 
      IF k = "members" THEN <<>> ELSE IF k = "size-options" THEN <<"size-groups">>
      ELSE IF k = "vendor-categories" THEN <<"vendor-categories", "vendors">> ELSE <<k>>
    BY DEF C!KindNames
  <1>2. \A k \in C!KindNames : C!Handlers[k].names = 
      IF k = "members" THEN {"member-tiers"} ELSE IF k = "vendors" THEN {"vendor-categories"}
      ELSE IF k = "customers" THEN {"locations"}
      ELSE IF k = "products" THEN {"product-brands", "vendors"}
      ELSE IF k = "size-groups" THEN {"size-options"} ELSE {}
    BY DEF C!KindNames
  <1> HIDE DEF C!Handlers
  <1>3. ASSUME NEW k \in C!KindNames, k \notin {"members", "size-options"} PROVE k \in Clears(k)
    <2>1. C!Handlers[k].clears[1] = k /\ 1 \in DOMAIN C!Handlers[k].clears
      <3>1. CASE k = "vendor-categories"
        <4>1. C!Handlers[k].clears = <<"vendor-categories", "vendors">>
          BY <1>1, <3>1
        <4> QED
          BY <3>1, <4>1
      <3>2. CASE k # "vendor-categories"
        <4>1. C!Handlers[k].clears = <<k>>
          BY <1>1, <1>3, <3>2
        <4> QED
          BY <4>1
      <3> QED
        BY <3>1, <3>2
    <2> QED
      BY <2>1 DEF Clears, C!ToSet
  <1>4. "size-groups" \in Clears("size-options") /\ "vendors" \in Clears("vendor-categories")
    BY <1>1 DEF Clears, C!ToSet, C!KindNames
  <1>5. \A other \in C!KindNames \ {"customers", "products", "members", "size-options"} :
          kind \in C!Handlers[other].names => other \in Clears(kind)
    BY <1>2, <1>4
  <1>6. C!Handlers[kind].clears \in Seq(C!KindNames)
    <2>1. C!Handlers[kind].clears
            \in {<<>>, <<"size-groups">>, <<"vendor-categories", "vendors">>, <<kind>>}
      BY <1>1
    <2>2. <<>> \in Seq(C!KindNames) /\ <<kind>> \in Seq(C!KindNames)
      OBVIOUS
    <2>3. {"size-groups", "vendor-categories", "vendors"} \subseteq C!KindNames
      BY DEF C!KindNames
    <2>4. <<"size-groups">> \in Seq(C!KindNames)
          /\ <<"vendor-categories", "vendors">> \in Seq(C!KindNames)
      BY <2>3
    <2> QED
      BY <2>1, <2>2, <2>4
  <1> QED
    BY <1>3, <1>5, <1>6

(* ListCache has its Cardinality from FiniteSets like every other module.  *)
LEMMA SameCardinality == ASSUME NEW S PROVE C!Cardinality(S) = Cardinality(S)
  BY DEF C!Cardinality, Cardinality, C!IsFiniteSet, IsFiniteSet

(* What the code has: ids and codes, which are ordered; at least one code. *)
ListsSane ==
  /\ Readers \intersect Editors = {}
  /\ IsFiniteSet(Firsts) /\ IsFiniteSet(Seconds) /\ IsFiniteSet(Codes)
  /\ Codes # {} /\ Codes \subseteq Int

(* The rows of a list, one entry each.                                     *)
LEMMA FindIs ==
  ASSUME NEW db, NEW l
  PROVE  /\ C!Find(db, l) = {Entry(db, l, i) : i \in InList(db, l)}
         /\ \A i : Entry(db, l, i).row = i /\ Entry(db, l, i).code = db[i].code
  <1>1. \A i : Entry(db, l, i).row = i /\ Entry(db, l, i).code = db[i].code
    BY DEF Entry
  <1>2. ASSUME NEW i PROVE C!EntryOf(db, i) = [row |-> i, code |-> db[i].code, named |-> Named(db, i)]
    BY DEF C!EntryOf, Named
  <1>3. CASE C!Counted(l)
    <2>1. C!Find(db, l) = {C!EntryOf(db, i) : i \in InList(db, l)}
      BY <1>3 DEF C!Find, InList
    <2>2. \A i : Entry(db, l, i) = C!EntryOf(db, i)
      BY <1>2, <1>3 DEF Entry
    <2> QED
      BY <1>1, <2>1, <2>2
  <1>4. CASE ~C!Counted(l)
    <2>1. C!Find(db, l) = C!Unnamed({C!EntryOf(db, i) : i \in InList(db, l)})
      BY <1>4 DEF C!Find, InList
    <2>2. ASSUME NEW i PROVE Bare(C!EntryOf(db, i)) = Entry(db, l, i)
      BY <1>2, <1>4, BareIs DEF Entry
    <2>3. C!Unnamed({C!EntryOf(db, i) : i \in InList(db, l)}) = {Entry(db, l, i) : i \in InList(db, l)}
      BY <2>2, UnnamedIs
    <2> QED
      BY <1>1, <2>1, <2>3
  <1> QED
    BY <1>3, <1>4

(* Entries and rows are as many, and none only if there are none.          *)
LEMMA CountList ==
  ASSUME ListsSane, NEW db, NEW l
  PROVE  /\ C!Cardinality(C!Find(db, l)) = Cardinality(InList(db, l))
         /\ Cardinality(InList(db, l)) \in Nat
         /\ Cardinality(InList(db, l)) = 0 <=> C!Find(db, l) = {}
  <1> DEFINE S == InList(db, l)
             T == C!Find(db, l)
             f == [i \in S |-> Entry(db, l, i)]
  <1>1. IsFiniteSet(S)
    <2>1. IsFiniteSet(C!Rows)
      BY FS_Union DEF ListsSane, C!Rows
    <2>2. S \subseteq C!Rows
      BY DEF InList, C!Live
    <2> QED
      BY <2>1, <2>2, FS_Subset
  <1>2. T = {Entry(db, l, i) : i \in S}
    BY FindIs
  <1>3. \A i \in S : Entry(db, l, i).row = i
    BY FindIs
  <1> HIDE DEF S, T
  <1>4. f \in Bijection(S, T)
    <2>1. f \in [S -> T]
      BY <1>2
    <2>2. \A i, j \in S : f[i] = f[j] => i = j
      BY <1>3
    <2>3. \A e \in T : \E i \in S : f[i] = e
      BY <1>2
    <2> HIDE DEF f
    <2> QED
      BY <2>1, <2>2, <2>3 DEF Bijection, Injection, IsInjective, Surjection
  <1>5. Cardinality(T) = Cardinality(S)
    BY <1>1, <1>4, FS_Bijection DEF ExistsBijection
  <1>6. Cardinality(S) \in Nat /\ (Cardinality(S) = 0 <=> S = {})
    BY <1>1, FS_CardinalityType, FS_EmptySet
  <1> QED
    BY <1>2, <1>5, <1>6, SameCardinality DEF S, T

(* A write about one kind leaves every list as it is that it does not remove. *)
LEMMA ListUnaffected ==
  ASSUME ListsSane, TwoKinds, NEW kind \in C!KindNames, NEW old, NEW new,
         \A i \in C!Rows : C!KindOf(i) # kind => new[i] = old[i],
         NEW l \in C!Lists, l[1] \notin Clears(kind)
  PROVE  Shown(l, C!Answer(new, l)) = Shown(l, C!Answer(old, l))
  <1>1. /\ l[1] \in C!KindNames \ {"members", "size-options"}
        /\ l[1] # kind
    <2>1. l[1] \in {kinds[1], kinds[2]} \ {"members", "size-options"}
      BY DEF C!Lists
    <2>2. kind \notin {"members", "size-options"} => kind \in Clears(kind)
      BY HandlerFields
    <2> QED
      BY <2>1, <2>2 DEF TwoKinds
  <1>2. \A i \in InList(new, l) \union InList(old, l) :
          i \in C!Rows /\ C!KindOf(i) = l[1] /\ new[i] = old[i]
    BY <1>1 DEF InList, C!Live
  <1>3. InList(new, l) = InList(old, l)
    <2>1. ASSUME NEW i \in C!Rows, C!KindOf(i) = l[1] 
          PROVE  i \in InList(new, l) <=> i \in InList(old, l)
      BY <1>1, <2>1 DEF InList, C!Live
    <2> QED
      BY <1>2, <2>1
  <1>4. C!Answer(new, l).total = C!Answer(old, l).total
    BY <1>3, CountList DEF C!Answer
  <1>5. CASE l[1] \in {"customers", "products"}
    <2>1. \A i \in InList(old, l) : Bare(Entry(new, l, i)) = Bare(Entry(old, l, i))
      BY <1>2, BareEntry
    <2>2. ASSUME NEW db PROVE C!Unnamed(C!Find(db, l)) = {Bare(Entry(db, l, i)) : i \in InList(db, l)}
      BY FindIs, UnnamedIs
    <2>3. C!Unnamed(C!Find(new, l)) = {Bare(Entry(new, l, i)) : i \in InList(old, l)}
      BY <1>3, <2>2
    <2>4. C!Unnamed(C!Find(old, l)) = {Bare(Entry(old, l, i)) : i \in InList(old, l)}
      BY <2>2
    <2>5. C!Unnamed(C!Find(new, l)) = C!Unnamed(C!Find(old, l))
      BY <2>1, <2>3, <2>4
    <2> QED
      BY <1>4, <1>5, <2>5 DEF Shown, C!But, C!Answer
  <1>6. CASE l[1] \notin {"customers", "products"}
    <2>1. kind \notin C!Handlers[l[1]].names
      BY <1>1, <1>6, HandlerFields
    <2>2. ASSUME NEW i \in InList(old, l) PROVE Entry(new, l, i) = Entry(old, l, i)
      <3> DEFINE named(db) == {j \in C!Linked(db, i) : C!KindOf(j) \in C!HandlerOf(i).names}
      <3>1. new[i] = old[i] /\ C!HandlerOf(i) = C!Handlers[l[1]]
        BY <1>2 DEF C!HandlerOf
      <3>2. \A j \in C!Rows : C!KindOf(j) \in C!HandlerOf(i).names => new[j] = old[j]
        BY <2>1, <3>1
      <3>3. named(new) = named(old) /\ \A j \in named(old) : new[j] = old[j]
        BY <3>1, <3>2 DEF C!Linked, C!Live
      <3>4. {<<j, new[j].code>> : j \in named(new)} = {<<j, old[j].code>> : j \in named(old)}
        BY <3>3
      <3> QED
        BY <3>1, <3>4 DEF Entry, Named
    <2>4. C!Find(new, l) = C!Find(old, l)
      <3>1. C!Find(new, l) = {Entry(new, l, i) : i \in InList(old, l)}
        BY <1>3, FindIs
      <3>2. C!Find(old, l) = {Entry(old, l, i) : i \in InList(old, l)}
        BY FindIs
      <3> QED
        BY <2>2, <3>1, <3>2
    <2> QED
      BY <2>4 DEF Shown, C!Answer
  <1> QED
    BY <1>5, <1>6

(***************************************************************************)
(* The inductive invariant.                                                *)
(***************************************************************************)

(* What a writer was sent.                                                 *)
ListForm ==
  [op : {"create", "update"}, id : C!Rows, code : Codes, link : Firsts \union {None}]
    \union [op : {"empty", "delete"}, id : C!Rows]

(* Types, of every step a handler is at.                                   *)
ListTypes ==
  /\ C!TypeOK
  /\ cache = [l \in C!Lists |-> cache[l]]
  /\ listForm = [w \in Editors |-> listForm[w]]
  /\ paths \in [Editors -> Seq(C!KindNames)]
  /\ found \in [Editors -> SUBSET C!Lists]
  /\ listLate \in [Readers -> BOOLEAN]
  /\ \A r \in Readers : listPc[r] \in {"idle", "count", "find"}
  /\ \A w \in Editors : listPc[w] \in {"idle", "write", "keys", "del"}

(* What a reader goes by, unless it is late.                               *)
ReaderKnows ==
  \A r \in Readers :
    /\ listPc[r] # "idle" => list[r] \in C!Lists
    /\ listPc[r] = "count" => C!Counted(list[r])
    /\ listPc[r] # "find" => total[r] = 0
    /\ listPc[r] = "find" /\ ~listLate[r] =>
         /\ listedReplica = listed
         /\ total[r] = C!Answer(listed, list[r]).total

(* What a writer is to remove is found in its paths, from its write on.    *)
WriterPaths ==
  \A w \in Editors :
    /\ listPc[w] \in {"idle", "write", "keys"} => found[w] = {}
    /\ listPc[w] = "idle" => paths[w] = <<>>
    /\ listPc[w] = "write" =>
         /\ listForm[w] \in ListForm
         /\ listForm[w].op = "empty" => C!KindOf(listForm[w].id) = "size-groups"
         /\ paths[w] # <<>> =>
              /\ listForm[w].op = "delete"
              /\ paths[w] = C!HandlerOf(listForm[w].id).clears

(* The lists are right, and why they stay so.                              *)
ListsInv == ListTypes /\ ReaderKnows /\ WriterPaths /\ C!FreshUnlessLate

(* Writer w has yet to remove list l.                                      *)
Removing(w, l) == l[1] \in C!ToSet(paths[w]) \/ l \in found[w]

(* The property in terms of Removing and Shown, before and after a step.   *)
LEMMA FreshIs ==
  C!FreshUnlessLate <=>
    \A l \in C!Lists :
      cache[l] # None /\ l \notin staleLists /\ (\A w \in Editors : ~Removing(w, l))
        => Shown(l, cache[l]) = Shown(l, C!Answer(listed, l))
  BY DEF C!FreshUnlessLate, C!ToRemove, Removing, Shown

(* Kinds never change, nor does what depends on them alone.                *)
LEMMA SameKinds ==
  ASSUME kinds' = kinds
  PROVE  /\ C!Lists' = C!Lists
         /\ \A l : C!Answer(listed, l)' = C!Answer(listed', l)
         /\ \A i : C!KindOf(i)' = C!KindOf(i)
  <1>1. C!Lists' = C!Lists
    BY DEF C!Lists
  <1>2. \A i : C!KindOf(i)' = C!KindOf(i)
    BY DEF C!KindOf
  <1>3. ASSUME NEW l PROVE C!Answer(listed, l)' = C!Answer(listed', l)
    BY DEF C!Answer, C!Find, C!EntryOf, C!KindOf, C!HandlerOf, C!Linked, C!Live, C!Rows,
           C!Counted, C!Unnamed
  <1> QED
    BY <1>1, <1>2, <1>3

LEMMA FreshThen ==
  C!FreshUnlessLate' <=>
    \A l \in C!Lists' :
      cache'[l] # None /\ l \notin staleLists' /\ (\A w \in Editors : ~Removing(w, l)')
        => Shown(l, cache'[l]) = Shown(l, C!Answer(listed, l)')
  BY DEF C!FreshUnlessLate, C!ToRemove, Removing, Shown

(* The rows stay: what is stored is right, or was there and is as it was,  *)
(* and who was to remove it still is.                                      *)
LEMMA StaysFresh ==
  ASSUME C!FreshUnlessLate, kinds' = kinds, listed' = listed,
         \A l \in C!Lists : cache'[l] # None /\ l \notin staleLists' =>
           \/ cache'[l] = C!Answer(listed, l)
           \/ /\ cache'[l] = cache[l] /\ l \notin staleLists
              /\ \A w \in Editors : Removing(w, l) => Removing(w, l)'
  PROVE  C!FreshUnlessLate'
  <1>1. C!Lists' = C!Lists /\ \A l : C!Answer(listed, l)' = C!Answer(listed, l)
    BY SameKinds
  <1> SUFFICES ASSUME NEW l \in C!Lists, cache'[l] # None, l \notin staleLists',
                      \A w \in Editors : ~Removing(w, l)'
               PROVE  Shown(l, cache'[l]) = Shown(l, C!Answer(listed, l)')
    BY <1>1, FreshThen
  <1>2. CASE cache'[l] = C!Answer(listed, l)
    BY <1>1, <1>2
  <1>3. CASE cache'[l] = cache[l] /\ l \notin staleLists /\ \A w \in Editors : ~Removing(w, l)
    BY <1>1, <1>3, FreshIs
  <1> QED
    BY <1>2, <1>3

(* Kinds are of a pair of MCEdits.                                         *)
LEMMA KindsKnown == ASSUME ListTypes PROVE TwoKinds
  <1>1. kinds \in Twice \union Once
    BY DEF ListTypes, C!TypeOK, MCEdits
  <1> QED
    BY <1>1 DEF TwoKinds, Twice, Once, C!KindNames

(* An answer that may be stored.                                           *)
Answerable(answer) ==
  /\ \A e \in answer.data : e.row \in C!Rows /\ e.code \in Codes
  /\ answer.total \in Nat
  /\ ~C!Partial(answer)

(* Types after a step, and before it, as facts about each variable.        *)
LEMMA TypesThen ==
  ASSUME ListTypes, kinds' = kinds,
         listed' \in [C!Rows -> C!Row \union {None}],
         listedReplica' \in [C!Rows -> C!Row \union {None}],
         cache' = [l \in C!Lists |-> cache'[l]],
         \A l \in C!Lists : cache'[l] # None => Answerable(cache'[l]),
         listPc' \in [C!Requests -> {"idle", "count", "find", "write", "keys", "del"}],
         \A r \in Readers : listPc'[r] \in {"idle", "count", "find"},
         \A w \in Editors : listPc'[w] \in {"idle", "write", "keys", "del"},
         list' \in [Readers -> C!Lists \union {None}],
         total' \in [Readers -> Nat], failures' \in Nat,
         listLate' \in [Readers -> BOOLEAN],
         listForm' = [w \in Editors |-> listForm'[w]],
         paths' \in [Editors -> Seq(C!KindNames)],
         found' \in [Editors -> SUBSET C!Lists],
         staleLists' \subseteq C!Lists
  PROVE  ListTypes'
  <1>1. C!Lists' = C!Lists /\ kinds \in DOMAIN MCEdits
    BY SameKinds DEF ListTypes, C!TypeOK
  <1>2. DOMAIN C!Handlers = C!KindNames
    BY DEF C!Handlers
  <1>3. C!TypeOK'
    BY <1>1, <1>2 DEF C!TypeOK, Answerable
  <1> QED
    BY <1>1, <1>3 DEF ListTypes

LEMMA TypesOf ==
  ASSUME ListTypes
  PROVE  /\ listed \in [C!Rows -> C!Row \union {None}]
         /\ listedReplica \in [C!Rows -> C!Row \union {None}]
         /\ cache = [l \in C!Lists |-> cache[l]]
         /\ \A l \in C!Lists : cache[l] # None => Answerable(cache[l])
         /\ listPc \in [C!Requests -> {"idle", "count", "find", "write", "keys", "del"}]
         /\ \A r \in Readers : r \in C!Requests /\ listPc[r] \in {"idle", "count", "find"}
         /\ \A w \in Editors : w \in C!Requests /\ listPc[w] \in {"idle", "write", "keys", "del"}
         /\ list \in [Readers -> C!Lists \union {None}]
         /\ total \in [Readers -> Nat]
         /\ listLate \in [Readers -> BOOLEAN]
         /\ listForm = [w \in Editors |-> listForm[w]]
         /\ paths \in [Editors -> Seq(C!KindNames)]
         /\ found \in [Editors -> SUBSET C!Lists]
         /\ staleLists \subseteq C!Lists
  BY DEF ListTypes, C!TypeOK, Answerable, C!Requests

(* What is read by a query is an answer.                                   *)
LEMMA FoundIsTyped ==
  ASSUME NEW db \in [C!Rows -> C!Row \union {None}], NEW l
  PROVE  \A e \in C!Find(db, l) : e.row \in C!Rows /\ e.code \in Codes
  <1>1. \A i \in InList(db, l) : i \in C!Rows /\ db[i] \in C!Row
    BY DEF InList, C!Live
  <1>2. \A i \in InList(db, l) : Entry(db, l, i).row = i /\ Entry(db, l, i).code = db[i].code
    BY FindIs
  <1> QED
    BY <1>1, <1>2, FindIs DEF C!Row

(* The rows stay, and so do the lists of them.                             *)
LEMMA SameAnswer ==
  ASSUME kinds' = kinds, listed' = listed
  PROVE  \A l : C!Answer(listed, l)' = C!Answer(listed, l)
  BY SameKinds

(* Invariants of those who do not take a step.                             *)
LEMMA WritersStay ==
  ASSUME ListTypes, WriterPaths, kinds' = kinds, paths' = paths, found' = found, listForm' = listForm,
         \A w \in Editors : listPc'[w] = listPc[w]
  PROVE  WriterPaths'
  <1>1. \A i : C!KindOf(i)' = C!KindOf(i) /\ C!HandlerOf(i)' = C!HandlerOf(i)
    BY SameKinds DEF C!HandlerOf
  <1> QED
    BY <1>1 DEF WriterPaths, ListForm

LEMMA ReadersStay ==
  ASSUME ListTypes, ReaderKnows, kinds' = kinds, listed' = listed, listedReplica' = listedReplica,
         list' = list, total' = total, listLate' = listLate,
         \A r \in Readers : listPc'[r] = listPc[r]
  PROVE  ReaderKnows'
  BY SameKinds, SameAnswer DEF ReaderKnows

(* What readers go by after a step.                                        *)
LEMMA ReadersThen ==
  ASSUME kinds' = kinds,
         \A q \in Readers :
           /\ listPc'[q] # "idle" => list'[q] \in C!Lists
           /\ listPc'[q] = "count" => C!Counted(list'[q])
           /\ listPc'[q] # "find" => total'[q] = 0
           /\ listPc'[q] = "find" /\ ~listLate'[q] =>
                /\ listedReplica' = listed'
                /\ total'[q] = C!Answer(listed', list'[q]).total
  PROVE  ReaderKnows'
  <1>1. C!Lists' = C!Lists /\ \A l : C!Answer(listed, l)' = C!Answer(listed', l)
    BY SameKinds
  <1>2. \A l : C!Counted(l)' = C!Counted(l)
    BY DEF C!Counted
  <1> QED
    BY <1>1, <1>2 DEF ReaderKnows

(* A reader that does not find the list: it is removed if it was partial.  *)
LEMMA MissKeeps ==
  ASSUME ListsSane, ListsInv, failures' \in Nat, NEW r \in Readers, NEW l \in C!Lists, C!Miss(r, l)
  PROVE  ListsInv'
  <1> USE DEF ListsInv
  <1>1. /\ cache' = [m \in C!Lists |-> IF m \in {l} THEN None ELSE cache[m]]
        /\ staleLists' = staleLists \ {l}
        /\ list' = [list EXCEPT ![r] = l]
        /\ listLate' = [listLate EXCEPT ![r] = ~C!Counted(l) /\ listedReplica # listed]
        /\ listPc' = [listPc EXCEPT ![r] = IF C!Counted(l) THEN "count" ELSE "find"]
        /\ listPc[r] = "idle"
        /\ UNCHANGED <<kinds, listed, listedReplica, total, edits, listForm, paths, found>>
    BY DEF C!Miss, C!Drop, C!Goto, C!writers
  <1> DEFINE label == IF C!Counted(l) THEN "count" ELSE "find"
             late1 == ~C!Counted(l) /\ listedReplica # listed
  <1>2. /\ \A w \in Editors : listPc'[w] = listPc[w]
        /\ \A q \in Readers : listPc'[q] = IF q = r THEN label ELSE listPc[q]
    BY <1>1, TypesOf DEF ListsSane
  <1>3. ListTypes'
    <2>1. label \in {"count", "find"} /\ late1 \in BOOLEAN
      OBVIOUS
    <2>2. listPc' = [listPc EXCEPT ![r] = label] /\ listLate' = [listLate EXCEPT ![r] = late1]
      BY <1>1
    <2> HIDE DEF label, late1
    <2> QED
      BY <1>1, <1>2, <2>1, <2>2, TypesOf, TypesThen
  <1>4. WriterPaths'
    BY <1>1, <1>2, WritersStay
  <1>5. ReaderKnows'
    <2>1. ~C!Counted(l) => C!Answer(listed, l).total = 0
      BY DEF C!Answer
    <2>2. /\ list'[r] = l /\ listLate'[r] = late1 /\ listPc'[r] = label /\ total[r] = 0
          /\ \A q \in Readers : q # r => list'[q] = list[q] /\ listLate'[q] = listLate[q]
      BY <1>1, <1>2, TypesOf DEF ReaderKnows
    <2>3. /\ label = "count" => C!Counted(l)
          /\ label \in {"count", "find"}
          /\ label = "find" /\ ~late1 => listedReplica = listed /\ 0 = C!Answer(listed, l).total
      BY <2>1
    <2> HIDE DEF label, late1
    <2> SUFFICES ASSUME NEW q \in Readers
                 PROVE  /\ listPc'[q] # "idle" => list'[q] \in C!Lists
                        /\ listPc'[q] = "count" => C!Counted(list'[q])
                        /\ listPc'[q] # "find" => total'[q] = 0
                        /\ listPc'[q] = "find" /\ ~listLate'[q] =>
                             /\ listedReplica' = listed'
                             /\ total'[q] = C!Answer(listed', list'[q]).total
      BY <1>1, ReadersThen
    <2>4. CASE q = r
      BY <1>1, <2>2, <2>3, <2>4
    <2>5. CASE q # r
      BY <1>1, <1>2, <2>2, <2>5 DEF ReaderKnows
    <2> QED
      BY <2>4, <2>5
  <1>6. C!FreshUnlessLate'
    BY <1>1, StaysFresh DEF Removing
  <1> QED
    BY <1>3, <1>4, <1>5, <1>6

(* A reader counts: unless that fails, and if the replica is as the        *)
(* master, it is right.                                                    *)
LEMMA CountKeeps ==
  ASSUME ListsSane, ListsInv, failures' \in Nat, NEW r \in Readers, NEW failed \in BOOLEAN,
         C!Count(r, failed)
  PROVE  ListsInv'
  <1> USE DEF ListsInv
  <1> DEFINE rowsRead == C!Cardinality(C!Find(listedReplica, list[r]))
             n == IF failed THEN 0 ELSE rowsRead
             wrong == failed \/ listedReplica # listed
  <1>1. /\ listPc[r] = "count"
        /\ total' = [total EXCEPT ![r] = n]
        /\ listLate' = [listLate EXCEPT ![r] = wrong]
        /\ listPc' = [listPc EXCEPT ![r] = "find"]
        /\ UNCHANGED <<kinds, listed, listedReplica, cache, list, edits, listForm, paths, found, staleLists>>
    BY DEF C!Count, C!Goto, C!writers
  <1>2. /\ \A w \in Editors : listPc'[w] = listPc[w]
        /\ \A q \in Readers : listPc'[q] = IF q = r THEN "find" ELSE listPc[q]
    BY <1>1, TypesOf DEF ListsSane
  <1>3. rowsRead \in Nat
    BY CountList
  <1>4. n \in Nat /\ wrong \in BOOLEAN
    <2> HIDE DEF rowsRead
    <2> QED
      BY <1>3
  <1>5. list[r] \in C!Lists /\ C!Counted(list[r])
    BY <1>1 DEF ReaderKnows
  <1>6. ~wrong => listedReplica = listed /\ n = C!Answer(listed, list[r]).total
    BY <1>5 DEF C!Answer
  <1> HIDE DEF n, wrong
  <1>7. ListTypes'
    BY <1>1, <1>2, <1>4, TypesOf, TypesThen
  <1>8. WriterPaths'
    BY <1>1, <1>2, WritersStay
  <1>9. ReaderKnows'
    <2>1. total'[r] = n /\ listLate'[r] = wrong
      BY <1>1, TypesOf
    <2>2. \A q \in Readers : q # r => total'[q] = total[q] /\ listLate'[q] = listLate[q]
      BY <1>1, TypesOf
    <2> SUFFICES ASSUME NEW q \in Readers
                 PROVE  /\ listPc'[q] # "idle" => list'[q] \in C!Lists
                        /\ listPc'[q] = "count" => C!Counted(list'[q])
                        /\ listPc'[q] # "find" => total'[q] = 0
                        /\ listPc'[q] = "find" /\ ~listLate'[q] =>
                             /\ listedReplica' = listed'
                             /\ total'[q] = C!Answer(listed', list'[q]).total
      BY <1>1, ReadersThen
    <2>3. CASE q = r
      BY <1>1, <1>2, <1>5, <1>6, <2>1, <2>3
    <2>4. CASE q # r
      BY <1>1, <1>2, <2>2, <2>4 DEF ReaderKnows
    <2> QED
      BY <2>3, <2>4
  <1>10. C!FreshUnlessLate'
    BY <1>1, StaysFresh DEF Removing
  <1> QED
    BY <1>7, <1>8, <1>9, <1>10

(* A reader stores what it has, unless rows were counted and none read: it *)
(* marks the list if it is wrong, and otherwise the list is right.         *)
LEMMA SetKeeps ==
  ASSUME ListsSane, ListsInv, failures' \in Nat, NEW r \in Readers, NEW data, NEW wrong,
         C!Set(r, data, wrong),
         \A e \in data : e.row \in C!Rows /\ e.code \in Codes,
         ~wrong /\ ~C!Partial([data |-> data, total |-> total[r]]) =>
           [data |-> data, total |-> total[r]] = C!Answer(listed, list[r])
  PROVE  ListsInv'
  <1> USE DEF ListsInv
  <1> DEFINE l == list[r]
             answer == [data |-> data, total |-> total[r]]
  <1>1. /\ listPc[r] = "find" /\ l \in C!Lists
        /\ cache' = IF C!Partial(answer) THEN cache ELSE [cache EXCEPT ![l] = answer]
        /\ staleLists' = IF C!Partial(answer) THEN staleLists
                         ELSE IF wrong THEN staleLists \union {l} ELSE staleLists \ {l}
        /\ listPc' = [listPc EXCEPT ![r] = "idle"]
        /\ list' = [list EXCEPT ![r] = None]
        /\ total' = [total EXCEPT ![r] = 0]
        /\ listLate' = [listLate EXCEPT ![r] = FALSE]
        /\ UNCHANGED <<kinds, listed, listedReplica, edits, listForm, paths, found>>
    BY DEF C!Set, C!Goto, C!writers, ReaderKnows
  <1>2. /\ \A w \in Editors : listPc'[w] = listPc[w]
        /\ \A q \in Readers : listPc'[q] = IF q = r THEN "idle" ELSE listPc[q]
    BY <1>1, TypesOf DEF ListsSane
  <1>3. ~C!Partial(answer) => Answerable(answer)
    BY TypesOf DEF Answerable
  <1>4. ~C!Partial(answer) /\ ~wrong => answer = C!Answer(listed, l)
    OBVIOUS
  <1> HIDE DEF answer, l
  <1>5. ListTypes'
    BY <1>1, <1>2, <1>3, TypesOf, TypesThen
  <1>6. WriterPaths'
    BY <1>1, <1>2, WritersStay
  <1>7. ReaderKnows'
    <2>1. /\ listPc'[r] = "idle" /\ total'[r] = 0
          /\ \A q \in Readers : q # r =>
               list'[q] = list[q] /\ total'[q] = total[q] /\ listLate'[q] = listLate[q]
      BY <1>1, <1>2, TypesOf
    <2> QED
      BY <1>1, <1>2, <2>1, ReadersThen DEF ReaderKnows
  <1>8. \A m \in C!Lists : cache'[m] # None /\ m \notin staleLists' =>
          cache'[m] = C!Answer(listed, m) \/ (cache'[m] = cache[m] /\ m \notin staleLists)
    BY <1>1, <1>4, TypesOf
  <1>9. C!FreshUnlessLate'
    BY <1>1, <1>8, StaysFresh DEF Removing
  <1> QED
    BY <1>5, <1>6, <1>7, <1>9

(* What was read at once and counted is the answer.                        *)
LEMMA StoreKeeps ==
  ASSUME ListsSane, ListsInv, failures' \in Nat, NEW r \in Readers, C!Store(r)
  PROVE  ListsInv'
  <1> DEFINE data == C!Find(listedReplica, list[r])
  <1>1. C!Set(r, data, listLate[r]) /\ listPc[r] = "find"
    BY DEF C!Store, C!Set
  <1>2. \A e \in data : e.row \in C!Rows /\ e.code \in Codes
    BY TypesOf, FoundIsTyped DEF ListsInv
  <1>3. ~listLate[r] => [data |-> data, total |-> total[r]] = C!Answer(listed, list[r])
    <2> SUFFICES ASSUME ~listLate[r] PROVE [data |-> data, total |-> total[r]] = C!Answer(listed, list[r])
      OBVIOUS
    <2>1. listedReplica = listed /\ total[r] = C!Answer(listed, list[r]).total
      BY <1>1 DEF ListsInv, ReaderKnows
    <2> QED
      BY <2>1 DEF C!Answer
  <1> HIDE DEF data
  <1> QED
    BY <1>1, <1>2, <1>3, SetKeeps

(* What a Find that failed has left is marked; and if it is nothing, it is *)
(* the answer if no rows were counted.                                     *)
LEMMA RemainsKeep ==
  ASSUME ListsSane, ListsInv, failures' \in Nat, NEW r \in Readers,
         NEW data \in C!Remains(list[r]), C!StoreRemains(r, data)
  PROVE  ListsInv'
  <1> DEFINE l == list[r]
             wrong == listLate[r] \/ data # {} \/ ~C!Counted(l)
  <1>1. C!Set(r, data, wrong) /\ listPc[r] = "find"
    BY DEF C!StoreRemains, C!Set
  <1>2. \A e \in data : e.row \in C!Rows /\ e.code \in Codes
    <2>1. \A e \in C!Find(listedReplica, l) : e.row \in C!Rows /\ e.code \in Codes
      BY TypesOf, FoundIsTyped DEF ListsInv
    <2>2. ASSUME NEW e \in C!Unnamed(C!Find(listedReplica, l)) PROVE e.row \in C!Rows /\ e.code \in Codes
      <3>1. PICK i \in InList(listedReplica, l) : e = Bare(Entry(listedReplica, l, i))
        BY UnnamedIs, FindIs
      <3>2. /\ Entry(listedReplica, l, i) \in C!Find(listedReplica, l)
            /\ Entry(listedReplica, l, i).row = i /\ Entry(listedReplica, l, i).code = listedReplica[i].code
        BY FindIs
      <3>3. e.row = i /\ e.code = listedReplica[i].code
        BY <3>1, BareEntry
      <3> QED
        BY <2>1, <3>2, <3>3
    <2> QED
      <3>1. data \subseteq C!Find(listedReplica, l) \/ data = C!Unnamed(C!Find(listedReplica, l))
        BY DEF C!Remains
      <3> QED
        BY <2>1, <2>2, <3>1
  <1>3. ~wrong /\ ~C!Partial([data |-> data, total |-> total[r]]) =>
          [data |-> data, total |-> total[r]] = C!Answer(listed, l)
    <2> SUFFICES ASSUME ~wrong, ~C!Partial([data |-> data, total |-> total[r]])
                 PROVE  [data |-> data, total |-> total[r]] = C!Answer(listed, l)
      OBVIOUS
    <2>1. total[r] = C!Answer(listed, l).total
      BY <1>1 DEF ListsInv, ReaderKnows
    <2>2. data = {} /\ C!Counted(l)
      OBVIOUS
    <2>3. total[r] = C!Cardinality(C!Find(listed, l))
      BY <2>1, <2>2 DEF C!Answer
    <2>4. total[r] \in Nat /\ ~(total[r] > 0)
      BY <2>2, TypesOf DEF C!Partial, ListsInv
    <2>5. C!Find(listed, l) = {}
      BY <2>3, <2>4, CountList
    <2> QED
      BY <2>1, <2>2, <2>5 DEF C!Answer
  <1> HIDE DEF wrong, l
  <1> QED
    BY <1>1, <1>2, <1>3, SetKeeps DEF l

(* One writer takes a step; the others stay.                               *)
LEMMA WritersThen ==
  ASSUME ListTypes, WriterPaths, kinds' = kinds, NEW w \in Editors,
         \A v \in Editors \ {w} :
           /\ listPc'[v] = listPc[v] /\ paths'[v] = paths[v]
           /\ found'[v] = found[v] /\ listForm'[v] = listForm[v],
         listPc'[w] \in {"idle", "write", "keys"} => found'[w] = {},
         listPc'[w] = "idle" => paths'[w] = <<>>,
         listPc'[w] = "write" =>
           /\ listForm'[w] \in ListForm
           /\ listForm'[w].op = "empty" => C!KindOf(listForm'[w].id) = "size-groups"
           /\ paths'[w] # <<>> =>
                /\ listForm'[w].op = "delete"
                /\ paths'[w] = C!HandlerOf(listForm'[w].id).clears
  PROVE  WriterPaths'
  <1>1. \A i : C!KindOf(i)' = C!KindOf(i) /\ C!HandlerOf(i)' = C!HandlerOf(i)
    BY SameKinds DEF C!HandlerOf
  <1>2. ListForm' = ListForm
    BY DEF ListForm, C!Rows
  <1>3. ASSUME NEW v \in Editors
        PROVE  /\ listPc'[v] \in {"idle", "write", "keys"} => found'[v] = {}
               /\ listPc'[v] = "idle" => paths'[v] = <<>>
               /\ listPc'[v] = "write" =>
                    /\ listForm'[v] \in ListForm
                    /\ listForm'[v].op = "empty" => C!KindOf(listForm'[v].id) = "size-groups"
                    /\ paths'[v] # <<>> =>
                         /\ listForm'[v].op = "delete"
                         /\ paths'[v] = C!HandlerOf(listForm'[v].id).clears
    <2>1. CASE v = w
      BY <2>1
    <2>2. CASE v # w
      BY <2>2 DEF WriterPaths
    <2> QED
      BY <2>1, <2>2
  <1> QED
    BY <1>1, <1>2, <1>3 DEF WriterPaths

(* A writer begins.                                                        *)
LEMMA BeginListKeeps ==
  ASSUME ListsSane, ListsInv, failures' \in Nat, NEW w \in Editors, NEW f \in ListForm,
         f.op = "empty" => C!KindOf(f.id) = "size-groups", C!Begin(w, f)
  PROVE  ListsInv'
  <1> USE DEF ListsInv
  <1>1. /\ listPc[w] = "idle"
        /\ listForm' = [listForm EXCEPT ![w] = f]
        /\ listPc' = [listPc EXCEPT ![w] = "write"]
        /\ UNCHANGED <<kinds, listed, listedReplica, cache, list, total, listLate>>
        /\ UNCHANGED <<paths, found, staleLists>>
    BY DEF C!Begin, C!Goto, C!readers
  <1>2. /\ \A v \in Editors : listPc'[v] = IF v = w THEN "write" ELSE listPc[v]
        /\ \A r \in Readers : listPc'[r] = listPc[r]
    BY <1>1, TypesOf DEF ListsSane
  <1>3. ListTypes'
    BY <1>1, <1>2, TypesOf, TypesThen
  <1>4. \A v \in Editors : listForm'[v] = IF v = w THEN f ELSE listForm[v]
    BY <1>1, TypesOf
  <1>5. found[w] = {} /\ paths[w] = <<>>
    BY <1>1 DEF WriterPaths
  <1>6. WriterPaths'
    BY <1>1, <1>2, <1>4, <1>5, WritersThen
  <1>7. ReaderKnows'
    BY <1>1, <1>2, ReadersStay
  <1>8. C!FreshUnlessLate'
    BY <1>1, StaysFresh DEF Removing
  <1> QED
    BY <1>3, <1>6, <1>7, <1>8

(* A writer is done, and has nothing to remove.                            *)
LEMMA FinishIs ==
  ASSUME ListTypes, NEW w \in Editors, C!Finish(w)
  PROVE  /\ listPc' = [listPc EXCEPT ![w] = "idle"]
         /\ listForm' = [listForm EXCEPT ![w] = None]
         /\ paths' = [paths EXCEPT ![w] = <<>>] /\ paths'[w] = <<>>
         /\ found' = [found EXCEPT ![w] = {}] /\ found'[w] = {}
         /\ listPc'[w] = "idle"
         /\ \A v \in Editors \ {w} :
              /\ listPc'[v] = listPc[v] /\ paths'[v] = paths[v]
              /\ found'[v] = found[v] /\ listForm'[v] = listForm[v]
  BY TypesOf DEF C!Finish, C!Goto

(* A handler ends: whatever it leaves behind is stale or removed.          *)
LEMMA FinishKeeps ==
  ASSUME ListsSane, ListsInv, failures' \in Nat, NEW w \in Editors, C!Finish(w),
         UNCHANGED <<kinds, listed, listedReplica, list, total, listLate>>,
         cache' = [l \in C!Lists |-> cache'[l]], staleLists' \subseteq C!Lists,
         \A l \in C!Lists : cache'[l] # None =>
           /\ cache'[l] = cache[l]
           /\ l \notin staleLists' => l \notin staleLists /\ ~Removing(w, l)
  PROVE  ListsInv'
  <1> USE DEF ListsInv
  <1>1. \A r \in Readers : listPc'[r] = listPc[r]
    BY FinishIs, TypesOf DEF ListsSane
  <1>2. ListTypes'
    <2>1. \A l \in C!Lists : cache'[l] # None => Answerable(cache'[l])
      BY TypesOf
    <2>2. <<>> \in Seq(C!KindNames) /\ {} \in SUBSET C!Lists
      OBVIOUS
    <2>a. /\ paths' = [paths EXCEPT ![w] = <<>>] /\ paths \in [Editors -> Seq(C!KindNames)]
          /\ found' = [found EXCEPT ![w] = {}] /\ found \in [Editors -> SUBSET C!Lists]
          /\ listForm' = [listForm EXCEPT ![w] = None]
          /\ listForm = [v \in Editors |-> listForm[v]]
      BY FinishIs, TypesOf
    <2>3. /\ paths' \in [Editors -> Seq(C!KindNames)]
          /\ found' \in [Editors -> SUBSET C!Lists]
          /\ listForm' = [v \in Editors |-> listForm'[v]]
      BY <2>2, <2>a
    <2>4. /\ listPc' \in [C!Requests -> {"idle", "count", "find", "write", "keys", "del"}]
          /\ \A v \in Editors : listPc'[v] \in {"idle", "write", "keys", "del"}
      <3>1. /\ listPc' = [listPc EXCEPT ![w] = "idle"]
            /\ \A v \in Editors : v # w => listPc'[v] = listPc[v]
            /\ listPc'[w] = "idle"
        BY FinishIs
      <3>2. /\ listPc \in [C!Requests -> {"idle", "count", "find", "write", "keys", "del"}]
            /\ \A v \in Editors : listPc[v] \in {"idle", "write", "keys", "del"}
        BY TypesOf
      <3> QED
        BY <3>1, <3>2
    <2> QED
      BY <1>1, <2>1, <2>3, <2>4, TypesOf, TypesThen
  <1>3. WriterPaths'
    BY FinishIs, WritersThen
  <1>4. ReaderKnows'
    BY <1>1, ReadersStay
  <1>5. \A v \in Editors, l \in C!Lists : Removing(v, l) /\ v # w => Removing(v, l)'
    BY FinishIs DEF Removing
  <1>6. C!FreshUnlessLate'
    BY <1>5, StaysFresh
  <1> QED
    BY <1>2, <1>3, <1>4, <1>6

(* The unique index refuses the row: nothing was to be removed.            *)
LEMMA RefuseKeeps ==
  ASSUME ListsSane, ListsInv, failures' \in Nat, NEW w \in Editors, C!Refuse(w)
  PROVE  ListsInv'
  <1>1. /\ listPc[w] = "write" /\ listForm[w].op \in {"create", "update"} /\ C!Finish(w)
        /\ UNCHANGED <<kinds, listed, listedReplica, cache, list, total, listLate, staleLists>>
    BY DEF C!Refuse, C!Noticed, C!Refused, C!readers
  <1>2. paths[w] = <<>> /\ found[w] = {}
    BY <1>1 DEF ListsInv, WriterPaths
  <1>3. \A l : ~Removing(w, l)
    BY <1>2 DEF Removing, C!ToSet
  <1>4. cache' = [l \in C!Lists |-> cache'[l]] /\ staleLists' \subseteq C!Lists
    BY <1>1, TypesOf DEF ListsInv
  <1> QED
    BY <1>1, <1>3, <1>4, FinishKeeps

(* A handler ends early: what it was to remove is marked.                  *)
LEMMA ListCrashKeeps ==
  ASSUME ListsSane, ListsInv, failures' \in Nat, NEW w \in Editors, C!Crash(w)
  PROVE  ListsInv'
  <1>1. /\ staleLists' = staleLists \union C!ToRemove(w) /\ C!Finish(w)
        /\ UNCHANGED <<kinds, listed, listedReplica, cache, list, total, listLate>>
    BY DEF C!Crash, C!readers
  <1>2. C!ToRemove(w) = {l \in C!Lists : cache[l] # None /\ Removing(w, l)}
    BY DEF C!ToRemove, Removing
  <1>3. cache' = [l \in C!Lists |-> cache'[l]] /\ staleLists' \subseteq C!Lists
    BY <1>1, <1>2, TypesOf DEF ListsInv
  <1> QED
    BY <1>1, <1>2, <1>3, FinishKeeps

(* KEYS: the lists under the next path are found, or are not there.        *)
LEMMA KeysKeep ==
  ASSUME ListsSane, ListsInv, failures' \in Nat, NEW w \in Editors, C!Keys(w)
  PROVE  ListsInv'
  <1> USE DEF ListsInv
  <1> DEFINE hits == {l \in C!Lists : l[1] = Head(paths[w]) /\ cache[l] # None}
  <1>1. /\ listPc[w] = "keys" /\ paths[w] # <<>>
        /\ found' = [found EXCEPT ![w] = hits]
        /\ paths' = [paths EXCEPT ![w] = Tail(@)]
        /\ listPc' = [listPc EXCEPT ![w] = "del"]
        /\ UNCHANGED <<kinds, listed, listedReplica, cache, list, total, listLate, listForm, staleLists>>
    BY DEF C!Keys, C!Goto, C!readers
  <1>2. /\ listPc'[w] = "del" /\ found'[w] = hits /\ paths'[w] = Tail(paths[w])
        /\ \A v \in Editors \ {w} :
              listPc'[v] = listPc[v] /\ paths'[v] = paths[v] /\ found'[v] = found[v]
        /\ \A r \in Readers : listPc'[r] = listPc[r]
    BY <1>1, TypesOf DEF ListsSane
  <1>3. paths[w] \in Seq(C!KindNames) /\ Tail(paths[w]) \in Seq(C!KindNames)
    BY <1>1, TypesOf
  <1>4. hits \subseteq C!Lists
    OBVIOUS
  <1>5. found[w] = {}
    BY <1>1 DEF WriterPaths
  <1>6. \A l \in C!Lists : cache[l] # None /\ Removing(w, l) => Removing(w, l)'
    <2> SUFFICES ASSUME NEW l \in C!Lists, cache[l] # None, NEW i \in DOMAIN paths[w], l[1] = paths[w][i]
                 PROVE  l \in hits \/ \E j \in DOMAIN Tail(paths[w]) : l[1] = Tail(paths[w])[j]
      BY <1>2, <1>5 DEF Removing, C!ToSet
    <2>1. CASE i = 1
      BY <1>3, <2>1
    <2>2. CASE i # 1
      <3>1. i - 1 \in DOMAIN Tail(paths[w]) /\ Tail(paths[w])[i - 1] = paths[w][i]
        BY <1>1, <1>3, <2>2
      <3> QED
        BY <3>1
    <2> QED
      BY <2>1, <2>2
  <1> HIDE DEF hits
  <1>7. ListTypes'
    <2>1. paths' \in [Editors -> Seq(C!KindNames)] /\ found' \in [Editors -> SUBSET C!Lists]
      BY <1>1, <1>3, <1>4, TypesOf
    <2> QED
      BY <1>1, <1>2, <2>1, TypesOf, TypesThen
  <1>8. WriterPaths'
    BY <1>1, <1>2, WritersThen
  <1>9. ReaderKnows'
    BY <1>1, <1>2, ReadersStay
  <1>10. \A v \in Editors, l \in C!Lists : v # w /\ Removing(v, l) => Removing(v, l)'
    BY <1>2 DEF Removing
  <1>11. C!FreshUnlessLate'
    BY <1>1, <1>6, <1>10, StaysFresh
  <1> QED
    BY <1>7, <1>8, <1>9, <1>11

(* DEL: what was found is removed.                                         *)
LEMMA DelKeeps ==
  ASSUME ListsSane, ListsInv, failures' \in Nat, NEW w \in Editors, C!Del(w)
  PROVE  ListsInv'
  <1> USE DEF ListsInv
  <1>1. /\ listPc[w] = "del"
        /\ cache' = [l \in C!Lists |-> IF l \in found[w] THEN None ELSE cache[l]]
        /\ staleLists' = staleLists \ found[w]
        /\ UNCHANGED <<kinds, listed, listedReplica, list, total, listLate>>
    BY DEF C!Del, C!Drop, C!readers
  <1>2. \A l \in C!Lists : cache'[l] # None =>
          cache'[l] = cache[l] /\ l \notin found[w] /\ (l \notin staleLists' => l \notin staleLists)
    BY <1>1
  <1>3. staleLists' \subseteq C!Lists
    BY <1>1, TypesOf
  <1>4. CASE paths[w] = <<>>
    <2>1. C!Finish(w)
      BY <1>4 DEF C!Del
    <2>2. \A l : Removing(w, l) => l \in found[w]
      BY <1>4 DEF Removing, C!ToSet
    <2>3. cache' = [l \in C!Lists |-> cache'[l]]
      BY <1>1
    <2> QED
      BY <1>1, <1>2, <1>3, <2>1, <2>2, <2>3, FinishKeeps
  <1>5. CASE paths[w] # <<>>
    <2>1. /\ listPc' = [listPc EXCEPT ![w] = "keys"]
          /\ found' = [found EXCEPT ![w] = {}]
          /\ UNCHANGED <<listForm, paths>>
      BY <1>5 DEF C!Del, C!Goto
    <2>2. /\ listPc'[w] = "keys" /\ found'[w] = {}
          /\ \A v \in Editors \ {w} : listPc'[v] = listPc[v] /\ found'[v] = found[v]
          /\ \A r \in Readers : listPc'[r] = listPc[r]
      BY <2>1, TypesOf DEF ListsSane
    <2>3. ListTypes'
      <3>1. {} \in SUBSET C!Lists
        OBVIOUS
      <3>2. found' \in [Editors -> SUBSET C!Lists]
        BY <2>1, <3>1, TypesOf
      <3> QED
        BY <1>1, <1>2, <1>3, <2>1, <2>2, <3>2, TypesOf, TypesThen
    <2>4. WriterPaths'
      BY <1>1, <2>1, <2>2, WritersThen
    <2>5. ReaderKnows'
      BY <1>1, <2>2, ReadersStay
    <2>6. \A v \in Editors, l \in C!Lists : Removing(v, l) /\ cache'[l] # None => Removing(v, l)'
      BY <1>2, <2>1, <2>2 DEF Removing
    <2>7. C!FreshUnlessLate'
      BY <1>1, <1>2, <2>6, StaysFresh
    <2> QED
      BY <2>3, <2>4, <2>5, <2>7
  <1> QED
    BY <1>4, <1>5

(* The replica catches up.                                                 *)
LEMMA ListReplicateKeeps ==
  ASSUME ListsSane, ListsInv, failures' \in Nat, C!Replicate
  PROVE  ListsInv'
  <1> USE DEF ListsInv
  <1>1. /\ listedReplica # listed /\ listedReplica' = listed
        /\ UNCHANGED <<kinds, listed, cache, list, total, listLate, listPc, listForm>>
        /\ UNCHANGED <<paths, found, staleLists>>
    BY DEF C!Replicate, C!readers, C!writers
  <1>2. ListTypes'
    BY <1>1, TypesOf, TypesThen
  <1>3. WriterPaths'
    BY <1>1, WritersStay
  <1>4. ReaderKnows'
    BY <1>1, SameKinds DEF ReaderKnows
  <1>5. C!FreshUnlessLate'
    BY <1>1, StaysFresh DEF Removing
  <1> QED
    BY <1>2, <1>3, <1>4, <1>5

(* A list is removed after ten minutes.                                    *)
LEMMA ListExpireKeeps ==
  ASSUME ListsSane, ListsInv, failures' \in Nat, NEW l \in C!Lists, C!Expire(l)
  PROVE  ListsInv'
  <1> USE DEF ListsInv
  <1>1. /\ cache' = [m \in C!Lists |-> IF m \in {l} THEN None ELSE cache[m]]
        /\ staleLists' = staleLists \ {l}
        /\ UNCHANGED <<kinds, listed, listedReplica, list, total, listLate, listPc, listForm>>
        /\ UNCHANGED <<paths, found>>
    BY DEF C!Expire, C!Drop, C!readers, C!writers
  <1>2. ListTypes'
    BY <1>1, TypesOf, TypesThen
  <1>3. WriterPaths'
    BY <1>1, WritersStay
  <1>4. ReaderKnows'
    BY <1>1, ReadersStay
  <1>5. C!FreshUnlessLate'
    BY <1>1, StaysFresh DEF Removing
  <1> QED
    BY <1>2, <1>3, <1>4, <1>5

(* The rows a write changes are of one kind.                               *)
WrittenKind(f) == IF f.op = "empty" THEN "size-options" ELSE C!KindOf(f.id)

(* A write leaves the rows of other kinds alone.                           *)
LEMMA WrittenChanges ==
  ASSUME ListTypes, NEW f \in ListForm
  PROVE  /\ C!Written(f) \in [C!Rows -> C!Row \union {None}]
         /\ \A i \in C!Rows : C!KindOf(i) # WrittenKind(f) => C!Written(f)[i] = listed[i]
  <1>1. listed \in [C!Rows -> C!Row \union {None}]
    BY TypesOf
  <1>2. CASE f.op = "create"
    <2>1. /\ f.id \in C!Rows
          /\ [code |-> f.code, link |-> f.link, live |-> TRUE] \in C!Row
      BY <1>2 DEF ListForm, C!Row
    <2>2. C!Written(f) = [listed EXCEPT ![f.id] = [code |-> f.code, link |-> f.link, live |-> TRUE]]
      BY <1>2 DEF C!Written
    <2>3. WrittenKind(f) = C!KindOf(f.id)
      BY <1>2 DEF WrittenKind
    <2> QED
      BY <1>1, <2>1, <2>2, <2>3
  <1>3. CASE f.op = "update"
    <2>1. f.id \in C!Rows /\ f.code \in Codes /\ f.link \in Firsts \union {None}
      BY <1>3 DEF ListForm
    <2>2. WrittenKind(f) = C!KindOf(f.id)
      BY <1>3 DEF WrittenKind
    <2>3. CASE f.id \in C!Live(listed) /\ ~C!Refused(f)
      <3>1. C!Written(f) = [listed EXCEPT ![f.id].code = f.code, ![f.id].link = f.link]
        BY <1>3, <2>3 DEF C!Written
      <3>2. listed[f.id] \in C!Row
        BY <1>1, <2>3 DEF C!Live
      <3> DEFINE row == [[listed[f.id] EXCEPT !.code = f.code] EXCEPT !.link = f.link]
      <3>3. row \in C!Row
        BY <2>1, <3>2 DEF C!Row
      <3>4. C!Written(f) = [listed EXCEPT ![f.id] = row]
        BY <1>1, <2>1, <3>1
      <3> HIDE DEF row
      <3> QED
        BY <1>1, <2>1, <2>2, <3>3, <3>4
    <2>4. CASE ~(f.id \in C!Live(listed) /\ ~C!Refused(f))
      <3>1. C!Written(f) = listed
        BY <1>3, <2>4 DEF C!Written
      <3> QED
        BY <1>1, <3>1
    <2> QED
      BY <2>3, <2>4
  <1>4. CASE f.op = "empty"
    <2>1. C!Written(f) =
            [i \in C!Rows |-> IF C!KindOf(i) = "size-options" /\ listed[i] # None /\ listed[i].link = f.id
                              THEN None ELSE listed[i]]
      BY <1>4 DEF C!Written
    <2> QED
      BY <1>1, <1>4, <2>1 DEF WrittenKind
  <1>5. CASE f.op = "delete"
    <2>1. f.id \in C!Rows /\ WrittenKind(f) = C!KindOf(f.id)
      BY <1>5 DEF ListForm, WrittenKind
    <2>2. CASE f.id \in C!Live(listed)
      <3>1. C!Written(f) = IF C!KindOf(f.id) = "size-options" THEN [listed EXCEPT ![f.id] = None]
                           ELSE [listed EXCEPT ![f.id].live = FALSE]
        BY <1>5, <2>2 DEF C!Written
      <3>2. listed[f.id] \in C!Row
        BY <1>1, <2>2 DEF C!Live
      <3>3. [listed[f.id] EXCEPT !.live = FALSE] \in C!Row
        BY <3>2 DEF C!Row
      <3> QED
        BY <1>1, <2>1, <3>1, <3>3
    <2>3. CASE f.id \notin C!Live(listed)
      <3>1. C!Written(f) = listed
        BY <1>5, <2>3 DEF C!Written
      <3> QED
        BY <1>1, <3>1
    <2> QED
      BY <2>2, <2>3
  <1> QED
    BY <1>2, <1>3, <1>4, <1>5 DEF ListForm

(* A write: readers that have read rows are late, lists of the kind are to *)
(* be removed, and other lists are not about what was written.             *)
LEMMA WriteListKeeps ==
  ASSUME ListsSane, ListsInv, failures' \in Nat, NEW w \in Editors, NEW failed \in BOOLEAN,
         C!Write(w, failed)
  PROVE  ListsInv'
  <1> USE DEF ListsInv
  <1> DEFINE f == listForm[w]
             clears == C!HandlerOf(f.id).clears
  <1>1. /\ listPc[w] = "write" /\ f \in ListForm /\ found[w] = {}
        /\ f.op = "empty" => C!KindOf(f.id) = "size-groups"
        /\ paths[w] = <<>> \/ paths[w] = clears
    BY DEF C!Write, WriterPaths
  <1>2. /\ listed' = listed \/ listed' = C!Written(f)
        /\ listLate' = [r \in Readers |-> listLate[r] \/ (listPc[r] = "find" /\ listed' # listed)]
        /\ paths' = [paths EXCEPT ![w] = clears]
        /\ UNCHANGED <<kinds, listedReplica, cache, list, total, found, staleLists>>
    BY DEF C!Write
  <1>3. /\ f.op = "empty" => listForm' = [listForm EXCEPT ![w].op = "delete"] /\ listPc' = listPc
        /\ f.op # "empty" =>
             /\ listPc' = [listPc EXCEPT ![w] = IF paths'[w] = <<>> THEN "del" ELSE "keys"]
             /\ listForm' = listForm
    BY DEF C!Write, C!Goto
  <1>4. TwoKinds /\ C!KindOf(f.id) \in C!KindNames
    BY KindsKnown DEF TwoKinds, C!KindOf
  <1>5. clears \in Seq(C!KindNames) /\ C!ToSet(clears) = Clears(C!KindOf(f.id))
    BY <1>4, HandlerFields DEF C!HandlerOf, Clears
  <1>6. WrittenKind(f) \in C!KindNames /\ Clears(WrittenKind(f)) \subseteq C!ToSet(clears)
    <2>1. CASE f.op = "empty"
      <3>1. Clears("size-options") = Clears("size-groups")
        BY DEF Clears, C!Handlers, C!KindNames, C!SizeOption, C!SizeGroup, C!Kind
      <3> QED
        BY <1>1, <1>5, <2>1, <3>1 DEF WrittenKind, C!KindNames
    <2>2. CASE f.op # "empty"
      BY <1>4, <1>5, <2>2 DEF WrittenKind
    <2> QED
      BY <2>1, <2>2
  <1> HIDE DEF clears
  <1>7. /\ paths'[w] = clears
        /\ \A v \in Editors \ {w} :
             paths'[v] = paths[v] /\ listPc'[v] = listPc[v] /\ listForm'[v] = listForm[v]
        /\ \A r \in Readers : listPc'[r] = listPc[r]
    BY <1>2, <1>3, TypesOf DEF ListsSane
  <1>8. ListTypes'
    <2>1. listed' \in [C!Rows -> C!Row \union {None}]
      BY <1>1, <1>2, TypesOf, WrittenChanges
    <2>2. paths' \in [Editors -> Seq(C!KindNames)] /\ listLate' \in [Readers -> BOOLEAN]
      BY <1>2, <1>5, TypesOf
    <2>3. /\ listPc' \in [C!Requests -> {"idle", "count", "find", "write", "keys", "del"}]
          /\ \A v \in Editors : listPc'[v] \in {"idle", "write", "keys", "del"}
          /\ listForm' = [v \in Editors |-> listForm'[v]]
      BY <1>3, TypesOf
    <2> QED
      BY <1>2, <1>7, <2>1, <2>2, <2>3, TypesOf, TypesThen
  <1>9. WriterPaths'
    <2>1. CASE f.op = "empty"
      <3>1. listForm'[w] = [f EXCEPT !.op = "delete"] /\ listPc'[w] = "write"
        BY <1>1, <1>3, <2>1, TypesOf
      <3>2. /\ listForm'[w] \in ListForm /\ listForm'[w].op = "delete" /\ listForm'[w].id = f.id
        BY <1>1, <2>1, <3>1 DEF ListForm
      <3> QED
        BY <1>1, <1>2, <1>7, <3>1, <3>2, WritersThen DEF clears
    <2>2. CASE f.op # "empty"
      <3>1. listPc'[w] \in {"del", "keys"}
        BY <1>3, <2>2, TypesOf
      <3> QED
        BY <1>1, <1>2, <1>7, <3>1, WritersThen
    <2> QED
      BY <2>1, <2>2
  <1>10. ReaderKnows'
    <2> SUFFICES ASSUME NEW q \in Readers
                 PROVE  /\ listPc'[q] # "idle" => list'[q] \in C!Lists
                        /\ listPc'[q] = "count" => C!Counted(list'[q])
                        /\ listPc'[q] # "find" => total'[q] = 0
                        /\ listPc'[q] = "find" /\ ~listLate'[q] =>
                             /\ listedReplica' = listed'
                             /\ total'[q] = C!Answer(listed', list'[q]).total
      BY <1>2, ReadersThen
    <2>1. listPc'[q] = "find" /\ ~listLate'[q] => listed' = listed /\ ~listLate[q]
      BY <1>2, <1>7
    <2> QED
      BY <1>2, <1>7, <2>1 DEF ReaderKnows
  <1>11. C!FreshUnlessLate'
    <2>1. C!Lists' = C!Lists /\ \A l : C!Answer(listed, l)' = C!Answer(listed', l)
      BY <1>2, SameKinds
    <2> SUFFICES ASSUME NEW l \in C!Lists, cache'[l] # None, l \notin staleLists',
                        \A v \in Editors : ~Removing(v, l)'
                 PROVE  Shown(l, cache'[l]) = Shown(l, C!Answer(listed', l))
      BY <2>1, FreshThen
    <2>2. \A v \in Editors : Removing(v, l) => Removing(v, l)'
      <3>1. ASSUME NEW v \in Editors, v # w, Removing(v, l) PROVE Removing(v, l)'
        BY <1>2, <1>7, <3>1 DEF Removing
      <3>2. Removing(w, l) => Removing(w, l)'
        <4>1. C!ToSet(<<>>) = {}
          BY DEF C!ToSet
        <4> QED
          BY <1>1, <1>2, <1>7, <4>1 DEF Removing
      <3> QED
        BY <3>1, <3>2
    <2>3. Shown(l, cache[l]) = Shown(l, C!Answer(listed, l))
      BY <1>2, <2>2, FreshIs
    <2>4. l[1] \notin Clears(WrittenKind(f))
      BY <1>2, <1>6, <1>7 DEF Removing
    <2>5. Shown(l, C!Answer(listed', l)) = Shown(l, C!Answer(listed, l))
      <3>1. \A i \in C!Rows : C!KindOf(i) # WrittenKind(f) => listed'[i] = listed[i]
        BY <1>1, <1>2, WrittenChanges
      <3> QED
        BY <1>4, <1>6, <2>4, <3>1, ListUnaffected
    <2> QED
      BY <1>2, <2>3, <2>5
  <1> QED
    BY <1>8, <1>9, <1>10, <1>11

(* A reader is answered from the cache, or nothing happens.                *)
LEMMA ListsStutter == ASSUME ListsInv, failures' \in Nat, UNCHANGED C!vars PROVE ListsInv'
  <1> USE DEF ListsInv
  <1>1. /\ UNCHANGED <<kinds, listed, listedReplica, cache, listPc, list, total, listForm>>
        /\ UNCHANGED <<paths, found, listLate, staleLists>>
    BY DEF C!vars
  <1>2. ListTypes'
    BY <1>1, TypesOf, TypesThen
  <1>3. WriterPaths'
    BY <1>1, WritersStay
  <1>4. ReaderKnows'
    BY <1>1, ReadersStay
  <1>5. C!FreshUnlessLate'
    BY <1>1, StaysFresh DEF Removing
  <1> QED
    BY <1>2, <1>3, <1>4, <1>5

(* A writer's request.                                                     *)
LEMMA RequestKeeps ==
  ASSUME ListsSane, ListsInv, failures' \in Nat, NEW w \in Editors, NEW i \in C!Rows,
         \/ \E code \in Codes, link \in Firsts \union {None} :
              C!CreateRow(w, i, code, link) \/ C!UpdateRow(w, i, code, link)
         \/ C!DeleteRow(w, i)
  PROVE  ListsInv'
  <1>1. ASSUME NEW code \in Codes, NEW link \in Firsts \union {None},
               C!CreateRow(w, i, code, link) \/ C!UpdateRow(w, i, code, link)
        PROVE  ListsInv'
    <2>1. PICK op \in {"create", "update"} :
            C!Begin(w, [op |-> op, id |-> i, code |-> code, link |-> link])
      BY <1>1 DEF C!CreateRow, C!UpdateRow
    <2> DEFINE f == [op |-> op, id |-> i, code |-> code, link |-> link]
    <2>2. f \in ListForm /\ f.op # "empty"
      BY DEF ListForm
    <2> HIDE DEF f
    <2>3. C!Begin(w, f)
      BY <2>1 DEF f
    <2> QED
      BY <2>2, <2>3, BeginListKeeps
  <1>2. CASE C!DeleteRow(w, i)
    <2> DEFINE f == [op |-> IF C!KindOf(i) = "size-groups" THEN "empty" ELSE "delete", id |-> i]
    <2>1. f \in ListForm /\ (f.op = "empty" => C!KindOf(f.id) = "size-groups")
      BY DEF ListForm
    <2>2. C!Begin(w, f)
      BY <1>2 DEF C!DeleteRow
    <2> HIDE DEF f
    <2> QED
      BY <2>1, <2>2, BeginListKeeps
  <1> QED
    BY <1>1, <1>2

(* Failures are counted.                                                   *)
LEMMA FailuresCount == ASSUME ListsInv, [C!Next]_(C!vars) PROVE failures' \in Nat
  <1>1. failures \in Nat
    BY DEF ListsInv, ListTypes, C!TypeOK
  <1>2. \A failed : C!Fails(failed) => failures' \in Nat
    BY <1>1 DEF C!Fails
  <1>3. ASSUME NEW r \in Readers,
               \/ \E l \in C!Lists : C!Hit(r, l) \/ C!Miss(r, l)
               \/ \E failed \in BOOLEAN : C!Count(r, failed)
               \/ C!Store(r)
               \/ \E data \in C!Remains(list[r]) : C!StoreRemains(r, data)
        PROVE  failures' \in Nat
    BY <1>1, <1>2, <1>3 DEF C!Hit, C!vars, C!Miss, C!Count, C!Store, C!StoreRemains
  <1>4. ASSUME NEW w \in Editors, NEW i \in C!Rows,
               \/ \E code \in Codes, link \in Firsts \union {None} :
                    C!CreateRow(w, i, code, link) \/ C!UpdateRow(w, i, code, link)
               \/ C!DeleteRow(w, i)
        PROVE  failures' \in Nat
    BY <1>2, <1>4 DEF C!CreateRow, C!UpdateRow, C!DeleteRow
  <1>5. ASSUME NEW w \in Editors,
               \/ \E failed \in BOOLEAN : C!Write(w, failed)
               \/ C!Refuse(w) \/ C!Keys(w) \/ C!Del(w) \/ C!Crash(w)
        PROVE  failures' \in Nat
    BY <1>1, <1>2, <1>5 DEF C!Write, C!Refuse, C!Keys, C!Del, C!Crash
  <1>6. CASE C!Replicate \/ (\E l \in C!Lists : C!Expire(l)) \/ UNCHANGED C!vars
    BY <1>1, <1>6 DEF C!Replicate, C!Expire, C!vars
  <1> QED
    BY <1>3, <1>4, <1>5, <1>6 DEF C!Next

(* Every step keeps the invariant.                                         *)
LEMMA ListsNext == ListsSane /\ ListsInv /\ [C!Next]_(C!vars) => ListsInv'
  <1> SUFFICES ASSUME ListsSane, ListsInv, [C!Next]_(C!vars) PROVE ListsInv'
    OBVIOUS
  <1>1. failures' \in Nat
    BY FailuresCount
  <1>2. ASSUME NEW r \in Readers,
               \/ \E l \in C!Lists : C!Hit(r, l) \/ C!Miss(r, l)
               \/ \E failed \in BOOLEAN : C!Count(r, failed)
        PROVE  ListsInv'
    BY <1>1, <1>2, MissKeeps, CountKeeps, ListsStutter DEF C!Hit
  <1>3. ASSUME NEW r \in Readers,
               C!Store(r) \/ \E data \in C!Remains(list[r]) : C!StoreRemains(r, data)
        PROVE  ListsInv'
    BY <1>1, <1>3, StoreKeeps, RemainsKeep
  <1>4. ASSUME NEW w \in Editors, NEW i \in C!Rows,
               \/ \E code \in Codes, link \in Firsts \union {None} :
                    C!CreateRow(w, i, code, link) \/ C!UpdateRow(w, i, code, link)
               \/ C!DeleteRow(w, i)
        PROVE  ListsInv'
    BY <1>1, <1>4, RequestKeeps
  <1>5. ASSUME NEW w \in Editors,
               \/ \E failed \in BOOLEAN : C!Write(w, failed)
               \/ C!Refuse(w) \/ C!Keys(w) \/ C!Del(w) \/ C!Crash(w)
        PROVE  ListsInv'
    BY <1>1, <1>5, WriteListKeeps, RefuseKeeps, KeysKeep, DelKeeps, ListCrashKeeps
  <1>6. CASE C!Replicate \/ (\E l \in C!Lists : C!Expire(l)) \/ UNCHANGED C!vars
    BY <1>1, <1>6, ListReplicateKeeps, ListExpireKeeps, ListsStutter
  <1> QED
    BY <1>2, <1>3, <1>4, <1>5, <1>6 DEF C!Next

(* There is a least code.                                                  *)
LEMMA LeastCode == ASSUME ListsSane PROVE C!Min(Codes) \in Codes
  <1> DEFINE Below(c) == {d \in Codes : d <= c}
             B == {Below(c) : c \in Codes}
  <1>1. IsFiniteSet(Codes) /\ \A d \in Codes : d \in Int
    BY DEF ListsSane
  <1>7. B \in SUBSET SUBSET Codes
    OBVIOUS
  <1>8. B # {}
    BY DEF ListsSane
  <1>2. \A T : T \in B <=> \E c \in Codes : T = Below(c)
    OBVIOUS
  <1>3. \A c \in Codes : \A d : d \in Below(c) <=> d \in Codes /\ d <= c
    OBVIOUS
  <1> HIDE DEF B, Below
  <1>4. PICK T \in B : \A U \in B : U \subseteq T => U = T
    BY <1>1, <1>7, <1>8, MinimalSubset
  <1>5. PICK c \in Codes : T = Below(c)
    BY <1>2
  <1>6. \A d \in Codes : c <= d
    <2> SUFFICES ASSUME NEW d \in Codes, ~(c <= d) PROVE FALSE
      OBVIOUS
    <2>1. d <= c /\ c <= c
      BY <1>1
    <2>2. Below(d) \subseteq Below(c)
      <3> SUFFICES ASSUME NEW e \in Below(d) PROVE e \in Below(c)
        OBVIOUS
      <3>1. e \in Codes /\ e <= d
        BY <1>3
      <3>2. e <= c
        BY <1>1, <2>1, <3>1
      <3> QED
        BY <1>3, <3>1, <3>2
    <2>3. Below(d) = Below(c)
      BY <1>2, <1>4, <1>5, <2>2
    <2> QED
      BY <1>3, <2>1, <2>3
  <1> QED
    BY <1>6 DEF C!Min

(* A first list is yet to be stored.                                       *)
LEMMA ListsInit == ASSUME ListsSane PROVE C!Init => ListsInv
  <1> SUFFICES ASSUME C!Init PROVE ListsInv
    OBVIOUS
  <1>1. C!Min(Codes) \in Codes
    BY LeastCode
  <1>2. listed \in [C!Rows -> C!Row \union {None}]
    <2>1. PICK first \in SUBSET Firsts, second \in SUBSET {CHOOSE i \in Seconds : TRUE} :
            listed = [i \in C!Rows |->
              IF i \in first THEN [code |-> C!Min(Codes), link |-> None, live |-> TRUE]
              ELSE IF i \in second
                   THEN [code |-> C!Min(Codes), live |-> TRUE,
                         link |-> IF first = {} THEN None ELSE CHOOSE j \in first : TRUE]
              ELSE None]
      BY DEF C!Init
    <2> DEFINE link == IF first = {} THEN None ELSE CHOOSE j \in first : TRUE
    <2>2. link \in Firsts \union {None}
      OBVIOUS
    <2> HIDE DEF link
    <2>3. /\ [code |-> C!Min(Codes), link |-> None, live |-> TRUE] \in C!Row
          /\ [code |-> C!Min(Codes), live |-> TRUE, link |-> link] \in C!Row
      BY <1>1, <2>2 DEF C!Row
    <2> QED
      BY <2>1, <2>3 DEF link
  <1>3. /\ listedReplica = listed /\ kinds \in DOMAIN MCEdits
        /\ cache = [l \in C!Lists |-> None] /\ staleLists = {}
        /\ listPc = [r \in C!Requests |-> "idle"]
        /\ list = [r \in Readers |-> None] /\ total = [r \in Readers |-> 0]
        /\ listLate = [r \in Readers |-> FALSE] /\ failures = 0
        /\ listForm = [w \in Editors |-> None]
        /\ paths = [w \in Editors |-> <<>>] /\ found = [w \in Editors |-> {}]
    BY DEF C!Init
  <1>4. \A w \in Editors : paths[w] \in Seq(C!KindNames) /\ paths[w] \in Seq(DOMAIN C!Handlers)
    BY <1>3
  <1>5. /\ \A r \in Readers : r \in C!Requests /\ listPc[r] = "idle"
        /\ \A w \in Editors : w \in C!Requests /\ listPc[w] = "idle"
    BY <1>3 DEF C!Requests
  <1>6. ListTypes
    BY <1>2, <1>3, <1>4, <1>5 DEF ListTypes, C!TypeOK
  <1>7. ReaderKnows /\ WriterPaths
    BY <1>3, <1>5 DEF ReaderKnows, WriterPaths
  <1>8. C!FreshUnlessLate
    BY <1>3 DEF C!FreshUnlessLate
  <1> QED
    BY <1>6, <1>7, <1>8 DEF ListsInv

(* A stored list is what the tables say, names in lists of customers and   *)
(* products aside, unless its reader was late, or its COUNT or its Find    *)
(* failed, or a writer ended before it could remove it, or is about to:    *)
(* for every master data handler, however its queries fail.  A Find that   *)
(* reads nothing once rows were counted leaves no wrong list.              *)
THEOREM ListsAreFresh == ASSUME ListsSane PROVE C!Spec => []FreshUnlessLate
  <1>1. ListsInv => FreshUnlessLate
    BY DEF ListsInv, FreshUnlessLate
  <1>2. C!Init => ListsInv
    BY ListsInit
  <1>3. ListsInv /\ [C!Next]_(C!vars) => ListsInv'
    BY ListsNext
  <1> QED
    BY <1>1, <1>2, <1>3, PTL DEF C!Spec

(***************************************************************************)
(* All parts.                                                              *)
(***************************************************************************)

(* A behaviour is one of one part; the others stay as they begin, and the  *)
(* types of all are kept: no two rows of the firewall have one address, no *)
(* list is stored that was counted and not read, and the job moves no      *)
(* image that it has not listed.                                           *)
THEOREM TypesHold ==
  ASSUME Addresses # {}, ListsSane, ImagesSane
  PROVE  MCSpec => []TypesOK
  <1> DEFINE AllInv == ListsInv /\ FirewallInv /\ ImagesInv /\ ImageRest
  <1>1. MCInit => AllInv
    <2>1. I!Init => ImageRest
      BY DEF I!Init, ImageRest
    <2> QED
      BY <2>1, ListsInit, FirewallInit, ImagesInit DEF MCInit
  <1>2. [MCNext]_<<part, vars, lists, images>> =>
          [C!Next]_(C!vars) /\ [Next]_vars /\ [I!Next]_(I!vars)
    BY DEF MCNext, lists, images, C!vars, I!vars
  <1>3. AllInv /\ [MCNext]_<<part, vars, lists, images>> => AllInv'
    BY <1>2, ListsNext, FirewallNext, ImagesNext, RestKept
  <1>4. AllInv => TypesOK
    <2>1. SnapshotInv /\ RowsInv /\ FirewallTypes => TypeOK
      BY DEF SnapshotInv, RowsInv, FirewallTypes, TypeOK, Table, Unique
    <2> QED
      BY <2>1, ImagesTyped DEF ListsInv, ListTypes, FirewallInv, TypesOK
  <1> QED
    BY <1>1, <1>3, <1>4, PTL DEF MCSpec
=============================================================================
