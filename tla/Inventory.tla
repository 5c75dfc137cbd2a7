----------------------------- MODULE Inventory ------------------------------
(***************************************************************************)
(* services/inventory: the table product_size_stocks and the transactions  *)
(* of the document handlers that change it.                                *)
(*                                                                         *)
(* Every handler books its stock in one PostgreSQL transaction at the      *)
(* default isolation level, READ COMMITTED, and goes through one of two    *)
(* code paths:                                                             *)
(*                                                                         *)
(*   - AdjustStock, line by line: SELECT the row, then INSERT it or UPDATE *)
(*     it to the absolute value computed in Go (stock, shipment, retail    *)
(*     sell and modify documents, and the deletion of a transfer);         *)
(*   - ApplyStockDeltas: one UPSERT that adds to whatever the row holds    *)
(*     (transfers), preceded by CheckStockSufficientBatch when the         *)
(*     transfer is being created.                                          *)
(*                                                                         *)
(* One action is one SQL statement on one row, which is the grain at which *)
(* PostgreSQL interleaves transactions.  An uncommitted row version locks  *)
(* its row (or, for an inserted one, its unique-index entry) until the     *)
(* transaction ends, so locks need no variable of their own: they are the  *)
(* entries of buf that are not Clean.                                      *)
(***************************************************************************)
EXTENDS Integers, Sequences, FiniteSets, Functions

CONSTANTS
  Keys,        \* stock rows: (product_id, customer_id, size_option_id)
  Txns,        \* database transactions, one per document request
  Requests,    \* what a request books: [kind, lines]
  InitialRows, \* the tables the run may start from
  NoRow,       \* the row does not exist
  Clean,       \* the transaction holds no version of the row
  Unread,      \* the transaction has not selected the row
  None         \* no request yet, no row being written

Kinds == {"adjust", "transfer", "retransfer"}

Line == [key : Keys, qty : Int]

(* The sum of the quantities lines ask for on k: the map `agg` of          *)
(* ApplyStockDeltas and `net` of CheckStockSufficientBatch.                *)
Net(lines, k) ==
  SumFunctionOnSet([i \in DOMAIN lines |-> lines[i].qty],
                   {i \in DOMAIN lines : lines[i].key = k})

ASSUME RequestsAssumption ==
  \A r \in Requests : r.kind \in Kinds /\ r.lines \in Seq(Line)

ASSUME InitialRowsAssumption ==
  InitialRows \subseteq [Keys -> Int \union {NoRow}]

ASSUME SentinelsAssumption ==
  /\ {NoRow, Clean, Unread} \intersect Int = {}
  /\ NoRow # Clean /\ NoRow # Unread /\ Clean # Unread
  /\ None \notin Keys /\ None \notin Requests

VARIABLES
  rows,        \* the committed table
  buf,         \* buf[t][k]: t's uncommitted version of row k, or Clean
  seen,        \* seen[t][k]: the quantity t's last SELECT of k returned
  pc,          \* the statement t executes next
  req,         \* the request t books
  left,        \* AdjustStock: the lines still to book
  todo,        \* ApplyStockDeltas: the keys still to upsert
  at,          \* the row the current write statement has reached
  mine,        \* history: what t's statements have asked for so far
  stale,       \* history: rows that had changed between t's SELECT and its lock
  ledger,      \* history: initial stock plus everything committed requests asked
  clobbered    \* history: rows a stale absolute UPDATE was committed to

vars == <<rows, buf, seen, pc, req, left, todo, at, mine, stale, ledger, clobbered>>

-----------------------------------------------------------------------------
(* Helpers *)

(* A missing row counts as zero, as in have[key] of a map and in AdjustStock. *)
Val(q) == IF q = NoRow THEN 0 ELSE q

(* A SELECT at READ COMMITTED: one's own version, else the last committed. *)
Visible(t, k) == IF buf[t][k] = Clean THEN rows[k] ELSE buf[t][k]

Holders(k) == {u \in Txns : buf[u][k] # Clean}

HeldByOther(t, k) == Holders(k) \ {t} # {}

(* Only keys that really lose stock are checked.                           *)
NeedKeys(r) == {k \in Keys : Net(r.lines, k) < 0}

(* Keys whose net change is zero are left out of the VALUES list.          *)
UpsertKeys(r) == {k \in Keys : Net(r.lines, k) # 0}

Active(t) == pc[t] \notin {"idle", "committed", "aborted"}

(* The end of a transaction drops its row versions and with them its locks. *)
Release(t) ==
  /\ buf' = [buf EXCEPT ![t] = [k \in Keys |-> Clean]]
  /\ seen' = [seen EXCEPT ![t] = [k \in Keys |-> Unread]]
  /\ mine' = [mine EXCEPT ![t] = [k \in Keys |-> 0]]
  /\ left' = [left EXCEPT ![t] = <<>>]
  /\ todo' = [todo EXCEPT ![t] = {}]
  /\ at' = [at EXCEPT ![t] = None]
  /\ stale' = [stale EXCEPT ![t] = {}]

(* Mutation of Rollback: the transaction is never closed.                  *)
RollbackLeftOpen(t) ==
  /\ pc' = [pc EXCEPT ![t] = "aborted"]
  /\ UNCHANGED <<rows, buf, seen, req, left, todo, at, mine, stale, ledger, clobbered>>

(* The closure passed to Transaction returned an error. *)
Rollback(t) ==
  /\ pc' = [pc EXCEPT ![t] = "aborted"]
  /\ Release(t)
  /\ UNCHANGED <<rows, req, ledger, clobbered>>

(* t writes value q into row k, asking for a change of d. *)
WriteRow(t, k, q, d) ==
  /\ buf' = [buf EXCEPT ![t][k] = q]
  /\ mine' = [mine EXCEPT ![t][k] = @ + d]
  /\ stale' = [stale EXCEPT ![t] =
                 IF buf[t][k] = Clean /\ seen[t][k] # Unread /\ seen[t][k] # rows[k]
                 THEN @ \union {k} ELSE @]
  /\ at' = [at EXCEPT ![t] = None]

-----------------------------------------------------------------------------
(* The requests *)

Init ==
  /\ rows \in InitialRows
  /\ buf = [t \in Txns |-> [k \in Keys |-> Clean]]
  /\ seen = [t \in Txns |-> [k \in Keys |-> Unread]]
  /\ pc = [t \in Txns |-> "idle"]
  /\ req = [t \in Txns |-> None]
  /\ left = [t \in Txns |-> <<>>]
  /\ todo = [t \in Txns |-> {}]
  /\ at = [t \in Txns |-> None]
  /\ mine = [t \in Txns |-> [k \in Keys |-> 0]]
  /\ stale = [t \in Txns |-> {}]
  /\ ledger = [k \in Keys |-> Val(rows[k])]
  /\ clobbered = {}

(* AdjustStockBatch walks the lines in order. *)
BeginAdjust(t, r) ==
  /\ pc[t] = "idle"
  /\ r.kind = "adjust"
  /\ req' = [req EXCEPT ![t] = r]
  /\ left' = [left EXCEPT ![t] = r.lines]
  /\ pc' = [pc EXCEPT ![t] = "select"]
  /\ UNCHANGED <<rows, buf, seen, todo, at, mine, stale, ledger, clobbered>>

(* Creating a transfer checks first; updating one does not. *)
BeginTransfer(t, r) ==
  /\ pc[t] = "idle"
  /\ r.kind \in {"transfer", "retransfer"}
  /\ req' = [req EXCEPT ![t] = r]
  /\ todo' = [todo EXCEPT ![t] = UpsertKeys(r)]
  /\ pc' = [pc EXCEPT ![t] = IF r.kind = "transfer" THEN "check" ELSE "upsert"]
  /\ UNCHANGED <<rows, buf, seen, left, at, mine, stale, ledger, clobbered>>

(* AdjustStock returns before it touches the database when qty is 0. *)
AdjustSkip(t) ==
  /\ pc[t] = "select"
  /\ left[t] # <<>>
  /\ Head(left[t]).qty = 0
  /\ left' = [left EXCEPT ![t] = Tail(@)]
  /\ UNCHANGED <<rows, buf, seen, pc, req, todo, at, mine, stale, ledger, clobbered>>

(* AdjustStock, first statement: SELECT ... First(&stock), without a lock. *)
AdjustSelect(t) ==
  /\ pc[t] = "select"
  /\ left[t] # <<>>
  /\ Head(left[t]).qty # 0
  /\ LET k == Head(left[t]).key IN
       /\ seen' = [seen EXCEPT ![t][k] = Visible(t, k)]
       /\ at' = [at EXCEPT ![t] = k]
  /\ pc' = [pc EXCEPT ![t] = "write"]
  /\ UNCHANGED <<rows, buf, req, left, todo, mine, stale, ledger, clobbered>>

(* AdjustStock, second statement when the SELECT found no row: INSERT.     *)
(* It waits for another transaction's uncommitted row with the same key;   *)
(* if one is committed by then, the unique index refuses the INSERT.       *)
AdjustInsert(t) ==
  /\ pc[t] = "write"
  /\ seen[t][at[t]] = NoRow
  /\ ~HeldByOther(t, at[t])
  /\ rows[at[t]] = NoRow
  /\ WriteRow(t, at[t], Head(left[t]).qty, Head(left[t]).qty)
  /\ left' = [left EXCEPT ![t] = Tail(@)]
  /\ pc' = [pc EXCEPT ![t] = "select"]
  /\ UNCHANGED <<rows, seen, req, todo, ledger, clobbered>>

AdjustInsertConflict(t) ==
  /\ pc[t] = "write"
  /\ seen[t][at[t]] = NoRow
  /\ ~HeldByOther(t, at[t])
  /\ rows[at[t]] # NoRow
  /\ Rollback(t)

(* AdjustStock, second statement when the SELECT found the row: UPDATE     *)
(* product_size_stocks SET qty = <stock.Qty + qty> WHERE id = <stock.ID>.  *)
AdjustUpdate(t) ==
  /\ pc[t] = "write"
  /\ seen[t][at[t]] # NoRow
  /\ ~HeldByOther(t, at[t])
  /\ WriteRow(t, at[t], seen[t][at[t]] + Head(left[t]).qty, Head(left[t]).qty)
  /\ left' = [left EXCEPT ![t] = Tail(@)]
  /\ pc' = [pc EXCEPT ![t] = "select"]
  /\ UNCHANGED <<rows, seen, req, todo, ledger, clobbered>>

(* Mutation of Sufficient: each line is checked by itself, as in           *)
(* CheckStockSufficient.                                                   *)
SufficientPerLine(t) ==
  \A i \in DOMAIN req[t].lines : LET l == req[t].lines[i] IN
    l.qty < 0 => Val(Visible(t, l.key)) + l.qty >= 0

(* CheckStockSufficientBatch: one SELECT of every row that loses stock.    *)
Sufficient(t) ==
  \A k \in NeedKeys(req[t]) : Val(Visible(t, k)) + Net(req[t].lines, k) >= 0

CheckPasses(t) ==
  /\ pc[t] = "check"
  /\ Sufficient(t)
  /\ seen' = [seen EXCEPT ![t] =
                [k \in Keys |-> IF k \in NeedKeys(req[t]) THEN Visible(t, k) ELSE Unread]]
  /\ pc' = [pc EXCEPT ![t] = "upsert"]
  /\ UNCHANGED <<rows, buf, req, left, todo, at, mine, stale, ledger, clobbered>>

CheckFails(t) ==
  /\ pc[t] = "check"
  /\ ~Sufficient(t)
  /\ Rollback(t)

(* ApplyStockDeltas: the VALUES rows come from a Go map, so in any order.  *)
UpsertNext(t) ==
  /\ pc[t] = "upsert"
  /\ \E k \in todo[t] : at' = [at EXCEPT ![t] = k]
  /\ pc' = [pc EXCEPT ![t] = "conflict"]
  /\ UNCHANGED <<rows, buf, seen, req, left, todo, mine, stale, ledger, clobbered>>

(* Mutation of UpsertRow: SET qty = EXCLUDED.qty.                          *)
UpsertRowReplaces(t) ==
  /\ pc[t] = "conflict"
  /\ ~HeldByOther(t, at[t])
  /\ LET n == Net(req[t].lines, at[t]) IN WriteRow(t, at[t], n, n)
  /\ todo' = [todo EXCEPT ![t] = @ \ {at[t]}]
  /\ pc' = [pc EXCEPT ![t] = "upsert"]
  /\ UNCHANGED <<rows, seen, req, left, ledger, clobbered>>

(* ON CONFLICT DO UPDATE SET qty = product_size_stocks.qty + EXCLUDED.qty: *)
(* it waits for the row and then adds to its newest committed version.     *)
UpsertRow(t) ==
  /\ pc[t] = "conflict"
  /\ ~HeldByOther(t, at[t])
  /\ LET n == Net(req[t].lines, at[t]) IN
       WriteRow(t, at[t], Val(Visible(t, at[t])) + n, n)
  /\ todo' = [todo EXCEPT ![t] = @ \ {at[t]}]
  /\ pc' = [pc EXCEPT ![t] = "upsert"]
  /\ UNCHANGED <<rows, seen, req, left, ledger, clobbered>>

Complete(t) ==
  \/ pc[t] = "select" /\ left[t] = <<>>
  \/ pc[t] = "upsert" /\ todo[t] = {}

Commit(t) ==
  /\ Complete(t)
  /\ rows' = [k \in Keys |-> Visible(t, k)]
  /\ ledger' = [k \in Keys |-> ledger[k] + mine[t][k]]
  /\ clobbered' = IF req[t].kind = "adjust" THEN clobbered \union stale[t] ELSE clobbered
  /\ pc' = [pc EXCEPT ![t] = "committed"]
  /\ Release(t)
  /\ UNCHANGED req

-----------------------------------------------------------------------------
(* PostgreSQL *)

Blocked(t) == pc[t] \in {"write", "conflict"} /\ HeldByOther(t, at[t])

(* t waits in a cycle of transactions, each for a row the next one holds.  *)
InDeadlock(t) ==
  \E S \in SUBSET Txns :
    /\ t \in S
    /\ \A u \in S : Blocked(u)
    /\ S = UNION {Holders(at[u]) \ {u} : u \in S}

(* The deadlock detector cancels one transaction of the cycle. *)
DeadlockVictim(t) ==
  /\ InDeadlock(t)
  /\ Rollback(t)

(* The connection or the process dies; PostgreSQL discards the transaction. *)
ConnectionLost(t) ==
  /\ Active(t)
  /\ Rollback(t)

-----------------------------------------------------------------------------
Statement(t) ==
  \/ AdjustSkip(t)
  \/ AdjustSelect(t)
  \/ AdjustInsert(t)
  \/ AdjustInsertConflict(t)
  \/ AdjustUpdate(t)
  \/ CheckPasses(t)
  \/ CheckFails(t)
  \/ UpsertNext(t)
  \/ UpsertRow(t)
  \/ Commit(t)
  \/ DeadlockVictim(t)

Begin(t) == \E r \in Requests : BeginAdjust(t, r) \/ BeginTransfer(t, r)

(* Every request has ended: the only state in which nothing happens. *)
Finished ==
  /\ \A t \in Txns : pc[t] \in {"committed", "aborted"}
  /\ UNCHANGED vars

Next ==
  \/ \E t \in Txns : Begin(t) \/ Statement(t) \/ ConnectionLost(t)
  \/ Finished

Spec == Init /\ [][Next]_vars

(* A request that has begun keeps executing its statements and PostgreSQL  *)
(* keeps looking for deadlocks; nobody is obliged to send a request or to  *)
(* lose a connection.                                                      *)
FairSpec == Spec /\ \A t \in Txns : WF_vars(Statement(t))

-----------------------------------------------------------------------------
(* Properties *)

(* Type correctness of the table, the transactions and the history. *)
TypeOK ==
  /\ rows \in [Keys -> Int \union {NoRow}]
  /\ buf \in [Txns -> [Keys -> Int \union {Clean}]]
  /\ seen \in [Txns -> [Keys -> Int \union {NoRow, Unread}]]
  /\ pc \in [Txns -> {"idle", "select", "write", "check", "upsert", "conflict",
                      "committed", "aborted"}]
  /\ req \in [Txns -> Requests \union {None}]
  /\ left \in [Txns -> Seq(Line)]
  /\ todo \in [Txns -> SUBSET Keys]
  /\ at \in [Txns -> Keys \union {None}]
  /\ mine \in [Txns -> [Keys -> Int]]
  /\ stale \in [Txns -> SUBSET Keys]
  /\ ledger \in [Keys -> Int]
  /\ clobbered \subseteq Keys

(* The stock of a row is what it started with plus everything committed    *)
(* documents asked for (AdjustStock: positive adds, negative subtracts).   *)
Exact == \A k \in Keys : Val(rows[k]) = ledger[k]

(* The only way stock goes wrong is an absolute UPDATE of AdjustStock that *)
(* was computed from a row some other transaction replaced in the meantime:*)
(* duplicate lines, concurrent INSERTs, UPSERTs, rollbacks and deadlock    *)
(* victims leave every row equal to the ledger.                            *)
ExactUnlessClobbered == \A k \in Keys \ clobbered : Val(rows[k]) = ledger[k]

(* When a document is about to commit, its statements have asked for       *)
(* exactly the net change of all its lines, the zero lines, repeated keys  *)
(* and keys that cancel out included.                                      *)
AllLinesBooked ==
  \A t \in Txns : Complete(t) =>
    \A k \in Keys : mine[t][k] = Net(req[t].lines, k)

(* A transfer that passed CheckStockSufficientBatch writes no negative     *)
(* stock into a row it takes from, unless that row was changed by another  *)
(* commit after the check read it.                                         *)
CheckHoldsUnlessRaced ==
  \A t \in Txns, k \in Keys :
    /\ buf[t][k] # Clean
    /\ req[t].kind = "transfer"
    /\ k \in NeedKeys(req[t]) \ stale[t]
    => buf[t][k] >= 0

(* Every document that begins is booked or rolled back: no transaction     *)
(* waits for a row forever, whatever order the documents lock rows in.     *)
Terminates == \A t \in Txns : Active(t) ~> ~Active(t)

(* Booked with ApplyStockDeltas, documents post to the stock atomically,   *)
(* each exactly once and in full, however their statements interleave.     *)
L == INSTANCE Ledger WITH
       Docs <- Txns,
       Changes <- {[k \in Keys |-> Net(r.lines, k)] : r \in Requests},
       balance <- [k \in Keys |-> Val(rows[k])],
       posted <- {t \in Txns : pc[t] = "committed"}

ImplementsLedger == L!Spec

-----------------------------------------------------------------------------
(* The inductive invariant behind the safety properties *)

(* A row has at most one uncommitted version. *)
OneHolder ==
  \A t, u \in Txns, k \in Keys : buf[t][k] # Clean /\ buf[u][k] # Clean => t = u

(* A transaction that has not begun or has ended holds nothing. *)
IdleHoldsNothing ==
  \A t \in Txns : ~Active(t) =>
    \A k \in Keys : buf[t][k] = Clean /\ mine[t][k] = 0

(* A version is the committed row plus what the transaction asked for,     *)
(* unless it was computed by AdjustStock from an older row.                *)
VersionsExact ==
  \A t \in Txns, k \in Keys :
    /\ buf[t][k] = Clean => mine[t][k] = 0
    /\ buf[t][k] # Clean /\ (req[t].kind = "adjust" => k \notin stale[t])
       => buf[t][k] = Val(rows[k]) + mine[t][k]

(* A transaction in AdjustStock has asked for all but the lines left, it   *)
(* writes the row its line names, and has read its own version if it had   *)
(* one.                                                                    *)
AdjustState ==
  \A t \in Txns :
    /\ pc[t] \in {"select", "write"} =>
         /\ req[t] \in Requests
         /\ req[t].kind = "adjust"
         /\ \A k \in Keys : mine[t][k] + Net(left[t], k) = Net(req[t].lines, k)
    /\ pc[t] = "write" =>
         /\ left[t] # <<>>
         /\ at[t] \in Keys
         /\ at[t] = Head(left[t]).key
         /\ seen[t][at[t]] # Unread
         /\ buf[t][at[t]] # Clean => seen[t][at[t]] = buf[t][at[t]]

(* A transaction in ApplyStockDeltas holds exactly the rows it has done    *)
(* with, and what its check read was enough.                               *)
UpsertState ==
  \A t \in Txns :
    /\ pc[t] \in {"check", "upsert", "conflict"} =>
         /\ req[t] \in Requests
         /\ req[t].kind \in {"transfer", "retransfer"}
         /\ \A k \in Keys : IF k \in todo[t] THEN buf[t][k] = Clean
                           ELSE mine[t][k] = Net(req[t].lines, k)
    /\ pc[t] = "conflict" => at[t] \in todo[t]
    /\ pc[t] \in {"upsert", "conflict"} /\ req[t].kind = "transfer" =>
         \A k \in NeedKeys(req[t]) :
           seen[t][k] # Unread /\ Val(seen[t][k]) + Net(req[t].lines, k) >= 0

IInv ==
  /\ TypeOK
  /\ OneHolder
  /\ IdleHoldsNothing
  /\ VersionsExact
  /\ AdjustState
  /\ UpsertState
  /\ CheckHoldsUnlessRaced
  /\ ExactUnlessClobbered
=============================================================================
