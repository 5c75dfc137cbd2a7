------------------------------ MODULE Firewall ------------------------------
(***************************************************************************)
(* The addresses clients may come from: rows of firewall_ips, and the      *)
(* snapshot of the active ones that Redis keeps for five minutes.          *)
(*                                                                         *)
(* Each start of the server brings the rows in line with an environment    *)
(* variable.  Rows from there have source "env"; handlers add, change and  *)
(* delete the others.  Both check on the replica, write to the master, and *)
(* then remove the snapshot.  A request without a snapshot reads the rows  *)
(* from the replica and stores one; if the query fails, an empty one,      *)
(* which restricts nobody.                                                 *)
(***************************************************************************)
EXTENDS Integers, FiniteSets, Sequences

CONSTANTS
  Addresses,
  Readers,    \* requests that need a snapshot
  Writers,    \* handlers and starts of the server
  MaxRows,    \* bound: rows ever created
  MaxWrites,  \* bound: writers that begin
  MaxErrors,  \* bound: queries that fail
  None

Row == [ip : Addresses, source : {"env", "manual"}, active : BOOLEAN, live : BOOLEAN]

VARIABLES
  rows,      \* by id, on the master; None after a hard delete
  replica,   \* what GetRead sees
  snapshot,  \* firewall:allowed_ips, None if there is no such key
  writes, errors,
  got,       \* what a reader is about to store, or None
  late,      \* history: it is not what the master says
  stale,     \* history: nor is the snapshot, or a writer did not remove it
  pc,        \* of a writer
  form,      \* what its handler was sent
  env,       \* addresses in the environment of its server
  todo       \* those SyncEnvFirewallIPs has yet to look at

vars == <<rows, replica, snapshot, writes, errors, got, late, stale, pc, form, env, todo>>

tables == <<rows, replica, writes>>
readers == <<got, late>>
writers == <<pc, form, env, todo>>

-----------------------------------------------------------------------------
Ids(db) == {i \in 1 .. Len(db) : db[i] # None}

(* queryDB: the rows that are active.                                      *)
Active(db) == {db[i].ip : i \in {j \in Ids(db) : db[j].live /\ db[j].active}}

(* Mutation of Indexed: an index of the rows that are not deleted.         *)
LiveIndexed(ip, i) == \E j \in Ids(rows) \ {i} : rows[j].live /\ rows[j].ip = ip

(* Another row has the address: in the unique index even if it is deleted. *)
Indexed(ip, i) == \E j \in Ids(rows) \ {i} : rows[j].ip = ip

Used(db, ip, i) == \E j \in Ids(db) \ {i} : db[j].live /\ db[j].ip = ip

NewRow(ip, source) == [ip |-> ip, source |-> source, active |-> TRUE, live |-> TRUE]

(* The table may hold a row added by hand.                                 *)
Init ==
  /\ rows \in {<<>>} \union
       {<<[ip |-> ip, source |-> "manual", active |-> TRUE, live |-> live]>> :
          ip \in {CHOOSE a \in Addresses : TRUE}, live \in BOOLEAN}
  /\ replica = rows
  /\ snapshot = None
  /\ writes = 0
  /\ errors = 0
  /\ got = [r \in Readers |-> None]
  /\ late = [r \in Readers |-> FALSE]
  /\ stale = FALSE
  /\ pc = [w \in Writers |-> "idle"]
  /\ form = [w \in Writers |-> None]
  /\ env = [w \in Writers |-> {}]
  /\ todo = [w \in Writers |-> {}]

-----------------------------------------------------------------------------
(* Load *)

(* A snapshot that is there is used, and nothing happens.                  *)
Hit(r) == snapshot # None /\ got[r] = None /\ UNCHANGED vars

(* Without one the replica is asked.                                       *)
Query(r) ==
  /\ snapshot = None
  /\ got[r] = None
  /\ got' = [got EXCEPT ![r] = Active(replica)]
  /\ late' = [late EXCEPT ![r] = Active(replica) # Active(rows)]
  /\ UNCHANGED <<tables, snapshot, errors, stale, writers>>

(* The query fails.                                                        *)
QueryFails(r) ==
  /\ snapshot = None
  /\ got[r] = None
  /\ errors < MaxErrors
  /\ errors' = errors + 1
  /\ got' = [got EXCEPT ![r] = {}]
  /\ late' = [late EXCEPT ![r] = Active(rows) # {}]
  /\ UNCHANGED <<tables, snapshot, stale, writers>>

Store(r) ==
  /\ got[r] # None
  /\ snapshot' = got[r]
  /\ stale' = late[r]
  /\ got' = [got EXCEPT ![r] = None]
  /\ late' = [late EXCEPT ![r] = FALSE]
  /\ UNCHANGED <<tables, errors, writers>>

-----------------------------------------------------------------------------
(* Handlers *)

Begin(w, label, sent, ips) ==
  /\ pc[w] = "idle"
  /\ writes < MaxWrites
  /\ writes' = writes + 1
  /\ pc' = [pc EXCEPT ![w] = label]
  /\ form' = [form EXCEPT ![w] = sent]
  /\ env' = [env EXCEPT ![w] = ips]
  /\ todo' = [todo EXCEPT ![w] = ips]
  /\ UNCHANGED <<rows, replica, snapshot, errors, readers, stale>>

(* Whatever is_active says: gorm stores the column's default, true, in     *)
(* place of false.                                                         *)
CreateFirewallIP(w, ip) ==
  /\ ~Used(replica, ip, 0)
  /\ Begin(w, "write", [op |-> "create", ip |-> ip], {})

(* The address of a row from the environment is not changed.               *)
UpdateFirewallIP(w, i, ip, active) ==
  /\ i \in Ids(replica) /\ replica[i].live
  /\ ip # replica[i].ip => replica[i].source # "env" /\ ~Used(replica, ip, i)
  /\ Begin(w, "write",
           [op |-> "update", id |-> i, ip |-> ip, move |-> ip # replica[i].ip, active |-> active], {})

DeleteFirewallIP(w, i) ==
  /\ i \in Ids(replica) /\ replica[i].live /\ replica[i].source # "env"
  /\ Begin(w, "write", [op |-> "delete", id |-> i], {})

(* The unique index refuses the address.                                   *)
Refused(f) ==
  \/ f.op = "create" /\ Indexed(f.ip, 0)
  \/ f.op = "update" /\ f.move /\ Indexed(f.ip, f.id)

Written(f) ==
  IF f.op = "create" THEN Append(rows, NewRow(f.ip, "manual"))
  ELSE IF f.id \notin Ids(rows) \/ ~rows[f.id].live THEN rows
  ELSE IF f.op = "delete" THEN [rows EXCEPT ![f.id].live = FALSE]
  ELSE [rows EXCEPT ![f.id].ip = IF f.move THEN f.ip ELSE @, ![f.id].active = f.active]

(* Rows change under readers that have read them.                          *)
Change(changed) ==
  /\ rows' = changed
  /\ late' = [r \in Readers |-> late[r] \/ (got[r] # None /\ Active(changed) # Active(rows))]

Write(w) ==
  /\ pc[w] = "write"
  /\ ~Refused(form[w])
  /\ form[w].op = "create" => Len(rows) < MaxRows
  /\ Change(Written(form[w]))
  /\ pc' = [pc EXCEPT ![w] = "invalidate"]
  /\ UNCHANGED <<replica, snapshot, writes, errors, got, stale, form, env, todo>>

Finish(w) ==
  /\ pc' = [pc EXCEPT ![w] = "idle"]
  /\ form' = [form EXCEPT ![w] = None]
  /\ env' = [env EXCEPT ![w] = {}]
  /\ todo' = [todo EXCEPT ![w] = {}]
  /\ UNCHANGED <<tables, errors, readers>>

Refuse(w) ==
  /\ pc[w] = "write"
  /\ Refused(form[w]) \/ (form[w].op = "create" /\ Len(rows) = MaxRows)
  /\ Finish(w)
  /\ UNCHANGED <<snapshot, stale>>

-----------------------------------------------------------------------------
(* A start of the server: SyncEnvFirewallIPs *)

(* With nothing in the variable the rows are left alone.                   *)
Start(w, ips) == Begin(w, IF ips = {} THEN "invalidate" ELSE "sync", None, ips)

(* Mutation of TakenOver: the source of a row does not matter.             *)
Every(row) == row.live => row.source # "env"

(* Which rows with an address of the environment become rows of it.        *)
TakenOver(row) == ~row.live

(* The next address: a row is created, restored or left as it is.          *)
SyncAddress(w, ip) ==
  LET there == {i \in Ids(replica) : replica[i].ip = ip}
      restored == {i \in there \intersect Ids(rows) : TakenOver(replica[i])}
  IN /\ pc[w] = "sync"
     /\ ip \in todo[w]
     /\ Change(IF there = {}
               THEN IF Indexed(ip, 0) \/ Len(rows) = MaxRows THEN rows
                    ELSE Append(rows, NewRow(ip, "env"))
               ELSE [i \in 1 .. Len(rows) |->
                       IF i \in restored
                       THEN [rows[i] EXCEPT !.source = "env", !.active = TRUE, !.live = TRUE]
                       ELSE rows[i]])
     /\ todo' = [todo EXCEPT ![w] = @ \ {ip}]
     /\ UNCHANGED <<replica, snapshot, writes, errors, got, stale, pc, form, env>>

(* Rows whose address is no longer in the environment are deleted for good. *)
SyncStale(w) ==
  LET old == {i \in Ids(replica) : replica[i].source = "env" /\ replica[i].ip \notin env[w]}
  IN /\ pc[w] = "sync"
     /\ todo[w] = {}
     /\ Change([i \in 1 .. Len(rows) |-> IF i \in old THEN None ELSE rows[i]])
     /\ pc' = [pc EXCEPT ![w] = "invalidate"]
     /\ UNCHANGED <<replica, snapshot, writes, errors, got, stale, form, env, todo>>

-----------------------------------------------------------------------------
(* Mutation of Invalidated: the snapshot stays.                            *)
Kept == snapshot

(* firewall.Invalidate                                                     *)
Invalidated == None

Invalidate(w) ==
  /\ pc[w] = "invalidate"
  /\ snapshot' = Invalidated
  /\ stale' = FALSE
  /\ Finish(w)

(* A handler or a start ends early, or Redis does not answer.              *)
Crash(w) ==
  /\ pc[w] # "idle"
  /\ stale' = (stale \/ (snapshot # None /\ snapshot # Active(rows)))
  /\ Finish(w)
  /\ UNCHANGED snapshot

Replicate ==
  /\ replica # rows
  /\ replica' = rows
  /\ UNCHANGED <<rows, snapshot, writes, errors, readers, stale, writers>>

(* Mutation of Expires: stored without cacheTTL.                           *)
Never == FALSE

Expires == snapshot # None

(* Five minutes are over.                                                  *)
Expire ==
  /\ Expires
  /\ snapshot' = None
  /\ stale' = FALSE
  /\ UNCHANGED <<tables, errors, readers, writers>>

Sync(w) == (\E ip \in todo[w] : SyncAddress(w, ip)) \/ SyncStale(w)

Next ==
  \/ \E r \in Readers : Hit(r) \/ Query(r) \/ QueryFails(r) \/ Store(r)
  \/ \E w \in Writers :
       \/ \E ip \in Addresses :
            \/ CreateFirewallIP(w, ip)
            \/ \E i \in Ids(replica), active \in BOOLEAN : UpdateFirewallIP(w, i, ip, active)
       \/ \E i \in Ids(replica) : DeleteFirewallIP(w, i)
       \/ \E ips \in SUBSET Addresses : Start(w, ips)
       \/ Write(w) \/ Refuse(w) \/ Sync(w) \/ Invalidate(w) \/ Crash(w)
  \/ Replicate
  \/ Expire

(* A handler goes on; the replica catches up; Redis removes what has a     *)
(* deadline.                                                               *)
Fairness ==
  /\ \A r \in Readers : WF_vars(Store(r))
  /\ \A w \in Writers : WF_vars(Write(w) \/ Refuse(w) \/ Sync(w) \/ Invalidate(w))
  /\ WF_vars(Replicate) /\ WF_vars(Expire)

Spec == Init /\ [][Next]_vars /\ Fairness

-----------------------------------------------------------------------------
(* Properties *)

(* Type correctness; the unique index: no two rows with an address.        *)
TypeOK ==
  /\ rows \in Seq(Row \union {None})
  /\ replica \in Seq(Row \union {None})
  /\ \A i, j \in Ids(rows) : rows[i].ip = rows[j].ip => i = j
  /\ snapshot # None => snapshot \subseteq Addresses
  /\ \A r \in Readers : got[r] # None => got[r] \subseteq Addresses
  /\ late \in [Readers -> BOOLEAN]
  /\ stale \in BOOLEAN
  /\ pc \in [Writers -> {"idle", "write", "sync", "invalidate"}]
  /\ env \in [Writers -> SUBSET Addresses]
  /\ \A w \in Writers : todo[w] \subseteq env[w]

(* The snapshot is what the table says, unless it was stored by a request  *)
(* that read older rows or none, a writer ended before it could remove it, *)
(* or one is about to.  This includes what a start changes before the      *)
(* server takes requests, while the others still do.                       *)
SnapshotUnlessLate ==
  snapshot # None /\ ~stale /\ (\A w \in Writers : pc[w] \notin {"sync", "invalidate"})
    => snapshot = Active(rows)

(* Whatever was stored late, after a failed query or never removed: once   *)
(* nobody writes any more, the snapshot is right in the end.               *)
SnapshotRightInTheEnd == <>[](snapshot # None => snapshot = Active(rows))

(* A start leaves the rows alone that were added by hand, those with an    *)
(* address of the environment as well, however old the replica is that it  *)
(* goes by (models/firewall_ip.go: "manual ... are not affected at all").  *)
ManualKept ==
  [][\A w \in Writers : Sync(w) =>
       \A i \in Ids(rows) : rows[i].source = "manual" /\ rows[i].live => rows'[i] = rows[i]]_vars
=============================================================================
