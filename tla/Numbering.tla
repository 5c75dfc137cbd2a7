----------------------------- MODULE Numbering -----------------------------
(***************************************************************************)
(* The numbers of documents: a prefix (kind, store, month) and a serial    *)
(* number, one more than the largest in the table.                         *)
(*                                                                         *)
(* A document created alone reads the largest number from the replica,     *)
(* before its transaction, and takes no lock: the unique index decides.    *)
(* A batch (receipts, shipments, transfers) is one transaction.  It takes  *)
(* an advisory lock on each prefix it meets, in the order of its           *)
(* documents, reads the largest number there and counts on from it.        *)
(* Either all documents of a batch are created or none.                    *)
(*                                                                         *)
(* Numbers are compared as strings: those longer than the format's width   *)
(* sort below the last one that fits, Full.  What a document says and      *)
(* books besides its number is in StockDocuments and OrderDelivery.        *)
(***************************************************************************)
EXTENDS Integers, FiniteSetsExt, SequencesExt

CONSTANTS
  Series,       \* prefixes: kind, store and month of a document
  Requests,     \* each handles one request at a time
  Full,         \* 9999 or 999: the last number of the format's width
  MaxDocuments, \* bound: documents in a batch
  MaxRequests,  \* bound: requests ever begun
  None

ASSUME FullAssumption == Full \in Nat \ {0}

ASSUME BoundsAssumption == MaxDocuments \in Nat /\ MaxRequests \in Nat

ASSUME NoneAssumption == None \notin Requests

VARIABLES
  numbers,  \* committed, of each prefix; those of deleted documents too
  deleted,  \* the deleted ones
  replica,  \* the numbers GetRead sees
  lock,     \* pg_advisory_xact_lock on a prefix
  begun,    \* requests that have come
  pc,       \* "idle" or "working"
  batch,    \* whether the request creates a batch
  todo,     \* prefixes of the documents it has yet to insert
  next,     \* seqByPrefix: the next number, 0 while it is not known
  mine,     \* numbers it has inserted and not committed
  outrun    \* history: prefixes that have changed since it read them

vars == <<numbers, deleted, replica, lock, begun, pc, batch, todo, next, mine, outrun>>

private == <<pc, batch, todo, next, mine>>

-----------------------------------------------------------------------------
(* Mutation of Counted: without Unscoped, deleted documents do not count.  *)
Scoped(S, gone) == S \ gone

(* The numbers MAX sees: Unscoped, so those of deleted documents as well.  *)
Counted(S, gone) == S

(* MAX of the numbers as strings; 0 if there is none.                      *)
MaxNo(S) == Max({0} \union {n \in S : n <= Full})

(* Mutation of NextAfter: counted once more if there is a number.          *)
OneMore(S, gone) == IF S = {} THEN 1 ELSE MaxNo(Counted(S, gone)) + 2

NextAfter(S, gone) == MaxNo(Counted(S, gone)) + 1

Unknown == [p \in Series |-> 0]
Nothing == [p \in Series |-> {}]

Init ==
  /\ numbers = Nothing
  /\ deleted = Nothing
  /\ replica = Nothing
  /\ lock = [p \in Series |-> None]
  /\ begun = 0
  /\ pc = [r \in Requests |-> "idle"]
  /\ batch = [r \in Requests |-> FALSE]
  /\ todo = [r \in Requests |-> <<>>]
  /\ next = [r \in Requests |-> Unknown]
  /\ mine = [r \in Requests |-> Nothing]
  /\ outrun = [r \in Requests |-> {}]

Begin(r, isBatch, documents, known, old) ==
  /\ pc[r] = "idle"
  /\ begun < MaxRequests
  /\ begun' = begun + 1
  /\ pc' = [pc EXCEPT ![r] = "working"]
  /\ batch' = [batch EXCEPT ![r] = isBatch]
  /\ todo' = [todo EXCEPT ![r] = documents]
  /\ next' = [next EXCEPT ![r] = known]
  /\ outrun' = [outrun EXCEPT ![r] = old]
  /\ UNCHANGED <<numbers, deleted, replica, lock, mine>>

(* One document: its number is read from the replica.                      *)
CreateOne(r, p) ==
  Begin(r, FALSE, <<p>>,
        [Unknown EXCEPT ![p] = NextAfter(replica[p], deleted[p])],
        IF replica[p] = numbers[p] THEN {} ELSE {p})

(* CreateShipmentBatch leaves out the customers that are overdue before its *)
(* transaction; with nothing left it ends at once.                         *)
CreateBatch(r, documents) == documents # <<>> /\ Begin(r, TRUE, documents, Unknown, {})

(* Mutation of Released: pg_advisory_lock, which outlives the transaction. *)
HeldOn(r) == lock

(* Advisory locks of a transaction end with it.                            *)
Released(r) == [p \in Series |-> IF lock[p] = r THEN None ELSE lock[p]]

(* The transaction of r has ended, and with it the request.                *)
End(r, changed) ==
  /\ lock' = Released(r)
  /\ pc' = [pc EXCEPT ![r] = "idle"]
  /\ batch' = [batch EXCEPT ![r] = FALSE]
  /\ todo' = [todo EXCEPT ![r] = <<>>]
  /\ next' = [next EXCEPT ![r] = Unknown]
  /\ mine' = [mine EXCEPT ![r] = Nothing]
  /\ outrun' = [q \in Requests |->
       IF q # r /\ pc[q] = "working" THEN outrun[q] \union changed ELSE {}]

Rollback(r) == End(r, {}) /\ UNCHANGED <<numbers, deleted, replica, begun>>

(* A batch meets a prefix for the first time: lock it and read.            *)
ReadNumber(r) ==
  LET p == Head(todo[r])
  IN /\ pc[r] = "working"
     /\ todo[r] # <<>>
     /\ next[r][p] = 0
     /\ lock[p] = None
     /\ lock' = [lock EXCEPT ![p] = r]
     /\ next' = [next EXCEPT ![r][p] = NextAfter(numbers[p], deleted[p])]
     /\ outrun' = [outrun EXCEPT ![r] = @ \ {p}]
     /\ UNCHANGED <<numbers, deleted, replica, begun, pc, batch, todo, mine>>

(* The next document: its number must not be in the unique index.  While   *)
(* another transaction has inserted it, the INSERT waits.                  *)
Insert(r) ==
  LET p == Head(todo[r])
      n == next[r][p]
  IN /\ pc[r] = "working"
     /\ todo[r] # <<>>
     /\ n # 0
     /\ n \notin numbers[p]
     /\ \A q \in Requests : n \notin mine[q][p]
     /\ mine' = [mine EXCEPT ![r][p] = @ \union {n}]
     /\ next' = [next EXCEPT ![r][p] = n + 1]
     /\ todo' = [todo EXCEPT ![r] = Tail(@)]
     /\ UNCHANGED <<numbers, deleted, replica, lock, begun, pc, batch, outrun>>

(* The number is taken.                                                    *)
Taken(r) ==
  /\ pc[r] = "working"
  /\ todo[r] # <<>>
  /\ next[r][Head(todo[r])] \in numbers[Head(todo[r])]

(* The INSERT violates the unique index, and the request fails.            *)
Clash(r) == Taken(r) /\ Rollback(r)

Commit(r) ==
  /\ pc[r] = "working"
  /\ todo[r] = <<>>
  /\ numbers' = [p \in Series |-> numbers[p] \union mine[r][p]]
  /\ End(r, {p \in Series : mine[r][p] # {}})
  /\ UNCHANGED <<deleted, replica, begun>>

(* Every document kind is deleted softly.                                  *)
Delete(p, n) ==
  /\ n \in numbers[p] \ deleted[p]
  /\ deleted' = [deleted EXCEPT ![p] = @ \union {n}]
  /\ UNCHANGED <<numbers, replica, lock, begun, private, outrun>>

Replicate ==
  /\ replica # numbers
  /\ replica' = numbers
  /\ UNCHANGED <<numbers, deleted, lock, begun, private, outrun>>

(* An error in the middle of a transaction, or a lost connection.          *)
Fail(r) == pc[r] = "working" /\ Rollback(r)

-----------------------------------------------------------------------------
(* Deadlocks *)

(* The transactions r waits for: one at most.                              *)
WaitsFor(r) ==
  IF pc[r] = "idle" \/ todo[r] = <<>> THEN {}
  ELSE LET p == Head(todo[r])
       IN IF next[r][p] = 0 THEN {lock[p]} \ {None}
          ELSE {q \in Requests : next[r][p] \in mine[q][p]}

(* Requests in a circle, each of which waits for one of them.              *)
Deadlocked(r) ==
  \E circle \in SUBSET Requests :
    /\ r \in circle
    /\ \A q \in circle : WaitsFor(q) \intersect circle # {}
    /\ \A q \in circle : \E o \in circle : q \in WaitsFor(o)

(* PostgreSQL ends one of them.                                            *)
Victim(r) == Deadlocked(r) /\ Rollback(r)

-----------------------------------------------------------------------------
Step(r) == ReadNumber(r) \/ Insert(r) \/ Clash(r) \/ Commit(r)

(* All requests have been answered.                                        *)
Finished ==
  /\ begun = MaxRequests
  /\ \A r \in Requests : pc[r] = "idle"
  /\ UNCHANGED vars

Next ==
  \/ \E r \in Requests :
       \/ \E p \in Series : CreateOne(r, p)
       \/ \E documents \in BoundedSeq(Series, MaxDocuments) : CreateBatch(r, documents)
       \/ Step(r)
       \/ Victim(r)
       \/ Fail(r)
  \/ \E p \in Series : \E n \in numbers[p] : Delete(p, n)
  \/ Replicate
  \/ Finished

(* A handler goes on; PostgreSQL breaks deadlocks.                         *)
Fairness ==
  /\ \A r \in Requests : WF_vars(Step(r))
  /\ WF_vars(\E r \in Requests : Victim(r))

Spec == Init /\ [][Next]_vars /\ Fairness

-----------------------------------------------------------------------------
(* Properties *)

(* Type correctness; an advisory lock is held by a batch that is running.  *)
TypeOK ==
  /\ numbers \in [Series -> SUBSET Nat]
  /\ deleted \in [Series -> SUBSET Nat]
  /\ \A p \in Series : deleted[p] \subseteq numbers[p]
  /\ replica \in [Series -> SUBSET Nat]
  /\ lock \in [Series -> Requests \union {None}]
  /\ \A p \in Series : lock[p] # None => batch[lock[p]]
  /\ begun \in Nat
  /\ pc \in [Requests -> {"idle", "working"}]
  /\ batch \in [Requests -> BOOLEAN]
  /\ todo \in [Requests -> Seq(Series)]
  /\ next \in [Requests -> [Series -> Nat]]
  /\ mine \in [Requests -> [Series -> SUBSET Nat]]
  /\ outrun \in [Requests -> SUBSET Series]

(* The numbers of a prefix are 1 to some n, without a gap: whatever fails, *)
(* however stale the replica and however documents and batches interleave. *)
NoGaps == \A p \in Series : \A n \in numbers[p] : 1 .. n \subseteq numbers[p]

(* A number is refused only if another request committed to the prefix     *)
(* after it was read, or it was read from a replica that lagged, or the    *)
(* numbers are used up.  Batches, which lock the prefix before they read,  *)
(* are therefore never in each other's way (services/stock/stock.go: the   *)
(* advisory lock is there to avoid clashes), and a deleted document's      *)
(* number is never tried again.                                            *)
TakenOnlyIfOutrun ==
  \A r \in Requests :
    Taken(r) =>
      \/ Head(todo[r]) \in outrun[r]
      \/ \E n \in numbers[Head(todo[r])] : n > Full

(* Batches lock prefixes in the order of their documents and may meet      *)
(* crosswise, and wait for numbers inserted without a lock: every request  *)
(* is answered all the same.                                               *)
Answered == \A r \in Requests : pc[r] = "working" ~> pc[r] = "idle"
-----------------------------------------------------------------------------
(* The inductive invariant of NumberingProofs *)

(* Nothing is left of a request that has been answered.                    *)
IdleHoldsNothing ==
  \A r \in Requests : pc[r] = "idle" =>
    ~batch[r] /\ todo[r] = <<>> /\ next[r] = Unknown /\ mine[r] = Nothing

(* Only batches meet prefixes they have not read.                          *)
SingleKnows ==
  \A r \in Requests :
    ~batch[r] /\ todo[r] # <<>> => Len(todo[r]) = 1 /\ next[r][Head(todo[r])] # 0

(* Committed numbers are 1 to some k, on the replica to some smaller one.  *)
Serial == \A p \in Series : \E k, l \in Nat : numbers[p] = 1 .. k /\ replica[p] = 1 .. l /\ l <= k

(* A request has inserted what is missing below its next number.           *)
MineFillsUp ==
  \A r \in Requests, p \in Series :
    /\ mine[r][p] \subseteq 1 .. next[r][p] - 1
    /\ 1 .. next[r][p] - 1 \subseteq numbers[p] \union mine[r][p]

(* While nobody has been there since, nothing is committed from its next   *)
(* number on.                                                              *)
NextIsFree ==
  \A r \in Requests, p \in Series :
    next[r][p] # 0 /\ p \notin outrun[r] /\ (\A n \in numbers[p] : n <= Full)
      => \A n \in numbers[p] : n < next[r][p]

IInv == TypeOK /\ IdleHoldsNothing /\ SingleKnows /\ Serial /\ MineFillsUp /\ NextIsFree
=============================================================================
