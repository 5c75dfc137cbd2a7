----------------------------- MODULE LoginLimit -----------------------------
(***************************************************************************)
(* The limit on failed logins of one client address: a Redis counter per   *)
(* account, and one for accounts that do not exist.  A request is turned   *)
(* away while a counter it needs has reached Limit.  A counter goes away   *)
(* five minutes after its first failure, or with a login that succeeds.    *)
(*                                                                         *)
(* The middleware looks at the counters and the handler changes them, each *)
(* with Redis commands that other requests may come between: GET, then,    *)
(* after the database is asked, INCR and, for the first failure, EXPIRE.   *)
(* A GET that fails lets its request pass.                                 *)
(***************************************************************************)
EXTENDS Integers, FiniteSets

CONSTANTS
  Accounts,  \* what is typed into the form
  Known,     \* those with a row in admins that is not disabled
  Disabled,  \* those with a row that is
  Requests,  \* each handles one request at a time
  Limit,     \* loginRateLimitMax
  Nonexistent, \* the counter of accounts that do not exist
  MaxErrors  \* bound: GETs that fail

(* One counter per account, user:<account>:<ip>, and nonexistent:<ip>.     *)
Counters == Accounts \union {Nonexistent}

VARIABLES
  count,   \* the value of a counter, 0 if there is no such key
  timed,   \* whether the key has a deadline (EXPIRE)
  pc,      \* how far a request has come
  account, \* the account it is about
  target,  \* the counter it is to change
  lost,    \* history: a request died between INCR and EXPIRE on it
  errors,  \* how many GETs have failed
  missed,  \* history: the counters a request could not read
  unseen   \* history: what such requests have added to a counter

(* What is in Redis, with its history, and what a request keeps.           *)
redis == <<count, timed, lost, errors, unseen>>

own == <<account, target, missed>>

vars == <<redis, pc, own>>

Init ==
  /\ count = [k \in Counters |-> 0]
  /\ timed = [k \in Counters |-> FALSE]
  /\ pc = [r \in Requests |-> "idle"]
  /\ account = [r \in Requests |-> Nonexistent]
  /\ target = [r \in Requests |-> Nonexistent]
  /\ lost = [k \in Counters |-> FALSE]
  /\ errors = 0
  /\ missed = [r \in Requests |-> {}]
  /\ unseen = [k \in Counters |-> 0]

Goto(r, label) == pc' = [pc EXCEPT ![r] = label]

(* The request is answered, and nothing is left of it.                     *)
Done(r) ==
  /\ Goto(r, "idle")
  /\ account' = [account EXCEPT ![r] = Nonexistent]
  /\ target' = [target EXCEPT ![r] = Nonexistent]
  /\ missed' = [missed EXCEPT ![r] = {}]

(* The key goes: DEL, or its deadline.                                     *)
Gone(k) ==
  /\ count' = [count EXCEPT ![k] = 0]
  /\ timed' = [timed EXCEPT ![k] = FALSE]
  /\ lost' = [lost EXCEPT ![k] = FALSE]
  /\ unseen' = [unseen EXCEPT ![k] = 0]

Arrive(r, a) ==
  /\ pc[r] = "idle"
  /\ Goto(r, "user")
  /\ account' = [account EXCEPT ![r] = a]
  /\ UNCHANGED <<redis, target, missed>>

(* Mutation of IsBlocked: one failure too late.                            *)
BlockedLate(k) == count[k] > Limit

(* loginRateLimitIsBlocked; its TTL is for the message.                    *)
IsBlocked(k) == count[k] >= Limit

(* LoginRateLimit looks at the counter of the account first, then at that  *)
(* of unknown accounts.                                                    *)
CheckUser(r) ==
  /\ pc[r] = "user"
  /\ IF IsBlocked(account[r]) THEN Done(r) ELSE Goto(r, "nonexistent") /\ UNCHANGED own
  /\ UNCHANGED redis

CheckNonexistent(r) ==
  /\ pc[r] = "nonexistent"
  /\ IF IsBlocked(Nonexistent) THEN Done(r) ELSE Goto(r, "login") /\ UNCHANGED own
  /\ UNCHANGED redis

Misses(r, k) == missed' = [missed EXCEPT ![r] = @ \union {k}]

(* A GET that fails says not blocked, as if Redis were not there at all.   *)
GetFails(r) ==
  /\ errors < MaxErrors
  /\ errors' = errors + 1
  /\ \/ pc[r] = "user" /\ Goto(r, "nonexistent") /\ Misses(r, account[r])
     \/ pc[r] = "nonexistent" /\ Goto(r, "login") /\ Misses(r, Nonexistent)
  /\ UNCHANGED <<count, timed, lost, unseen, account, target>>

Then(r, label, k) ==
  /\ Goto(r, label)
  /\ target' = [target EXCEPT ![r] = k]
  /\ UNCHANGED <<account, missed>>

(* Login: what the database says of the account, and the password.         *)
Login(r) ==
  /\ pc[r] = "login"
  /\ \/ account[r] \notin Known \union Disabled /\ Then(r, "incr", Nonexistent)
     \/ account[r] \in Disabled /\ Done(r)
     \/ account[r] \in Known /\ Then(r, "incr", account[r])
     \/ account[r] \in Known /\ Then(r, "reset", account[r])
  /\ UNCHANGED redis

(* Mutation of SetsDeadline: the last failure sets it, not the first.      *)
OnTheLast(n) == n = Limit + 1

(* Which value INCR must return for EXPIRE to follow.                      *)
SetsDeadline(n) == n = 1

Incr(r) ==
  LET k == target[r]
  IN /\ pc[r] = "incr"
     /\ count' = [count EXCEPT ![k] = @ + 1]
     /\ unseen' = IF k \in missed[r] THEN [unseen EXCEPT ![k] = @ + 1] ELSE unseen
     /\ IF SetsDeadline(count[k] + 1) THEN Goto(r, "expire") /\ UNCHANGED own ELSE Done(r)
     /\ UNCHANGED <<timed, lost, errors>>

(* EXPIRE does nothing if the key is gone.                                 *)
SetDeadline(r) ==
  LET k == target[r]
  IN /\ pc[r] = "expire"
     /\ timed' = [timed EXCEPT ![k] = count[k] > 0]
     /\ lost' = [lost EXCEPT ![k] = FALSE]
     /\ Done(r)
     /\ UNCHANGED <<count, errors, unseen>>

ResetUser(r) ==
  /\ pc[r] = "reset"
  /\ Gone(target[r])
  /\ Done(r)
  /\ UNCHANGED errors

(* The server stops, or Redis does not answer INCR, EXPIRE or DEL: errors  *)
(* are only logged.                                                        *)
Crash(r) ==
  /\ pc[r] # "idle"
  /\ Done(r)
  /\ lost' = IF pc[r] = "expire" /\ count[target[r]] > 0 /\ ~timed[target[r]]
             THEN [lost EXCEPT ![target[r]] = TRUE] ELSE lost
  /\ UNCHANGED <<count, timed, errors, unseen>>

(* Five minutes are over.                                                  *)
Deadline(k) ==
  /\ timed[k]
  /\ Gone(k)
  /\ UNCHANGED <<pc, own, errors>>

-----------------------------------------------------------------------------
Step(r) ==
  CheckUser(r) \/ CheckNonexistent(r) \/ Login(r) \/ Incr(r) \/ SetDeadline(r) \/ ResetUser(r)

Next ==
  \/ \E r \in Requests :
       \/ \E a \in Accounts : Arrive(r, a)
       \/ Step(r)
       \/ GetFails(r)
       \/ Crash(r)
  \/ \E k \in Counters : Deadline(k)

(* A handler goes on; Redis removes keys whose deadline has passed.        *)
Fairness ==
  /\ \A r \in Requests : WF_vars(Step(r))
  /\ \A k \in Counters : WF_vars(Deadline(k))

Spec == Init /\ [][Next]_vars /\ Fairness

-----------------------------------------------------------------------------
(* Properties *)

(* Type correctness; a key that is not there has no deadline, and no more  *)
(* than its value was added by requests that could not read it.            *)
TypeOK ==
  /\ count \in [Counters -> Nat]
  /\ timed \in [Counters -> BOOLEAN]
  /\ \A k \in Counters : timed[k] => count[k] > 0
  /\ pc \in [Requests -> {"idle", "user", "nonexistent", "login", "incr", "expire", "reset"}]
  /\ account \in [Requests -> Counters]
  /\ target \in [Requests -> Counters]
  /\ lost \in [Counters -> BOOLEAN]
  /\ errors \in Nat
  /\ missed \in [Requests -> SUBSET Counters]
  /\ unseen \in [Counters -> Nat]
  /\ \A k \in Counters : unseen[k] <= count[k]

(* A counter has a deadline, or the request that began it is about to set  *)
(* one, unless that request died in between: a login that succeeds while   *)
(* others fail, and begins the count anew, leaves none without.            *)
DeadlineSet ==
  \A k \in Counters :
    count[k] > 0 /\ ~timed[k] /\ ~lost[k]
      => \E r \in Requests : pc[r] = "expire" /\ target[r] = k

(* Requests that are past the check when the limit is reached still count, *)
(* but no more than there can be at a time.  What comes on top are the     *)
(* requests whose GET of this very counter failed: no limit holds them.    *)
CountBounded ==
  \A k \in Counters : count[k] - unseen[k] <= Limit - 1 + Cardinality(Requests)

(* Whoever is turned away can log in again some time later, unless the     *)
(* counter was left without a deadline.                                    *)
BlockEnds == \A k \in Counters : IsBlocked(k) ~> (~IsBlocked(k) \/ lost[k])
=============================================================================
