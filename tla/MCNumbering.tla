---------------------------- MODULE MCNumbering -----------------------------
(***************************************************************************)
(* Numbers of documents and the limit on failed logins: a behaviour is one *)
(* of either, since they have nothing in common but the requests they come *)
(* with.                                                                   *)
(***************************************************************************)
EXTENDS Numbering

CONSTANTS Accounts, Known, Disabled, Limit, Nonexistent, MaxErrors

VARIABLES part, count, timed, loginPc, account, target, lost, errors, missed, unseen

logins == <<count, timed, loginPc, account, target, lost, errors, missed, unseen>>

L == INSTANCE LoginLimit WITH pc <- loginPc

MCInit == part \in {"numbers", "logins"} /\ Init /\ L!Init

MCNext ==
  \/ part = "numbers" /\ Next /\ UNCHANGED <<part, logins>>
  \/ part = "logins" /\ L!Next /\ UNCHANGED <<part, vars>>

MCSpec == MCInit /\ [][MCNext]_<<part, vars, logins>> /\ Fairness /\ L!Fairness

(* The types of both, with what each says of its own state.                *)
TypesOK == TypeOK /\ L!TypeOK

(* The properties of LoginLimit, explained there.                          *)
DeadlineSet == L!DeadlineSet

CountBounded == L!CountBounded

BlockEnds == L!BlockEnds
=============================================================================
