----------------------------- MODULE MCDerived ------------------------------
(***************************************************************************)
(* What is kept outside the tables and made from them: the firewall's      *)
(* snapshot, cached lists, images.  Each has its own rows; a behaviour is  *)
(* one of one part, and the others stay as they begin.                     *)
(***************************************************************************)
EXTENDS Firewall

CONSTANTS
  Firsts, Seconds, Codes, Searches, Editors,
  Images, Products, Callers, Job, MaxChanges, Options

(* Pairs of kinds, and how many requests to write there are about each:    *)
(* a second one where a list names rows that are deleted in two steps.     *)
Once ==
  {<<"vendor-categories", "vendors">>, <<"locations", "customers">>, <<"vendors", "products">>,
   <<"brands", "products">>, <<"product-brands", "products">>,
   <<"product-categories", "products">>, <<"size-groups", "products">>,
   <<"currencies", "banks">>, <<"postal-areas", "material-options">>,
   <<"member-tiers", "members">>}

Twice == {<<"size-groups", "size-options">>}

MCEdits == [pair \in Once \union Twice |-> IF pair \in Twice THEN 2 ELSE 1]

(* Queries fail but where there are many states without; two where a list  *)
(* may be neither counted nor read.                                        *)
Steady == {<<"vendor-categories", "vendors">>, <<"vendors", "products">>}

MCFailures == [pair \in Once \union Twice |->
  IF pair \in Steady THEN 0 ELSE IF pair = <<"currencies", "banks">> THEN 2 ELSE 1]

VARIABLES
  part,
  kinds, listed, listedReplica, cache, edits, failures, listPc, list, total, listForm, paths, found,
  listLate, staleLists,
  stored, trash, imageUrl, urlReplica, changes, inStorage, candidates, moving, copied, vacuumed,
  outrun

C == INSTANCE ListCache WITH Writers <- Editors, MaxWrites <- MCEdits, MaxFailures <- MCFailures,
       rows <- listed, replica <- listedReplica, writes <- edits, pc <- listPc,
       form <- listForm, late <- listLate, stale <- staleLists

I == INSTANCE Images WITH Requests <- Callers, replica <- urlReplica, listed <- inStorage

lists == <<kinds, listed, listedReplica, cache, edits, failures, listPc, list, total, listForm, paths,
           found, listLate, staleLists>>
images == <<stored, trash, imageUrl, urlReplica, changes, inStorage, candidates, moving, copied,
            vacuumed, outrun>>

(* Parts that only stay begin in one way.                                  *)
MCInit ==
  /\ part \in {"lists", "firewall", "images"}
  /\ C!Init /\ Init /\ I!Init
  /\ part # "lists" => kinds = <<"brands", "products">> /\ \A i \in C!Rows : listed[i] = None
  /\ part # "firewall" => rows = <<>>

MCNext ==
  \/ part = "lists" /\ C!Next /\ UNCHANGED <<part, vars, images>>
  \/ part = "firewall" /\ Next /\ UNCHANGED <<part, lists, images>>
  \/ part = "images" /\ I!Next /\ UNCHANGED <<part, vars, lists>>

MCSpec == MCInit /\ [][MCNext]_<<part, vars, lists, images>> /\ C!Fairness /\ Fairness

(* The types of all parts, with what each says of its own state.           *)
TypesOK == C!TypeOK /\ TypeOK /\ I!TypeOK

(* The properties of ListCache and Images, explained there.                *)
FreshUnlessLate == C!FreshUnlessLate

FreshInTheEnd == C!FreshInTheEnd

ImageKept == I!ImageKept

NothingLost == I!NothingLost
=============================================================================
