----------------------------- MODULE ListCache -----------------------------
(***************************************************************************)
(* Master data and the cache of its lists.                                 *)
(*                                                                         *)
(* A list is answered from Redis if it is there.  Otherwise its rows are   *)
(* counted and read from the replica and the answer is stored for ten      *)
(* minutes.  A handler that writes checks on the replica, writes, and then *)
(* removes the lists under some paths: KEYS, then DEL.  Nothing orders a   *)
(* reader's store after a writer's removal.  Queries may fail, and nobody  *)
(* looks at the error but of an INSERT, and of few other writes.           *)
(*                                                                         *)
(* All kinds of master data follow one pattern; Handlers says where they   *)
(* differ.  A behaviour is about two kinds, rows of the second of which    *)
(* refer to rows of the first.                                             *)
(***************************************************************************)
EXTENDS Integers, FiniteSets, SequencesExt

CONSTANTS
  Firsts, Seconds,      \* ids of rows of the first kind and of the second
  Codes,                \* codes and names
  Searches,             \* what lists are searched by: codes, or None
  Readers, Writers,     \* each handles one request at a time
  MaxWrites,            \* bound: requests to write, for the pairs of kinds there are
  MaxFailures,          \* bound: queries that fail, for those pairs
  Options,              \* stands for the search of a list that fills a select box
  None

Rows == Firsts \union Seconds

-----------------------------------------------------------------------------
(* The kinds *)

(* check: a new code is looked for among the rows of the replica; index:   *)
(* the unique index, of all rows or of those not deleted; tells: a refused *)
(* UPDATE is noticed; usedBy: kinds whose rows keep a row from being       *)
(* deleted; names: kinds whose codes the rows of its list come with;       *)
(* clears: paths of the lists that are removed.                            *)
Kind(check, index, tells, usedBy, names, clears) ==
  [check |-> check, index |-> index, tells |-> tells, usedBy |-> usedBy, names |-> names,
   clears |-> clears]

Plain(usedBy, path) == Kind(TRUE, "all", FALSE, usedBy, {}, <<path>>)

Brand == Plain({"products"}, "brands")
Location == Plain({"customers"}, "locations")
PostalArea == Plain({}, "postal-areas")
MemberTier == Plain({"members"}, "member-tiers")
Currency == Plain({}, "currencies")
Bank == Plain({}, "banks")
ProductBrand == Plain({"products"}, "product-brands")
ProductCategory == Plain({"products"}, "product-categories")
MaterialOption == Kind(FALSE, "none", FALSE, {}, {}, <<"material-options">>)
Member == Kind(TRUE, "all", TRUE, {}, {"member-tiers"}, <<>>)

(* Mutation of VendorCategory: it removes lists of categories alone.       *)
OwnPath ==
  Kind(FALSE, "none", FALSE, {"vendors"}, {}, <<"vendor-categories">>)

VendorCategory ==
  Kind(FALSE, "none", FALSE, {"vendors"}, {}, <<"vendor-categories", "vendors">>)

Vendor == Kind(TRUE, "all", FALSE, {"products"}, {"vendor-categories"}, <<"vendors">>)
Customer == Kind(TRUE, "all", FALSE, {}, {"locations"}, <<"customers">>)
Product == Kind(TRUE, "live", TRUE, {}, {"product-brands", "vendors"}, <<"products">>)
SizeGroup == Kind(TRUE, "all", FALSE, {"products"}, {"size-options"}, <<"size-groups">>)
SizeOption == Kind(FALSE, "none", FALSE, {}, {}, <<"size-groups">>)

KindNames ==
  {"brands", "locations", "postal-areas", "member-tiers", "currencies", "banks",
   "product-brands", "product-categories", "material-options", "members",
   "vendor-categories", "vendors", "customers", "products", "size-groups", "size-options"}

Handlers == [kind \in KindNames |->
  CASE kind = "brands" -> Brand
    [] kind = "locations" -> Location
    [] kind = "postal-areas" -> PostalArea
    [] kind = "member-tiers" -> MemberTier
    [] kind = "currencies" -> Currency
    [] kind = "banks" -> Bank
    [] kind = "product-brands" -> ProductBrand
    [] kind = "product-categories" -> ProductCategory
    [] kind = "material-options" -> MaterialOption
    [] kind = "members" -> Member
    [] kind = "vendor-categories" -> VendorCategory
    [] kind = "vendors" -> Vendor
    [] kind = "customers" -> Customer
    [] kind = "products" -> Product
    [] kind = "size-groups" -> SizeGroup
    [] kind = "size-options" -> SizeOption]

-----------------------------------------------------------------------------
VARIABLES
  kinds,     \* those of Firsts and of Seconds
  rows,      \* the master; None for no row
  replica,   \* what GetRead sees
  cache,     \* Redis: the answer stored for a list
  writes,    \* requests to write that have come
  failures,  \* queries that have failed
  pc,
  list,      \* the list a reader is asked for
  total,     \* rows it has counted
  form,      \* what a writer was sent: [id, code, link, op]
  paths,     \* paths a writer has yet to remove
  found,     \* lists KEYS has found
  late,      \* history: what the reader has is not what the master says
  stale      \* history: lists stored by such a reader, or never removed

vars == <<kinds, rows, replica, cache, writes, failures, pc, list, total, form, paths, found, late, stale>>

readers == <<list, total, late>>
writers == <<writes, form, paths, found>>

Requests == Readers \union Writers

(* A row refers to one of the first kind, or to none.  It is deleted       *)
(* softly.                                                                 *)
Row == [code : Codes, link : Firsts \union {None}, live : BOOLEAN]

(* The keys of the cache: a path and a search, None for the whole list.    *)
(* Lists of members and of size options are not stored.  Customers and     *)
(* vendors have one for select boxes, of another path with the same start. *)
Lists ==
  (({kinds[1], kinds[2]} \ {"members", "size-options"}) \X Searches)
    \union (({kinds[1], kinds[2]} \intersect {"customers", "vendors"}) \X {Options})

(* Lists for select boxes are read without a COUNT, and without names.     *)
Counted(l) == l[2] # Options

KindOf(i) == IF i \in Firsts THEN kinds[1] ELSE kinds[2]

HandlerOf(i) == Handlers[KindOf(i)]

SameTable(i) == IF i \in Firsts THEN Firsts ELSE Seconds

Live(db) == {i \in Rows : db[i] # None /\ db[i].live}

(* Live rows a row refers to, or that refer to it.                         *)
Linked(db, i) == {j \in Live(db) : db[i].link = j \/ db[j].link = i}

(* A row in a list, with the codes that Preload adds to it.                *)
EntryOf(db, i) ==
  [row |-> i, code |-> db[i].code,
   named |-> {<<j, db[j].code>> : j \in {l \in Linked(db, i) : KindOf(l) \in HandlerOf(i).names}}]

Unnamed(entries) == {[e EXCEPT !.named = {}] : e \in entries}

(* The rows of a list, of the page asked for.                              *)
Find(db, l) ==
  LET entries == {EntryOf(db, i) : i \in {j \in Live(db) :
                    KindOf(j) = l[1] /\ l[2] \in {None, Options, db[j].code}}}
  IN IF Counted(l) THEN entries ELSE Unnamed(entries)

(* The answer, if it is counted and read at once.                          *)
Answer(db, l) ==
  [data |-> Find(db, l), total |-> IF Counted(l) THEN Cardinality(Find(db, l)) ELSE 0]

(* isPartialFailure: rows were counted and none read.                      *)
Partial(answer) == answer.total > 0 /\ answer.data = {}

(* Some rows are there.                                                    *)
Init ==
  /\ kinds \in DOMAIN MaxWrites
  /\ \E first \in SUBSET Firsts, second \in SUBSET {CHOOSE i \in Seconds : TRUE} :
       rows = [i \in Rows |->
         IF i \in first THEN [code |-> Min(Codes), link |-> None, live |-> TRUE]
         ELSE IF i \in second
              THEN [code |-> Min(Codes), live |-> TRUE,
                    link |-> IF first = {} THEN None ELSE CHOOSE j \in first : TRUE]
         ELSE None]
  /\ replica = rows
  /\ cache = [l \in Lists |-> None]
  /\ writes = 0
  /\ failures = 0
  /\ pc = [r \in Requests |-> "idle"]
  /\ list = [r \in Readers |-> None]
  /\ total = [r \in Readers |-> 0]
  /\ late = [r \in Readers |-> FALSE]
  /\ form = [w \in Writers |-> None]
  /\ paths = [w \in Writers |-> <<>>]
  /\ found = [w \in Writers |-> {}]
  /\ stale = {}

Goto(r, label) == pc' = [pc EXCEPT ![r] = label]

Fails(failed) ==
  IF failed THEN failures < MaxFailures[kinds] /\ failures' = failures + 1 ELSE UNCHANGED failures

Drop(lists) ==
  /\ cache' = [l \in Lists |-> IF l \in lists THEN None ELSE cache[l]]
  /\ stale' = stale \ lists

-----------------------------------------------------------------------------
(* Readers *)

(* tryListCache: a list that is there is the answer, and nothing happens.  *)
Hit(r, l) ==
  /\ pc[r] = "idle"
  /\ cache[l] # None /\ ~Partial(cache[l])
  /\ UNCHANGED vars

(* A list that is not, or is a partial failure and removed, is read.       *)
Miss(r, l) ==
  /\ pc[r] = "idle"
  /\ cache[l] # None => Partial(cache[l])
  /\ Drop({l})
  /\ list' = [list EXCEPT ![r] = l]
  /\ late' = [late EXCEPT ![r] = ~Counted(l) /\ replica # rows]
  /\ Goto(r, IF Counted(l) THEN "count" ELSE "find")
  /\ UNCHANGED <<kinds, rows, replica, total, writers, failures>>

(* Paginate counts the rows of the replica.  If that fails they are none,  *)
(* and the reader goes on.                                                 *)
Count(r, failed) ==
  /\ pc[r] = "count"
  /\ Fails(failed)
  /\ total' = [total EXCEPT ![r] = IF failed THEN 0 ELSE Cardinality(Find(replica, list[r]))]
  /\ late' = [late EXCEPT ![r] = failed \/ replica # rows]
  /\ Goto(r, "find")
  /\ UNCHANGED <<kinds, rows, replica, cache, list, writers, stale>>

(* setListCache.                                                           *)
Set(r, data, wrong) ==
  LET l == list[r]
      answer == [data |-> data, total |-> total[r]]
  IN /\ pc[r] = "find"
     /\ cache' = IF Partial(answer) THEN cache ELSE [cache EXCEPT ![l] = answer]
     /\ stale' = IF Partial(answer) THEN stale
                 ELSE IF wrong THEN stale \union {l} ELSE stale \ {l}
     /\ Goto(r, "idle")
     /\ list' = [list EXCEPT ![r] = None]
     /\ total' = [total EXCEPT ![r] = 0]
     /\ late' = [late EXCEPT ![r] = FALSE]
     /\ UNCHANGED <<kinds, rows, replica, writers>>

(* Find, and what it read is stored.                                       *)
Store(r) == Set(r, Find(replica, list[r]), late[r]) /\ UNCHANGED failures

(* What a Find that fails leaves of a list: some of the rows, or all, if   *)
(* it is Preload that failed, but without names.                           *)
Remains(l) == (SUBSET Find(replica, l)) \union {Unnamed(Find(replica, l))}

(* Nobody looks at the error: what is left is stored.  That nothing was    *)
(* read shows only if rows were counted.                                   *)
StoreRemains(r, data) ==
  /\ Fails(TRUE)
  /\ Set(r, data, late[r] \/ data # {} \/ ~Counted(list[r]))

-----------------------------------------------------------------------------
(* Writers *)

Begin(w, f) ==
  /\ pc[w] = "idle"
  /\ writes < MaxWrites[kinds]
  /\ writes' = writes + 1
  /\ form' = [form EXCEPT ![w] = f]
  /\ Goto(w, "write")
  /\ UNCHANGED <<kinds, rows, replica, cache, readers, paths, found, stale>>

(* The query for rows with the code, and the unique index.  A query that   *)
(* fails finds none.                                                       *)
Used(i, code) ==
  HandlerOf(i).check /\ \E j \in (SameTable(i) \intersect Live(replica)) \ {i} : replica[j].code = code

Indexed(i, code) ==
  \E j \in SameTable(i) \ {i} :
    /\ rows[j] # None
    /\ rows[j].code = code
    /\ \/ HandlerOf(i).index = "all"
       \/ HandlerOf(i).index = "live" /\ rows[j].live

(* A row may refer to a deleted one.  An option is one of a group, and     *)
(* stays there.                                                            *)
MayRefer(i, link) == link # None => i \in Seconds /\ rows[link] # None

CreateRow(w, i, code, link) ==
  /\ rows[i] = None
  /\ \A q \in Writers : form[q] # None => form[q].id # i
  /\ Fails(Used(i, code))
  /\ MayRefer(i, link)
  /\ KindOf(i) = "size-options" => link # None
  /\ Begin(w, [op |-> "create", id |-> i, code |-> code, link |-> link])

UpdateRow(w, i, code, link) ==
  /\ i \in Live(replica)
  /\ Fails(code # replica[i].code /\ Used(i, code))
  /\ MayRefer(i, link)
  /\ KindOf(i) = "size-options" => link = replica[i].link
  /\ Begin(w, [op |-> "update", id |-> i, code |-> code, link |-> link])

(* A row that others use is not deleted, unless the query for them fails.  *)
(* A size group goes with its options, in two steps.                       *)
DeleteRow(w, i) ==
  /\ rows[i] # None
  /\ Fails(\E j \in Live(replica) : replica[j].link = i /\ KindOf(j) \in HandlerOf(i).usedBy)
  /\ Begin(w, [op |-> IF KindOf(i) = "size-groups" THEN "empty" ELSE "delete", id |-> i])

Finish(w) ==
  /\ Goto(w, "idle")
  /\ form' = [form EXCEPT ![w] = None]
  /\ paths' = [paths EXCEPT ![w] = <<>>]
  /\ found' = [found EXCEPT ![w] = {}]

(* The unique index refuses the row.                                       *)
Refused(f) == f.op \in {"create", "update"} /\ Indexed(f.id, f.code)

(* The rows as the writer leaves them.  An UPDATE that is refused, or that *)
(* finds no live row, changes nothing.  Size options are deleted for good. *)
Written(f) ==
  CASE f.op = "create" ->
         [rows EXCEPT ![f.id] = [code |-> f.code, link |-> f.link, live |-> TRUE]]
    [] f.op = "update" /\ f.id \in Live(rows) /\ ~Refused(f) ->
         [rows EXCEPT ![f.id].code = f.code, ![f.id].link = f.link]
    [] f.op = "empty" ->
         [i \in Rows |-> IF KindOf(i) = "size-options" /\ rows[i] # None /\ rows[i].link = f.id
                         THEN None ELSE rows[i]]
    [] f.op = "delete" /\ f.id \in Live(rows) ->
         IF KindOf(f.id) = "size-options" THEN [rows EXCEPT ![f.id] = None]
         ELSE [rows EXCEPT ![f.id].live = FALSE]
    [] OTHER -> rows

(* Whether the handler looks at errors.                                    *)
Looks(f) == f.op = "create" \/ HandlerOf(f.id).tells

Noticed(f) == Refused(f) /\ Looks(f)

(* A handler that does not look goes on when its statement fails.          *)
Write(w, failed) ==
  LET f == form[w]
  IN /\ pc[w] = "write"
     /\ ~Noticed(f)
     /\ failed => ~Looks(f)
     /\ Fails(failed)
     /\ rows' = IF failed THEN rows ELSE Written(f)
     /\ late' = [r \in Readers |-> late[r] \/ (pc[r] = "find" /\ rows' # rows)]
     /\ paths' = [paths EXCEPT ![w] = HandlerOf(f.id).clears]
     /\ IF f.op = "empty"
        THEN form' = [form EXCEPT ![w].op = "delete"] /\ UNCHANGED pc
        ELSE Goto(w, IF paths'[w] = <<>> THEN "del" ELSE "keys") /\ UNCHANGED form
     /\ UNCHANGED <<kinds, replica, cache, list, total, writes, found, stale>>

Refuse(w) ==
  /\ pc[w] = "write"
  /\ Noticed(form[w])
  /\ Finish(w)
  /\ UNCHANGED <<kinds, rows, replica, cache, readers, writes, failures, stale>>

(* invalidateListCache: KEYS of the next path.                             *)
Keys(w) ==
  /\ pc[w] = "keys"
  /\ paths[w] # <<>>
  /\ found' = [found EXCEPT ![w] = {l \in Lists : l[1] = Head(paths[w]) /\ cache[l] # None}]
  /\ paths' = [paths EXCEPT ![w] = Tail(@)]
  /\ Goto(w, "del")
  /\ UNCHANGED <<kinds, rows, replica, cache, readers, writes, failures, form, stale>>

(* DEL of what it found; then the next path, or the reply.                 *)
Del(w) ==
  /\ pc[w] = "del"
  /\ Drop(found[w])
  /\ IF paths[w] = <<>> THEN Finish(w)
     ELSE /\ Goto(w, "keys")
          /\ found' = [found EXCEPT ![w] = {}]
          /\ UNCHANGED <<form, paths>>
  /\ UNCHANGED <<kinds, rows, replica, readers, writes, failures>>

(* Lists a writer is yet to remove.                                        *)
ToRemove(w) == {l \in Lists : cache[l] # None /\ (l[1] \in ToSet(paths[w]) \/ l \in found[w])}

(* The handler ends early: an error it looks at, or no answer from Redis.  *)
Crash(w) ==
  /\ pc[w] # "idle"
  /\ stale' = stale \union ToRemove(w)
  /\ Finish(w)
  /\ UNCHANGED <<kinds, rows, replica, cache, readers, writes, failures>>

-----------------------------------------------------------------------------
Replicate ==
  /\ replica # rows
  /\ replica' = rows
  /\ UNCHANGED <<kinds, rows, cache, pc, readers, writers, failures, stale>>

(* Mutation of Expires: stored without listCacheTTL.                       *)
Never(l) == FALSE

Expires(l) == cache[l] # None

(* Ten minutes are over.                                                   *)
Expire(l) ==
  /\ Expires(l)
  /\ Drop({l})
  /\ UNCHANGED <<kinds, rows, replica, pc, readers, writers, failures>>

ExpireOf(n, search) == \E l \in Lists : l = <<kinds[n], search>> /\ Expire(l)

Step(r) ==
  IF r \in Readers
  THEN Count(r, FALSE) \/ Store(r)
  ELSE Write(r, FALSE) \/ Refuse(r) \/ Keys(r) \/ Del(r)

Next ==
  \/ \E r \in Readers :
       \/ \E l \in Lists : Hit(r, l) \/ Miss(r, l)
       \/ \E failed \in BOOLEAN : Count(r, failed)
       \/ Store(r)
       \/ list[r] # None /\ \E data \in Remains(list[r]) : StoreRemains(r, data)
  \/ \E w \in Writers :
       \/ \E i \in Rows :
            \/ \E code \in Codes, link \in Firsts \union {None} :
                 CreateRow(w, i, code, link) \/ UpdateRow(w, i, code, link)
            \/ DeleteRow(w, i)
       \/ \E failed \in BOOLEAN : Write(w, failed)
       \/ Refuse(w) \/ Keys(w) \/ Del(w)
       \/ Crash(w)
  \/ Replicate
  \/ \E l \in Lists : Expire(l)

(* A handler goes on, when its queries do not fail; the replica catches    *)
(* up; Redis removes what has a deadline.                                  *)
Fairness ==
  /\ \A r \in Requests : WF_vars(Step(r))
  /\ WF_vars(Replicate)
  /\ \A n \in 1 .. 2, search \in Searches \union {Options} : WF_vars(ExpireOf(n, search))

Spec == Init /\ [][Next]_vars /\ Fairness

-----------------------------------------------------------------------------
(* Properties *)

(* Type correctness; no partial failure is ever stored.                    *)
TypeOK ==
  /\ kinds \in DOMAIN MaxWrites
  /\ rows \in [Rows -> Row \union {None}]
  /\ replica \in [Rows -> Row \union {None}]
  /\ \A l \in Lists : cache[l] # None =>
       /\ \A e \in cache[l].data : e.row \in Rows /\ e.code \in Codes
       /\ cache[l].total \in Nat
       /\ ~Partial(cache[l])
  /\ failures \in Nat
  /\ pc \in [Requests -> {"idle", "count", "find", "write", "keys", "del"}]
  /\ list \in [Readers -> Lists \union {None}]
  /\ total \in [Readers -> Nat]
  /\ \A w \in Writers : paths[w] \in Seq(DOMAIN Handlers) /\ found[w] \subseteq Lists
  /\ stale \subseteq Lists

(* Lists of customers and products name locations, brands and vendors, but *)
(* are not removed when one of those is renamed.                           *)
But(names, answer) ==
  IF names THEN answer ELSE [answer EXCEPT !.data = Unnamed(@)]

(* A stored list is what the tables say, unless it was stored by a reader  *)
(* whose rows were older, whose COUNT failed, whose Find broke off, or     *)
(* failed where nothing is counted; or a writer ended early, or one has    *)
(* yet to remove it; names in lists of customers and products aside.  A    *)
(* Find that reads nothing does no harm after a COUNT, nor does a list     *)
(* stored between KEYS and DEL, a category renamed while vendors are       *)
(* listed, or a size group deleted in two steps.                           *)
FreshUnlessLate ==
  \A l \in Lists :
    cache[l] # None /\ l \notin stale /\ (\A w \in Writers : l \notin ToRemove(w))
      => LET names == l[1] \notin {"customers", "products"}
         IN But(names, cache[l]) = But(names, Answer(rows, l))

(* Once nobody writes any more and no query fails, every list is right in  *)
(* the end, whatever was stored late or in part or never removed, names of *)
(* locations and brands too.                                               *)
FreshInTheEnd == <>[](\A l \in Lists : cache[l] = None \/ cache[l] = Answer(rows, l))
=============================================================================
