------------------------------- MODULE Images -------------------------------
(***************************************************************************)
(* Product images in object storage and the nightly jobs that clear away   *)
(* those no product refers to.                                             *)
(*                                                                         *)
(* An image is uploaded first and saved with a product afterwards; nothing *)
(* ties the two together.  CleanupOrphanImages lists the images, reads     *)
(* from the replica which ones products refer to, and moves the others,    *)
(* but for those less than a day old, to the trash, each after asking once *)
(* more.  A move is a copy and a removal.  TrashVacuum deletes what has    *)
(* been in the trash for 90 days.                                          *)
(***************************************************************************)
EXTENDS Integers, FiniteSets, Functions

CONSTANTS
  Images,
  Products,
  Requests,    \* handlers that may be moving an image
  Job,         \* the mover of CleanupOrphanImages
  MaxChanges,  \* bound: changes of products' images, removals by handlers
  None

Movers == Requests \union {Job}

VARIABLES
  stored,     \* objects under products/: "new", "old" after a day, or None
  trash,      \* copies of an image in the trash: "recent", "expired"
  imageUrl,   \* of each product, None if it has none or is deleted
  replica,    \* imageUrl as GetRead sees it
  changes,
  listed,     \* what the job has found in storage: stored, or None
  candidates, \* images it is to move
  moving,     \* image a mover is about to copy or has copied
  copied,     \* movers that have copied it
  vacuumed,   \* history: last copies deleted after their 90 days
  outrun      \* history: a handler removed the image, or a product began to
              \* refer to it when it was gone or the job had asked for it

vars == <<stored, trash, imageUrl, replica, changes, listed, candidates, moving, copied,
          vacuumed, outrun>>

storage == <<stored, trash, vacuumed>>
products == <<imageUrl, replica, changes>>
job == <<listed, candidates>>
movers == <<moving, copied>>

-----------------------------------------------------------------------------
There == {i \in Images : stored[i] # None}

(* Images the products refer to.                                           *)
Used(db) == Range(db) \ {None}

Init ==
  /\ stored = [i \in Images |-> None]
  /\ trash = [i \in Images |-> {}]
  /\ imageUrl = [p \in Products |-> None]
  /\ replica = imageUrl
  /\ changes = 0
  /\ listed = None
  /\ candidates = {}
  /\ moving = [m \in Movers |-> None]
  /\ copied = {}
  /\ vacuumed = {}
  /\ outrun = {}

-----------------------------------------------------------------------------
(* Handlers *)

(* The name of an image holds the time and is never used again.            *)
UploadProductImage(i) ==
  /\ stored[i] = None /\ trash[i] = {} /\ i \notin vacuumed
  /\ stored' = [stored EXCEPT ![i] = "new"]
  /\ UNCHANGED <<trash, vacuumed, products, job, movers, outrun>>

(* CreateProduct and UpdateProduct with an image, or none; DeleteProduct   *)
(* with none.  The image has been uploaded at some time.                   *)
SaveProduct(p, i) ==
  /\ changes < MaxChanges
  /\ imageUrl[p] # i
  /\ i # None => stored[i] # None \/ trash[i] # {} \/ i \in vacuumed
  /\ changes' = changes + 1
  /\ imageUrl' = [imageUrl EXCEPT ![p] = i]
  /\ outrun' = IF i # None /\ (stored[i] = None \/ (stored[i] = "old" /\ moving[Job] = i))
               THEN outrun \union {i} ELSE outrun
  /\ UNCHANGED <<storage, replica, job, movers>>

(* DeleteProductImage moves an image; it does not ask who refers to it.    *)
DeleteProductImage(r, i) ==
  /\ moving[r] = None
  /\ stored[i] # None
  /\ changes < MaxChanges
  /\ changes' = changes + 1
  /\ moving' = [moving EXCEPT ![r] = i]
  /\ outrun' = outrun \union {i}
  /\ UNCHANGED <<storage, imageUrl, replica, job, copied>>

-----------------------------------------------------------------------------
(* Move *)

Done(m) ==
  /\ moving' = [moving EXCEPT ![m] = None]
  /\ copied' = copied \ {m}
  /\ UNCHANGED <<products, job, outrun>>

(* The object may have been moved by somebody else: the copy fails.        *)
Copy(m) ==
  /\ moving[m] # None /\ m \notin copied
  /\ stored[moving[m]] # None
  /\ trash' = [trash EXCEPT ![moving[m]] = @ \union {"recent"}]
  /\ copied' = copied \union {m}
  /\ UNCHANGED <<stored, vacuumed, products, job, moving, outrun>>

(* Mutation of MayRemove: the removal comes first.                         *)
AtOnce(m) == moving[m] # None

MayRemove(m) == m \in copied

RemoveObject(m) ==
  /\ MayRemove(m)
  /\ stored' = [stored EXCEPT ![moving[m]] = None]
  /\ Done(m)
  /\ UNCHANGED <<trash, vacuumed>>

(* An error before or after the copy, or the server goes down.             *)
MoveFails(m) ==
  /\ moving[m] # None
  /\ Done(m)
  /\ UNCHANGED storage

-----------------------------------------------------------------------------
(* CleanupOrphanImages *)

ListObjects ==
  /\ listed = None
  /\ There # {}
  /\ listed' = stored
  /\ UNCHANGED <<storage, products, candidates, movers, outrun>>

(* Nothing is stored: the job ends at once.                                *)
ListNothing == listed = None /\ There = {} /\ UNCHANGED vars

(* planCleanup: neither in use nor less than a day old.                    *)
ToDelete(used) == {i \in Images : listed[i] = "old" /\ i \notin used}

(* More than half of the images: something is wrong, and nothing is moved. *)
TooMany(S) == 2 * Cardinality(S) > Cardinality({i \in Images : listed[i] # None})

(* The query for the images in use may find them only in part, and then    *)
(* says nothing of it.  With none at all, or too many to move, the job     *)
(* ends.                                                                   *)
Plan(used) ==
  /\ listed # None /\ candidates = {} /\ moving[Job] = None
  /\ used # {}
  /\ ToDelete(used) # {} /\ ~TooMany(ToDelete(used))
  /\ candidates' = ToDelete(used)
  /\ UNCHANGED <<storage, products, listed, movers, outrun>>

EndJob ==
  /\ listed # None /\ moving[Job] = None
  /\ listed' = None
  /\ candidates' = {}
  /\ UNCHANGED <<storage, products, movers, outrun>>

(* Mutation of Verified: what the plan says is good enough.                *)
Unverified(i) == TRUE

(* The verifier: no product on the replica refers to the image.            *)
Verified(i) == i \notin Used(replica)

(* runCleanupMoves: ask for the next one again.  If it is in use, or the   *)
(* query fails, it stays.                                                  *)
Verify(i) ==
  /\ i \in candidates /\ moving[Job] = None
  /\ candidates' = candidates \ {i}
  /\ \/ /\ Verified(i)
        /\ moving' = [moving EXCEPT ![Job] = i]
        /\ outrun' = IF i \in Used(imageUrl) \ Used(replica) THEN outrun \union {i} ELSE outrun
     \/ UNCHANGED <<moving, outrun>>
  /\ UNCHANGED <<storage, products, listed, copied>>

(* TrashVacuum                                                             *)
TrashVacuum(i) ==
  /\ "expired" \in trash[i]
  /\ trash' = [trash EXCEPT ![i] = @ \ {"expired"}]
  /\ vacuumed' = IF stored[i] = None /\ trash[i] = {"expired"} THEN vacuumed \union {i} ELSE vacuumed
  /\ UNCHANGED <<stored, products, job, movers, outrun>>

-----------------------------------------------------------------------------
(* Time *)

DayPasses(i) ==
  /\ stored[i] = "new"
  /\ stored' = [stored EXCEPT ![i] = "old"]
  /\ UNCHANGED <<trash, vacuumed, products, job, movers, outrun>>

(* A move takes a minute at most.                                          *)
RetentionPasses(i) ==
  /\ "recent" \in trash[i]
  /\ \A m \in Movers : moving[m] # i
  /\ trash' = [trash EXCEPT ![i] = {"expired"}]
  /\ UNCHANGED <<stored, vacuumed, products, job, movers, outrun>>

Replicate ==
  /\ replica # imageUrl
  /\ replica' = imageUrl
  /\ UNCHANGED <<storage, imageUrl, changes, job, movers, outrun>>

Next ==
  \/ \E i \in Images :
       \/ UploadProductImage(i)
       \/ \E r \in Requests : DeleteProductImage(r, i)
       \/ Verify(i)
       \/ TrashVacuum(i)
       \/ DayPasses(i)
       \/ RetentionPasses(i)
  \/ \E p \in Products, i \in Images \union {None} : SaveProduct(p, i)
  \/ \E m \in Movers : Copy(m) \/ RemoveObject(m) \/ MoveFails(m)
  \/ ListObjects \/ ListNothing
  \/ \E used \in SUBSET Used(replica) : Plan(used)
  \/ EndJob
  \/ Replicate

Spec == Init /\ [][Next]_vars

-----------------------------------------------------------------------------
(* Properties *)

(* Type correctness; the job moves one image at a time, one it has listed. *)
TypeOK ==
  /\ stored \in [Images -> {"new", "old", None}]
  /\ trash \in [Images -> SUBSET {"recent", "expired"}]
  /\ imageUrl \in [Products -> Images \union {None}]
  /\ replica \in [Products -> Images \union {None}]
  /\ candidates \subseteq Images
  /\ moving \in [Movers -> Images \union {None}]
  /\ moving[Job] # None => listed # None
  /\ \A m \in copied : moving[m] # None
  /\ vacuumed \subseteq Images
  /\ outrun \subseteq Images

(* The image a product refers to is there, whatever the query for the      *)
(* images in use leaves out: unless a handler removed it, or the product   *)
(* began to refer to it when it was already gone, or was more than a day   *)
(* old and the job had asked a last time, or the replica did not know yet. *)
ImageKept == \A i \in Used(imageUrl) \ outrun : stored[i] # None

(* An image that leaves storage is in the trash until its 90 days are      *)
(* over, however the job, a handler and a failure in the middle of either  *)
(* coincide.                                                               *)
NothingLost ==
  [][\A i \in There : stored'[i] = None => "recent" \in trash'[i]]_vars

=============================================================================
