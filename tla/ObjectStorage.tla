---------------------------- MODULE ObjectStorage ----------------------------
(***************************************************************************)
(* The object store of one account (pkg/objectstore): requests against one *)
(* bucket name, the catalog they share (storage.buckets, storage.objects,  *)
(* PostgreSQL at READ COMMITTED) and the backend that holds the bytes.     *)
(*                                                                         *)
(* A put writes the bytes first, under a key of its own, and the catalog   *)
(* second; a delete takes the object out of the catalog first and out of   *)
(* the backend second.  An object, its row and its blob go by the name of  *)
(* the request that put it.                                                *)
(***************************************************************************)
EXTENDS Integers, FiniteSets, FiniteSetsExt

CONSTANTS
  StoreRequests,  \* requests, each made at most once
  OpOf,           \* OpOf[r]: "put", "get", "delete", "create", "drop" or "purge"
  Keys,           \* object keys, numbers from 1 in their order
  Size,           \* Size[r]: the bytes r puts
  Buckets,        \* 1 .. n: the buckets that bear the name, one after another
  Slots,          \* MaxConcurrentOps of the backend
  BackendFails    \* TRUE: a write, a commit or a backend delete may fail

ASSUME StorageAssumption ==
  /\ OpOf \in [StoreRequests -> {"put", "get", "delete", "create", "drop", "purge"}]
  /\ Size \in [StoreRequests -> Nat]
  /\ Keys \subseteq Nat \ {0} /\ Buckets \subseteq Nat \ {0}
  /\ "none" \notin StoreRequests

VARIABLES
  bucket,    \* bucket[b]: "none", "live" or "deleted"
  count,     \* count[b]: object_count
  bytes,     \* bytes[b]: total_bytes
  object,    \* object[r]: the row that request r put
  blobs,     \* objects whose bytes the backend holds
  req        \* req[r]: where request r is; home: the bucket a purge goes through

storageVars == <<bucket, count, bytes, object, blobs, req>>

NoRow == "none"

NewReq == [at |-> "new", home |-> 0, bucket |-> 0, key |-> 0, row |-> NoRow, slot |-> FALSE]

StorageInit ==
  /\ bucket = [b \in Buckets |-> IF b = 1 THEN "live" ELSE "none"]
  /\ count = [b \in Buckets |-> 0]
  /\ bytes = [b \in Buckets |-> 0]
  /\ object = [r \in StoreRequests |-> [live |-> FALSE, bucket |-> 0, key |-> NewReq.key]]
  /\ blobs = {}
  /\ req = [r \in StoreRequests |-> NewReq]

ReqIs(r, where) == req[r].at = where

LiveBuckets    == {b \in Buckets : bucket[b] = "live"}
LiveRows(b, k) == {o \in StoreRequests : object[o].live /\ object[o].bucket = b /\ object[o].key = k}

\* Mutant of Locked: the rows are read without FOR UPDATE.
NotLocked == {}

\* Rows a transaction holds FOR UPDATE.
Locked == {req[r].row : r \in {q \in StoreRequests : ReqIs(q, "commit")}} \ {NoRow}

Goes(r, where)    == req' = [req EXCEPT ![r].at = where]
Finishes(r)       == req' = [req EXCEPT ![r] = [NewReq EXCEPT !.at = "ended"]]
CatalogUnchanged  == UNCHANGED <<bucket, count, bytes, object>>

-----------------------------------------------------------------------------
(* A request arrives and finds the bucket by its name (resolveBucket). *)

FirstStep == [op \in {"put", "get", "delete", "drop", "purge"} |->
  CASE op = "put" -> "acquire" [] op = "get" -> "look" [] op = "delete" -> "find"
    [] op = "drop" -> "drop" [] op = "purge" -> "page"]

Arrive(r, k) ==
  /\ ReqIs(r, "new") /\ OpOf[r] # "create"
  /\ req' = [req EXCEPT ![r].at = "asked", ![r].key = IF OpOf[r] = "purge" THEN 0 ELSE k]
  /\ CatalogUnchanged /\ UNCHANGED blobs

Resolve(r) ==
  /\ ReqIs(r, "asked")
  /\ IF LiveBuckets = {} THEN Finishes(r)
     ELSE \E b \in LiveBuckets :
            req' = [req EXCEPT ![r].at = FirstStep[OpOf[r]], ![r].bucket = b, ![r].home = b]
  /\ CatalogUnchanged /\ UNCHANGED blobs

\* The name is unique among live buckets: idx_buckets_project_name.
CreateBucket(r) ==
  /\ ReqIs(r, "new") /\ OpOf[r] = "create"
  /\ IF LiveBuckets = {} /\ \E b \in Buckets : bucket[b] = "none"
     THEN LET b == CHOOSE x \in Buckets : bucket[x] = "none" /\ \A y \in Buckets : y < x => bucket[y] # "none"
          IN  bucket' = [bucket EXCEPT ![b] = "live"]
     ELSE UNCHANGED bucket
  /\ Finishes(r)
  /\ UNCHANGED <<count, bytes, object, blobs>>

\* Soft delete, if the counter says that the bucket is empty.
DeleteBucket(r) ==
  /\ ReqIs(r, "drop")
  /\ bucket' = IF bucket[req[r].home] = "live" /\ count[req[r].home] = 0
               THEN [bucket EXCEPT ![req[r].home] = "deleted"] ELSE bucket
  /\ Finishes(r)
  /\ UNCHANGED <<count, bytes, object, blobs>>

-----------------------------------------------------------------------------
(* The backend's slots. *)

InUse == {r \in StoreRequests : req[r].slot}

Acquire(r) ==
  /\ ReqIs(r, "acquire")
  /\ Cardinality(InUse) < Slots
  /\ req' = [req EXCEPT ![r].slot = TRUE,
                        ![r].at = CASE OpOf[r] = "put" -> "write" [] OpOf[r] = "get" -> "read"
                                    [] OTHER -> "clean"]
  /\ CatalogUnchanged /\ UNCHANGED blobs

WriteBlob(r) ==
  /\ ReqIs(r, "write")
  /\ \/ blobs' = blobs \cup {r} /\ Goes(r, "find")
     \/ BackendFails /\ UNCHANGED blobs /\ Finishes(r)
  /\ CatalogUnchanged

\* GetObject: the catalog row, then the bytes; the slot is given back before
\* they are streamed.
LookUp(r) ==
  /\ ReqIs(r, "look")
  /\ LET rows == LiveRows(req[r].bucket, req[r].key)
     IN  IF rows = {} THEN Finishes(r)
         ELSE \E o \in rows : req' = [req EXCEPT ![r].at = "acquire", ![r].row = o]
  /\ CatalogUnchanged /\ UNCHANGED blobs

ReadBlob(r) ==
  /\ ReqIs(r, "read")
  /\ Finishes(r)
  /\ CatalogUnchanged /\ UNCHANGED blobs

-----------------------------------------------------------------------------
(* The catalog's transactions: SELECT ... FOR UPDATE, the writes, COMMIT. *)

\* Where a delete goes when it is over: a purge turns to the next object.
AfterDelete(r) ==
  IF OpOf[r] = "purge"
  THEN req' = [req EXCEPT ![r].at = "page", ![r].row = NoRow, ![r].slot = FALSE]
  ELSE Finishes(r)

Found(r, rows) ==
  IF rows = {} /\ OpOf[r] # "put" THEN AfterDelete(r)
  ELSE IF rows = {} THEN req' = [req EXCEPT ![r].at = "commit", ![r].row = NoRow]
  ELSE \E o \in rows :
         req' = [req EXCEPT ![r].at = IF o \in Locked THEN "blocked" ELSE "commit", ![r].row = o]

SelectForUpdate(r) ==
  /\ ReqIs(r, "find")
  /\ Found(r, LiveRows(req[r].bucket, req[r].key))
  /\ CatalogUnchanged /\ UNCHANGED blobs

\* The statement waited for another transaction: it looks at the row again and
\* does not see one inserted meanwhile.
Unblocked(r) ==
  /\ ReqIs(r, "blocked") /\ req[r].row \notin Locked
  /\ Found(r, {o \in {req[r].row} : object[o].live})
  /\ CatalogUnchanged /\ UNCHANGED blobs

SizeOfOld(r) == IF req[r].row = NoRow THEN 0 ELSE Size[req[r].row]

\* A live row that another put has committed since: idx_objects_bucket_key.
Conflicting(r) == LiveRows(req[r].bucket, req[r].key) \ {req[r].row} # {}

CommitPut(r) ==
  /\ ReqIs(r, "commit") /\ OpOf[r] = "put"
  /\ ~Conflicting(r)
  /\ LET b == req[r].bucket  old == req[r].row
     IN  /\ object' = [o \in StoreRequests |->
                         IF o = r THEN [live |-> TRUE, bucket |-> b, key |-> req[r].key]
                         ELSE IF o = old THEN [object[o] EXCEPT !.live = FALSE] ELSE object[o]]
         /\ count' = [count EXCEPT ![b] = @ + IF old = NoRow THEN 1 ELSE 0]
         /\ bytes' = [bytes EXCEPT ![b] = @ + Size[r] - SizeOfOld(r)]
         /\ IF old = NoRow THEN Finishes(r) ELSE Goes(r, "clean")
  /\ UNCHANGED <<bucket, blobs>>

CommitDelete(r) ==
  /\ ReqIs(r, "commit") /\ OpOf[r] \in {"delete", "purge"}
  /\ LET b == req[r].bucket  old == req[r].row
     IN  /\ object' = [object EXCEPT ![old].live = FALSE]
         /\ count' = [count EXCEPT ![b] = @ - 1]
         /\ bytes' = [bytes EXCEPT ![b] = @ - Size[old]]
  /\ Goes(r, "acquire")
  /\ UNCHANGED <<bucket, blobs>>

\* The insert hits the unique index, or a statement fails: nothing is changed.
RollBack(r) ==
  /\ ReqIs(r, "commit")
  /\ BackendFails \/ (OpOf[r] = "put" /\ Conflicting(r))
  /\ Finishes(r)
  /\ CatalogUnchanged /\ UNCHANGED blobs

Superseded(r) == {req[r].row}

\* The blob nobody can reach any more; a refusal is only logged.
CleanUp(r) ==
  /\ ReqIs(r, "clean")
  /\ blobs' = blobs \ Superseded(r) \/ (BackendFails /\ UNCHANGED blobs)
  /\ AfterDelete(r)
  /\ CatalogUnchanged

-----------------------------------------------------------------------------
(* PurgeAccount: the objects of the bucket in the order of their keys, each   *)
(* after the last one's key, then the bucket.                                 *)

Page(r) ==
  /\ ReqIs(r, "page")
  /\ LET keys == {object[o].key : o \in {x \in StoreRequests :
                     object[x].live /\ object[x].bucket = req[r].home /\ object[x].key > req[r].key}}
     IN  IF keys = {} THEN Goes(r, "drop")
         ELSE req' = [req EXCEPT ![r].at = "named", ![r].key = Min(keys)]
  /\ CatalogUnchanged /\ UNCHANGED blobs

\* Each object is deleted by the bucket's name, which another may bear by now.
ResolveAgain(r) ==
  /\ ReqIs(r, "named")
  /\ IF LiveBuckets = {} THEN Finishes(r)
     ELSE \E b \in LiveBuckets : req' = [req EXCEPT ![r].at = "find", ![r].bucket = b]
  /\ CatalogUnchanged /\ UNCHANGED blobs

StorageStep(r) ==
  \/ Resolve(r) \/ DeleteBucket(r)
  \/ Acquire(r) \/ WriteBlob(r) \/ LookUp(r) \/ ReadBlob(r)
  \/ SelectForUpdate(r) \/ Unblocked(r) \/ CommitPut(r) \/ CommitDelete(r) \/ RollBack(r)
  \/ CleanUp(r) \/ Page(r) \/ ResolveAgain(r)

StorageNext == \E r \in StoreRequests :
  StorageStep(r) \/ CreateBucket(r) \/ \E k \in Keys : Arrive(r, k)

StorageSpec == StorageInit /\ [][StorageNext]_storageVars

-----------------------------------------------------------------------------
(* What should hold. *)

\* The counters billing reads are the live objects, whatever puts, overwrites
\* and deletes of one key meet (store.go PutObjectRecord, DeleteObject).
CountersExact == \A b \in Buckets :
  LET live == {o \in StoreRequests : object[o].live /\ object[o].bucket = b}
  IN  /\ count[b] = Cardinality(live)
      /\ bytes[b] = MapThenSumSet(LAMBDA o : Size[o], live)

\* What the catalog offers can be read: no clean-up takes the bytes of an
\* object that is live (service.go:143-150).
LiveObjectHasBytes == \A o \in StoreRequests : object[o].live => o \in blobs

\* What the catalog says is stored, is (pkg/objectstore).
CatalogTrue == CountersExact /\ LiveObjectHasBytes
=============================================================================
