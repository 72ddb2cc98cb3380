------------------------------- MODULE Media -------------------------------
(***************************************************************************)
(* The media library (handlers/admin_media.go, store/media.go,             *)
(* store/media_variant.go, storage/s3.go, imaging/imaging.go): images      *)
(* whose bytes are objects in S3 and whose rows are in PostgreSQL, with no *)
(* transaction over both.  Four requests work on them: an upload (by hand  *)
(* or of a generated image), a delete, the regeneration of one image's     *)
(* variants and the bulk regeneration.  Public pages name the objects and  *)
(* stay in the page cache, which none of the four purges.                  *)
(*                                                                         *)
(* An object key holds the month in which it was made, the image and the   *)
(* size: 0 for the original, 1 for the thumbnail, 2 and up for the wider   *)
(* variants.  Regenerating in the month of the first upload therefore      *)
(* reuses the keys, and in a later month it does not.                      *)
(*                                                                         *)
(* Abstractions.  All images are of a type that can have variants and are  *)
(* in the public bucket.  Every call to S3 and every SQL statement is a    *)
(* step.  Requests on an image of another tenant are answered 404 without  *)
(* effect; only the bulk regeneration meets such images.                   *)
(***************************************************************************)
EXTENDS Naturals, Sequences, FiniteSets

CONSTANTS
  Items,        \* images that can be uploaded
  Tenants,      \* tenants whose admins are at work
  Owner,        \* Owner[i]: the tenant of image i, which may be yet another
  Libraries,    \* the libraries a behaviour may begin with: see Library
  Shown,        \* images that some public page shows
  Width,        \* Width[i]: in pixels, 0 when libvips cannot decode it
  Breakpoints,  \* widths of the variants, thumbnail first, ascending
  BulkLimit,    \* images a bulk regeneration takes on
  Admins,       \* requests that can be in flight together
  Visitors,     \* page requests that can be in flight together
  NoRow,        \* no such row
  NoPage,       \* not in the page cache
  MaxMonth,     \* bound: months in which anything happens
  MaxRequests,  \* bound on admin requests
  MaxFaults     \* bound on failing calls, restarts and clients that leave

Months == 1..MaxMonth
Sizes == 1..Len(Breakpoints)
Thumb == 1
Key == [item : Items, month : Months, size : Sizes \cup {0}]

\* thumb is the month in thumb_s3_key, 0 for NULL.  born orders created_at.
MediaRow == [thumb : Months \cup {0}, born : Nat]

\* A page in the cache, by the objects it names.
CachedPage == [names : SUBSET Key]

ASSUME MediaAssumption ==
  /\ Libraries \subseteq [Items -> {"absent", "bare", "full"}]
  /\ Shown \subseteq Items
  /\ Width \in [Items -> Nat]
  /\ Items # {} /\ Tenants # {}
  /\ Breakpoints \in Seq(Nat) /\ Len(Breakpoints) > 0
  /\ \A s, t \in Sizes : s < t => Breakpoints[s] < Breakpoints[t]
  /\ BulkLimit \in Nat /\ MaxMonth \in Nat \ {0}
  /\ MaxRequests \in Nat /\ MaxFaults \in Nat
  /\ NoRow \notin MediaRow
  /\ NoPage \notin CachedPage

\* The narrowest variants, up to the first that is as wide as the image.
Fitting(i) ==
  {s \in Sizes : Width[i] > 0 /\ (s = Thumb \/ Width[i] > Breakpoints[s - 1])}

VARIABLES
  month,     \* the current month
  objects,   \* the keys stored in S3
  filed,     \* filed[i]: the month in the key of i's original, 0 before that
  rows,      \* rows[i]: row of image i, or NoRow
  made,      \* number of rows ever inserted
  variants,  \* variants[i]: the keys in i's variant rows
  req,       \* req[a]: where request a is, and what it holds in memory
  view,      \* view[v]: the same for a page request
  cached,    \* cached[i]: the cached page that shows image i, or NoPage
  begun,     \* number of admin requests begun
  faults,    \* number of faults so far
  met        \* history: images that two admin requests worked on together

store == <<objects, filed, rows, made, variants>>
public == <<view, cached>>
bounds == <<begun, faults, met>>
vars == <<month, store, req, public, bounds>>

\* keys: objects to delete, or the variants uploaded.  next: the next size to
\* upload.  bare: the row as read had no thumbnail.  queue: what a bulk request
\* has left to do.  gone: the client has left, so r.Context() is cancelled.
Request ==
  [job : {"none", "upload", "delete", "regenerate", "bulk"},
   pc : {"idle", "find", "download", "strip", "purge", "generate", "batch"},
   item : Items, keys : SUBSET Key, month : Months, next : Nat,
   bare : BOOLEAN, queue : Seq(Items), tenant : Tenants, gone : BOOLEAN]

Asleep ==
  [job |-> "none", pc |-> "idle", item |-> CHOOSE i \in Items : TRUE, keys |-> {},
   month |-> 1, next |-> 1, bare |-> FALSE, queue |-> <<>>,
   tenant |-> CHOOSE t \in Tenants : TRUE, gone |-> FALSE]

Page ==
  [pc : {"idle"}] \cup
  [pc : {"last"}, item : Items, by : {"featured", "list", "body"}, keys : SUBSET Key]

Away == [pc |-> "idle"]

\* A variant that breaks TypeOK: months counted from 0.
KeyOfZeroBased(i, m, s) == [item |-> i, month |-> m - 1, size |-> s]

KeyOf(i, m, s) == [item |-> i, month |-> m, size |-> s]
AllVariants(i) == {KeyOf(i, 1, s) : s \in Fitting(i)}

\* An image is absent, bare when it was uploaded before there were variants, or
\* full after an upload that ended well.  Left out are images from the time when
\* there was a thumbnail but no table of variants: a bulk regeneration gives these
\* variants and leaves thumb_s3_key at the old object (admin_media.go:554).
Library(kind) ==
  /\ objects = {KeyOf(i, 1, 0) : i \in {j \in Items : kind[j] # "absent"}}
               \cup UNION {AllVariants(i) : i \in {j \in Items : kind[j] = "full"}}
  /\ filed = [i \in Items |-> IF kind[i] = "absent" THEN 0 ELSE 1]
  /\ rows = [i \in Items |->
                IF kind[i] = "absent" THEN NoRow
                ELSE [thumb |-> IF kind[i] = "full" /\ Fitting(i) # {} THEN 1 ELSE 0,
                      born |-> 0]]
  /\ variants = [i \in Items |-> IF kind[i] = "full" THEN AllVariants(i) ELSE {}]
  /\ made = 0

Init ==
  /\ month = 1
  /\ \E kind \in Libraries : Library(kind)
  /\ req = [a \in Admins |-> Asleep]
  /\ view = [v \in Visitors |-> Away]
  /\ cached = [i \in Items |-> NoPage]
  /\ begun = 0 /\ faults = 0 /\ met = {}

Original(i) == KeyOf(i, filed[i], 0)
ThumbOf(i) == IF rows[i].thumb = 0 THEN {} ELSE {KeyOf(i, rows[i].thumb, Thumb)}
WorkingOn(i) ==
  {a \in Admins : /\ req[a].job # "none"
                  /\ \/ req[a].item = i /\ req[a].pc # "find"
                     \/ \E n \in 1..Len(req[a].queue) : req[a].queue[n] = i}
Meets(S) == met \cup {i \in S : WorkingOn(i) # {}}

Begin(a, S) ==
  /\ req[a].job = "none" /\ begun < MaxRequests
  /\ begun' = begun + 1
  /\ met' = Meets(S)
  /\ UNCHANGED <<month, public, faults>>

Goes(a, r) == req' = [req EXCEPT ![a] = r]

\* Bound: besides MaxFaults, pages are shown in the behaviours without faults only.
\* No request depends on them, and no property speaks of them after a fault.
MayFail ==
  /\ faults < MaxFaults
  /\ view = [v \in Visitors |-> Away] /\ cached = [i \in Items |-> NoPage]

\* A call fails: for good once the client has left, otherwise by chance.
Fault(a) ==
  /\ \/ req[a].gone /\ faults' = faults
     \/ ~req[a].gone /\ MayFail /\ faults' = faults + 1
  /\ UNCHANGED <<month, public, begun, met>>

Quiet == UNCHANGED <<month, public, bounds>>

(*------------------------------- the requests ---------------------------*)

\* A variant that breaks OriginalsStored: an upload whose error is only logged.
UploadUnchecked(a, i) ==
  /\ filed[i] = 0
  /\ Begin(a, {i})
  /\ filed' = [filed EXCEPT ![i] = month]
  /\ Goes(a, [Asleep EXCEPT !.job = "upload", !.pc = "generate", !.item = i,
                            !.month = month])
  /\ UNCHANGED <<objects, rows, made, variants>>

\* MediaUpload and AIGenerateImage: the original goes first, under a new key.
UploadOriginal(a, i) ==
  /\ filed[i] = 0
  /\ Begin(a, {i})
  /\ filed' = [filed EXCEPT ![i] = month]
  /\ objects' = objects \cup {KeyOf(i, month, 0)}
  /\ Goes(a, [Asleep EXCEPT !.job = "upload", !.pc = "generate", !.item = i,
                            !.month = month])
  /\ UNCHANGED <<rows, made, variants>>

\* The original may have arrived although the call fails.
UploadFails(a, i) ==
  /\ filed[i] = 0 /\ MayFail
  /\ req[a].job = "none" /\ begun < MaxRequests
  /\ begun' = begun + 1 /\ faults' = faults + 1
  /\ filed' = [filed EXCEPT ![i] = month]
  /\ objects' \in {objects, objects \cup {KeyOf(i, month, 0)}}
  /\ UNCHANGED <<month, rows, made, variants, req, public, met>>

\* generateAndUploadVariants, one size.
UploadVariant(a) ==
  LET r == req[a]  k == KeyOf(r.item, r.month, r.next) IN
  /\ r.pc = "generate" /\ ~r.gone /\ r.next \in Fitting(r.item)
  /\ objects' = objects \cup {k}
  /\ Goes(a, [r EXCEPT !.keys = @ \cup {k}, !.next = @ + 1])
  /\ UNCHANGED <<filed, rows, made, variants>> /\ Quiet

\* The size is left out, whether or not the object arrived.
VariantFails(a) ==
  LET r == req[a]  k == KeyOf(r.item, r.month, r.next) IN
  /\ r.pc = "generate" /\ r.next \in Fitting(r.item)
  /\ Fault(a)
  /\ \/ objects' = objects
     \/ ~r.gone /\ objects' = objects \cup {k}
  /\ Goes(a, [r EXCEPT !.next = @ + 1])
  /\ UNCHANGED <<filed, rows, made, variants>>

Generated(a) == req[a].pc = "generate" /\ req[a].next \notin Fitting(req[a].item)
Thumbed(r) == KeyOf(r.item, r.month, Thumb) \in r.keys

InsertRow(a) ==
  LET r == req[a] IN
  /\ Generated(a) /\ r.job = "upload"
  /\ rows' = [rows EXCEPT ![r.item] =
                [thumb |-> IF Thumbed(r) THEN r.month ELSE 0, born |-> made + 1]]
  /\ made' = made + 1
  /\ Goes(a, [r EXCEPT !.pc = "batch"])
  /\ UNCHANGED <<objects, filed, variants>> /\ Quiet

\* A variant that breaks RowsMatchObjects: a thumbnail, once there, is never updated.
SetFirstThumb(a) ==
  LET r == req[a]
      wanted == Thumbed(r) /\ rows[r.item] # NoRow IN
  /\ Generated(a) /\ r.job \in {"regenerate", "bulk"}
  /\ rows' = IF wanted
             THEN [rows EXCEPT ![r.item] = [@ EXCEPT !.thumb = IF @ = 0 THEN r.month ELSE @]]
             ELSE rows
  /\ Goes(a, [r EXCEPT !.pc = "batch"])
  /\ UNCHANGED <<objects, filed, made, variants>> /\ Quiet

\* UpdateThumbKey.  The bulk request keeps the thumbnail the row had.
SetThumb(a) ==
  LET r == req[a]
      wanted == Thumbed(r) /\ (r.job = "bulk" => r.bare) IN
  /\ Generated(a) /\ r.job \in {"regenerate", "bulk"}
  /\ rows' = IF wanted /\ rows[r.item] # NoRow
             THEN [rows EXCEPT ![r.item] = [@ EXCEPT !.thumb = r.month]] ELSE rows
  /\ Goes(a, [r EXCEPT !.pc = "batch"])
  /\ UNCHANGED <<objects, filed, variants, made>> /\ Quiet

Finished(r) ==
  IF r.job = "bulk" THEN [r EXCEPT !.pc = "find", !.keys = {}] ELSE Asleep

\* CreateBatch: all rows or none.  It fails when the image has been deleted or
\* has a variant of one of the names; the error is only logged.
SaveVariants(a) ==
  LET r == req[a]
      taken == {k.size : k \in variants[r.item]} \cap {k.size : k \in r.keys} IN
  /\ r.pc = "batch"
  /\ variants' = IF rows[r.item] # NoRow /\ taken = {}
                 THEN [variants EXCEPT ![r.item] = @ \cup r.keys] ELSE variants
  /\ Goes(a, Finished(r))
  /\ UNCHANGED <<objects, filed, rows, made>> /\ Quiet

\* A variant that breaks RowsMatchObjects: the variants are left to the cascade.
DeleteBlindly(a, i) ==
  /\ filed[i] # 0
  /\ Begin(a, {i})
  /\ Goes(a, [Asleep EXCEPT !.job = "delete", !.pc = "strip", !.item = i])
  /\ UNCHANGED store

\* MediaDelete: the variants' keys are read before the row goes.
DeleteRead(a, i) ==
  /\ filed[i] # 0
  /\ Begin(a, {i})
  /\ Goes(a, [Asleep EXCEPT !.job = "delete", !.pc = "strip", !.item = i,
                            !.keys = variants[i]])
  /\ UNCHANGED store

\* The error of that read is dropped, and the keys with it.
DeleteReadFails(a, i) ==
  /\ filed[i] # 0 /\ variants[i] # {} /\ MayFail
  /\ req[a].job = "none" /\ begun < MaxRequests
  /\ begun' = begun + 1 /\ faults' = faults + 1 /\ met' = Meets({i})
  /\ Goes(a, [Asleep EXCEPT !.job = "delete", !.pc = "strip", !.item = i])
  /\ UNCHANGED <<month, store, public>>

\* The row goes, and its variant rows by cascade.
DeleteRow(a) ==
  LET r == req[a] IN
  /\ r.job = "delete" /\ r.pc = "strip"
  /\ IF rows[r.item] = NoRow
     THEN Goes(a, Asleep) /\ UNCHANGED <<rows, made, variants>>
     ELSE /\ rows' = [rows EXCEPT ![r.item] = NoRow]
          /\ variants' = [variants EXCEPT ![r.item] = {}]
          /\ Goes(a, [r EXCEPT !.pc = "purge",
                               !.keys = @ \cup {Original(r.item)} \cup ThumbOf(r.item)])
  /\ UNCHANGED <<objects, filed, made>> /\ Quiet

\* MediaRegenerateVariants and, below, MediaRegenerateBulk.
RegenerateFind(a, i) ==
  /\ rows[i] # NoRow
  /\ Begin(a, {i})
  /\ Goes(a, [Asleep EXCEPT !.job = "regenerate", !.pc = "download", !.item = i])
  /\ UNCHANGED store

Download(a) ==
  LET r == req[a] IN
  /\ r.pc = "download" /\ ~r.gone /\ Original(r.item) \in objects
  /\ Goes(a, IF r.job = "bulk" THEN [r EXCEPT !.pc = "generate", !.month = month, !.next = 1]
             ELSE [r EXCEPT !.pc = "strip"])
  /\ UNCHANGED store /\ Quiet

NothingToDownload(a) ==
  LET r == req[a] IN
  /\ r.pc = "download" /\ ~r.gone /\ Original(r.item) \notin objects
  /\ Goes(a, Finished(r))
  /\ UNCHANGED store /\ Quiet

DownloadFails(a) ==
  /\ req[a].pc = "download"
  /\ Fault(a)
  /\ Goes(a, Finished(req[a]))
  /\ UNCHANGED store

\* A variant that breaks PagesRecover: the rows are listed, and stay.
StripObjectsOnly(a) ==
  LET r == req[a] IN
  /\ r.job = "regenerate" /\ r.pc = "strip"
  /\ Goes(a, [r EXCEPT !.pc = "purge", !.keys = variants[r.item]])
  /\ UNCHANGED store /\ Quiet

\* DeleteByMediaID.
StripRows(a) ==
  LET r == req[a] IN
  /\ r.job = "regenerate" /\ r.pc = "strip"
  /\ variants' = [variants EXCEPT ![r.item] = {}]
  /\ Goes(a, [r EXCEPT !.pc = "purge", !.keys = variants[r.item]])
  /\ UNCHANGED <<objects, filed, rows, made>> /\ Quiet

\* The next object to delete: the original first, then by width.
NextKey(K, k) == k \in K /\ \A l \in K : k.size <= l.size

PurgeObject(a) ==
  /\ req[a].pc = "purge" /\ ~req[a].gone
  /\ \E k \in req[a].keys :
       /\ NextKey(req[a].keys, k)
       /\ objects' = objects \ {k}
       /\ Goes(a, [req[a] EXCEPT !.keys = @ \ {k}])
  /\ UNCHANGED <<filed, rows, made, variants>> /\ Quiet

PurgeFails(a) ==
  /\ req[a].pc = "purge"
  /\ \E k \in req[a].keys :
       /\ NextKey(req[a].keys, k)
       /\ Goes(a, [req[a] EXCEPT !.keys = @ \ {k}])
  /\ Fault(a)
  /\ UNCHANGED store

Purged(a) ==
  LET r == req[a] IN
  /\ r.pc = "purge" /\ r.keys = {}
  /\ Goes(a, IF r.job = "delete" THEN Asleep
             ELSE [r EXCEPT !.pc = "generate", !.month = month, !.next = 1])
  /\ UNCHANGED store /\ Quiet

\* ListMediaWithoutVariants: of every tenant, newest first.
Missing == {i \in Items : rows[i] # NoRow /\ variants[i] = {}}
NewestFirst(q) ==
  /\ Len(q) = (IF Cardinality(Missing) < BulkLimit THEN Cardinality(Missing) ELSE BulkLimit)
  /\ \A n \in 1..Len(q) :
       /\ q[n] \in Missing \ {q[p] : p \in 1..(n - 1)}
       /\ \A i \in Missing :
            rows[i].born > rows[q[n]].born => \E p \in 1..(n - 1) : q[p] = i

BulkList(a, t) ==
  \E n \in 1..BulkLimit : \E q \in [1..n -> Items] :
    /\ NewestFirst(q)
    /\ Begin(a, {q[m] : m \in 1..n})
    /\ Goes(a, [Asleep EXCEPT !.job = "bulk", !.pc = "find", !.queue = q, !.tenant = t])
    /\ UNCHANGED store

\* A variant that breaks BulkServes: the loop ends at the first image it cannot find.
BulkNextOrStop(a) ==
  LET r == req[a]  i == Head(r.queue)  rest == Tail(r.queue) IN
  /\ r.job = "bulk" /\ r.pc = "find" /\ r.queue # <<>>
  /\ Goes(a, IF rows[i] = NoRow \/ Owner[i] # r.tenant THEN [r EXCEPT !.queue = <<>>]
             ELSE [r EXCEPT !.pc = "download", !.item = i, !.queue = rest,
                            !.bare = (rows[i].thumb = 0)])
  /\ UNCHANGED store /\ Quiet

\* FindByID within the session's tenant: other tenants' images count as failed.
BulkNext(a) ==
  LET r == req[a]  i == Head(r.queue)  rest == Tail(r.queue) IN
  /\ r.job = "bulk" /\ r.pc = "find" /\ r.queue # <<>>
  /\ Goes(a, IF rows[i] = NoRow \/ Owner[i] # r.tenant THEN [r EXCEPT !.queue = rest]
             ELSE [r EXCEPT !.pc = "download", !.item = i, !.queue = rest,
                            !.bare = (rows[i].thumb = 0)])
  /\ UNCHANGED store /\ Quiet

BulkEnd(a) ==
  /\ req[a].job = "bulk" /\ req[a].pc = "find" /\ req[a].queue = <<>>
  /\ Goes(a, Asleep)
  /\ UNCHANGED store /\ Quiet

(*------------------------------- faults ---------------------------------*)

\* A statement fails.  A lost INSERT or DELETE of the image's row ends the
\* request; the other errors are logged and the request goes on.
StatementFails(a) ==
  LET r == req[a] IN
  /\ MayFail /\ faults' = faults + 1
  /\ \/ /\ Generated(a) /\ r.job = "upload"
        /\ Goes(a, Asleep)
     \/ /\ Generated(a) /\ r.job # "upload"
        /\ Goes(a, [r EXCEPT !.pc = "batch"])
     \/ /\ r.pc = "batch"
        /\ Goes(a, Finished(r))
     \/ /\ r.pc = "find" /\ r.queue # <<>>
        /\ Goes(a, [r EXCEPT !.queue = Tail(@)])
     \/ /\ r.pc = "strip" /\ r.job = "delete"
        /\ Goes(a, Asleep)
     \/ /\ r.pc = "strip" /\ r.job = "regenerate"
        /\ Goes(a, [r EXCEPT !.pc = "purge", !.keys = {}])
  /\ UNCHANGED <<month, store, public, begun, met>>

ClientLeaves(a) ==
  /\ req[a].job # "none" /\ ~req[a].gone /\ MayFail
  /\ faults' = faults + 1
  /\ Goes(a, [req[a] EXCEPT !.gone = TRUE])
  /\ UNCHANGED <<month, store, public, begun, met>>

Restart ==
  /\ MayFail /\ faults' = faults + 1
  /\ req' = [a \in Admins |-> Asleep]
  /\ view' = [v \in Visitors |-> Away]
  /\ UNCHANGED <<month, store, cached, begun, met>>

NextMonth ==
  /\ month < MaxMonth /\ month' = month + 1
  /\ UNCHANGED <<store, req, public, bounds>>

(*------------------------------- public pages ---------------------------*)

Wide(K) == {k \in K : k.size > Thumb}

\* The first of two queries: the image's row (a featured image, or an image in a
\* body, found by its key), or the variants (the posts of a list).
ViewBegin(v, i, by) ==
  /\ view[v] = Away /\ cached[i] = NoPage /\ filed[i] # 0 /\ faults = 0
  /\ IF by = "list" \/ rows[i] # NoRow
     THEN /\ view' = [view EXCEPT ![v] =
                        [pc |-> "last", item |-> i, by |-> by,
                         keys |-> IF by = "list" THEN Wide(variants[i])
                                  ELSE IF by = "featured" THEN {Original(i)} ELSE {}]]
          /\ UNCHANGED cached
     ELSE cached' = [cached EXCEPT ![i] = [names |-> {}]] /\ UNCHANGED view
  /\ UNCHANGED <<month, store, req, bounds>>

\* The second query; the page is rendered and cached.  What the author wrote in
\* a body is not counted, only the srcset that rewriteBodyImages adds to it.
ViewEnd(v) ==
  LET w == view[v]
      shown == IF w.by # "list" THEN w.keys \cup Wide(variants[w.item])
               ELSE IF rows[w.item] = NoRow THEN {} ELSE w.keys \cup {Original(w.item)} IN
  /\ w.pc = "last"
  /\ cached' = [cached EXCEPT ![w.item] = [names |-> shown]]
  /\ view' = [view EXCEPT ![v] = Away]
  /\ UNCHANGED <<month, store, req, bounds>>

Expire(i) ==
  /\ cached[i] # NoPage
  /\ cached' = [cached EXCEPT ![i] = NoPage]
  /\ UNCHANGED <<month, store, req, view, bounds>>

(*------------------------------- specification --------------------------*)

Work(a) ==
  \/ UploadVariant(a) \/ InsertRow(a) \/ SetThumb(a) \/ SaveVariants(a)
  \/ DeleteRow(a)
  \/ Download(a) \/ NothingToDownload(a) \/ StripRows(a) \/ PurgeObject(a) \/ Purged(a)
  \/ BulkNext(a) \/ BulkEnd(a)

CallFails(a) == VariantFails(a) \/ DownloadFails(a) \/ PurgeFails(a)

Ask(a) ==
  \/ \E i \in {j \in Items : Owner[j] \in Tenants} :
       \/ UploadOriginal(a, i) \/ UploadFails(a, i)
       \/ DeleteRead(a, i) \/ DeleteReadFails(a, i)
       \/ RegenerateFind(a, i)
  \/ \E t \in Tenants : BulkList(a, t)

Look(v) == \E i \in Shown, by \in {"featured", "list", "body"} : ViewBegin(v, i, by)

Next ==
  \/ \E a \in Admins : Ask(a) \/ Work(a) \/ CallFails(a) \/ StatementFails(a) \/ ClientLeaves(a)
  \/ \E v \in Visitors : Look(v) \/ ViewEnd(v)
  \/ \E i \in Shown : Expire(i)
  \/ NextMonth \/ Restart

Spec == Init /\ [][Next]_vars

\* Handlers run to their end, and cached pages expire.
FairSpec ==
  /\ Spec
  /\ \A a \in Admins : WF_vars(Work(a) \/ CallFails(a))
  /\ \A v \in Visitors : WF_vars(ViewEnd(v))
  /\ \A i \in Shown : WF_vars(Expire(i))
(*------------------------------- properties -----------------------------*)

\* Every variable has its type.
TypeOK ==
  /\ month \in Months /\ objects \subseteq Key
  /\ filed \in [Items -> Months \cup {0}]
  /\ rows \in [Items -> MediaRow \cup {NoRow}] /\ made \in Nat
  /\ variants \in [Items -> SUBSET Key]
  /\ req \in [Admins -> Request] /\ view \in [Visitors -> Page]
  /\ cached \in [Items -> CachedPage \cup {NoPage}]
  /\ begun \in 0..MaxRequests /\ faults \in 0..MaxFaults /\ met \subseteq Items

\* An image in the library can be downloaded, whatever calls fail, whoever leaves
\* and whenever the process restarts: MediaUpload stores the object before the
\* row, MediaDelete deletes the row before the object, and no other request
\* deletes an original.
OriginalsStored == \A i \in Items : rows[i] # NoRow => Original(i) \in objects

\* Two requests that meet on an image in a later month than that of its upload
\* can leave variant rows whose objects are gone: one deletes the objects the
\* other has made under the old month's keys, makes new ones under the new
\* month's, and cannot insert their rows, because the other's rows are there.
Undisturbed(i) == faults = 0 /\ (i \in met => month = filed[i])

\* When no call has failed and the requests on an image have ended, the thumbnail
\* and the variants its rows name are stored, also when regenerations overlapped
\* in the month of the upload.
NothingMissing ==
  \A i \in Items : rows[i] # NoRow /\ WorkingOn(i) = {} /\ Undisturbed(i)
                     => ThumbOf(i) \cup variants[i] \subseteq objects

StoredOf(i) == {k \in objects : k.item = i}

\* And when no call has failed and no two requests met on an image, what S3 holds of it
\* is exactly what its rows name: nothing is left of a deleted image, nor of
\* variants that were replaced in a later month.
NothingLeftOver ==
  \A i \in Items : faults = 0 /\ i \notin met /\ WorkingOn(i) = {} =>
    StoredOf(i) = IF rows[i] = NoRow THEN {}
                  ELSE {Original(i)} \cup ThumbOf(i) \cup variants[i]

\* What the library's rows name is what S3 holds.
RowsMatchObjects == NothingMissing /\ NothingLeftOver

\* An image that a bulk regeneration has listed gets its variants if it can have
\* any and is the tenant's own: the other tenants' images in the list, and those
\* that cannot be decoded, do not stop the loop.
BulkServes ==
  \A i \in {j \in Items : Fitting(j) # {}} :
    (\E a \in Admins : /\ req[a].job = "bulk" /\ Owner[i] = req[a].tenant
                       /\ \E n \in 1..Len(req[a].queue) : req[a].queue[n] = i)
    ~> (variants[i] # {} \/ rows[i] = NoRow \/ faults > 0)

\* Pages that were cached while an image was deleted or regenerated name objects
\* that are gone, since no media request purges the page cache.  In the end every
\* cached page names stored objects only.
PagesRecover ==
  <>[](\A i \in Items :
         Undisturbed(i) /\ cached[i] # NoPage
           => cached[i].names \subseteq objects)
=============================================================================
